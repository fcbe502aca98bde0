-------------------------- MODULE SshBrokerProofs --------------------------
(***************************************************************************)
(* The session broker keeps the promises of its port for any set of host   *)
(* keys and any number of calls, whichever step fails or is interrupted.   *)
(***************************************************************************)
EXTENDS SshBroker, TLAPS

(***************************************************************************)
(* Where open_session or close is fixes what has been acquired and what    *)
(* has been tried.                                                         *)
(***************************************************************************)
OpeningInv ==
    /\ pc \in Unprotected =>
          /\ \A f \in Flags : ~ flag[f]
          /\ flight = "none" /\ relays = {} /\ closes = {}
    /\ pc = "connect" => \A r \in Resources : resource[r] = "none"
    /\ pc \in Unprotected \ {"connect"} => resource["socket"] = "open"
    /\ pc \in {"negotiate", "verify", "authenticate", "release_transport", "release_socket",
               "open_channel"} => resource["channel"] = "none"
    /\ pc \in {"verify", "authenticate", "open_channel", "pty", "shell"} =>
          resource["transport"] = "open"
    /\ pc \in {"pty", "shell"} => resource["channel"] = "open"
    /\ pc = "release_transport" => resource["transport"] \in {"none", "open"}
    /\ pc = "release_socket" => resource["transport"] # "open"
    /\ pc \in {"connect", "negotiate", "verify"} => ~ sent
    /\ pc \in {"authenticate", "open_channel", "pty", "shell"} => server_key = PinnedKey
    /\ pc \in Unprotected \ {"release_transport", "release_socket"} => error = "none"
    /\ pc \in {"release_transport", "release_socket", "raised"} => error # "none"
    /\ pc \in {"raised", "session"} => flight = "none"

\* The brokered session before its first close: relay is the only call that
\* can have touched the channel, and a channel it did not close made it raise.
\* A relay that was interrupted may have left the channel as it was.
LiveSession ==
    /\ resource["socket"] = "open" /\ resource["transport"] = "open"
    /\ server_key = PinnedKey /\ error = "none" /\ flight = "none" /\ closes = {}
    /\ IF flag["channel"]
         THEN /\ resource["channel"] \in {"closed", "close_failed"}
              /\ resource["channel"] = "close_failed" => "raised" \in relays
         ELSE resource["channel"] = "open"

\* A close in progress: of the session, or of the connection by open_session.
\* done is what has been tried so far, except for a channel whose close
\* KeyboardInterrupt skipped; what was not closed is in flight.
Closing(done) ==
    /\ \A r \in done \ {"channel"} : resource[r] # "open"
    /\ flight # "interrupt" => resource["channel"] # "open"
    /\ \A r \in {"socket", "transport"} \ done : resource[r] = "open"
    /\ "transport" \in done => resource["transport"] # "none"
    /\ "socket" \in done => resource["socket"] # "none"
    /\ closes = {}
    /\ flag["session"] =>
          /\ error = "none" /\ resource["channel"] # "none"
          /\ flight = "none" =>
                /\ \A r \in done \ {"channel"} : resource[r] = "closed"
                /\ resource["channel"] = "closed" \/ "raised" \in relays
          /\ flight = "exception" => \E r \in done : resource[r] # "closed"
    /\ ~ flag["session"] => error # "none" /\ relays = {}

ClosingInv ==
    /\ pc = "session" /\ ~ flag["session"] => LiveSession
    /\ pc = "close_channel" => flag["session"] /\ LiveSession
    /\ pc = "close_transport" => Closing({"channel"})
    /\ pc = "close_socket" => Closing({"channel", "transport"})
    /\ pc = "unwind" => Closing(Resources)
    /\ pc \in Calm /\ flag["session"] => error = "none"
    /\ pc = "session" /\ flag["session"] => ~ Leaks
    /\ pc = "raised" => ~ Leaks /\ relays = {} /\ closes = {}
    /\ resource["channel"] # "none" => server_key = PinnedKey

BrokerInv == TypeOK /\ PasswordOnlyToPinnedHost /\ OpeningInv /\ ClosingInv

-----------------------------------------------------------------------------
LEMMA InitBroker == Init => BrokerInv
<1> SUFFICES ASSUME Init PROVE BrokerInv
  OBVIOUS
<1>1. TypeOK
  <2>1. resource \in [Resources -> {"none", "open", "closed", "close_failed"}]
    BY DEF Init
  <2>2. flag \in [Flags -> BOOLEAN]
    BY DEF Init
  <2>3. calls \in 0..MaxCalls
    BY CallsAssumption DEF Init
  <2> QED
    BY <2>1, <2>2, <2>3 DEF Init, TypeOK, Calm, Unprotected
<1>2. PasswordOnlyToPinnedHost /\ OpeningInv
  BY DEF Init, PasswordOnlyToPinnedHost, OpeningInv, Unprotected, Resources, Flags
<1>3. ClosingInv
  BY DEF Init, ClosingInv, Calm, Leaks, Resources, Flags
<1> QED
  BY <1>1, <1>2, <1>3 DEF BrokerInv

\* connect: the socket, the transport, the host key and the password.
LEMMA ConnectKeeps ==
    ASSUME BrokerInv,
           \/ Connect \/ ConnectFails \/ Negotiate \/ NegotiateFails
           \/ HostKeyAccepted \/ HostKeyRejected \/ HostKeyCheckRaises
           \/ Authenticate \/ AuthenticateFails \/ ReleaseTransport
           \/ ReleaseSocket
    PROVE  BrokerInv'
<1> USE KeysAssumption, CallsAssumption
        DEF BrokerInv, TypeOK, PasswordOnlyToPinnedHost, OpeningInv, ClosingInv, history, Resources,
            Flags, Calm, Unprotected, Leaks
<1>1. CASE Connect
  BY <1>1 DEF Connect, Acquire
<1>2. CASE ConnectFails
  BY <1>2 DEF ConnectFails
<1>3. CASE Negotiate
  BY <1>3 DEF Negotiate, Acquire
<1>4. CASE NegotiateFails
  BY <1>4 DEF NegotiateFails
<1>5. CASE HostKeyAccepted
  BY <1>5 DEF HostKeyAccepted, verify_pinned_host_key
<1>6. CASE HostKeyRejected
  BY <1>6 DEF HostKeyRejected, Release
<1>7. CASE HostKeyCheckRaises
  BY <1>7 DEF HostKeyCheckRaises, Release
<1>8. CASE Authenticate
  BY <1>8 DEF Authenticate
<1>9. CASE AuthenticateFails
  BY <1>9 DEF AuthenticateFails, Release
<1>10. CASE ReleaseTransport
  BY <1>10 DEF ReleaseTransport, TryClose
<1>11. CASE ReleaseSocket
  BY <1>11 DEF ReleaseSocket, TryClose
<1> QED
  BY <1>1, <1>2, <1>3, <1>4, <1>5, <1>6, <1>7, <1>8, <1>9, <1>10, <1>11

\* InteractiveSshChannel.open and the handler of open_session.
LEMMA ChannelKeeps ==
    ASSUME BrokerInv,
           \/ OpenChannel \/ RequestPty \/ InvokeShell \/ OpenChannelFails
    PROVE  BrokerInv'
<1> USE KeysAssumption, CallsAssumption
        DEF BrokerInv, TypeOK, PasswordOnlyToPinnedHost, OpeningInv, ClosingInv, history, Resources,
            Flags, Calm, Unprotected, Leaks, LiveSession, Closing
<1>1. CASE OpenChannel
  BY <1>1 DEF OpenChannel, Acquire
<1>2. CASE RequestPty
  BY <1>2 DEF RequestPty
<1>3. CASE InvokeShell
  BY <1>3 DEF InvokeShell
<1>4. CASE OpenChannelFails
  <2>1. PICK result \in {"closed", "close_failed"} :
            resource' = [resource EXCEPT !["channel"] = IF @ = "open" THEN result ELSE @]
    BY <1>4 DEF OpenChannelFails, TryClose
  <2>2. TypeOK'
    BY <1>4, <2>1 DEF OpenChannelFails
  <2>3. OpeningInv'
    BY <1>4, <2>1 DEF OpenChannelFails
  <2>4. Closing({"channel"})'
    BY <1>4, <2>1 DEF OpenChannelFails
  <2> QED
    BY <1>4, <2>1, <2>2, <2>3, <2>4 DEF OpenChannelFails
<1> QED
  BY <1>1, <1>2, <1>3, <1>4

\* relay and close on the brokered session.
LEMMA SessionKeeps ==
    ASSUME BrokerInv,
           \/ RelayRefused \/ Relay \/ CloseAgain \/ Close
    PROVE  BrokerInv'
<1> USE KeysAssumption, CallsAssumption
        DEF BrokerInv, TypeOK, PasswordOnlyToPinnedHost, OpeningInv, ClosingInv, history, Resources,
            Flags, Calm, Unprotected, Leaks, LiveSession
<1>1. CASE RelayRefused
  BY <1>1 DEF RelayRefused, Call
<1>2. CASE Relay
  <2>1. CASE flag["channel"]
    <3>1. calls' \in 0..MaxCalls
      BY <1>2 DEF Relay, Call
    <3>2. relays' = relays \cup {"returned"}
      BY <1>2, <2>1 DEF Relay
    <3>3. TypeOK'
      BY <1>2, <2>1, <3>1, <3>2 DEF Relay, Call
    <3> QED
      BY <1>2, <2>1, <3>2, <3>3 DEF Relay, Call
  <2>2. CASE ~ flag["channel"]
    <3>1. PICK result \in {"closed", "close_failed"} :
              resource' = [resource EXCEPT !["channel"] = result]
      BY <1>2, <2>2 DEF Relay, Call, TryClose
    <3>2. resource'["channel"] = result
      BY <3>1
    <3>3. TypeOK'
      <4>1. calls' \in 0..MaxCalls
        BY <1>2 DEF Relay, Call
      <4>2. relays' \subseteq {"returned", "raised"}
        BY <1>2, <2>2 DEF Relay
      <4> QED
        BY <1>2, <3>1, <4>1, <4>2 DEF Relay, Call
    <3>4. relays' # {} /\ (result = "close_failed" => "raised" \in relays')
      BY <1>2, <2>2, <3>2 DEF Relay
    <3> QED
      BY <1>2, <2>2, <3>1, <3>2, <3>3, <3>4 DEF Relay, Call
  <2> QED
    BY <2>1, <2>2
<1>3. CASE CloseAgain
  BY <1>3 DEF CloseAgain, Call
<1>4. CASE Close
  BY <1>4 DEF Close, Call
<1> QED
  BY <1>1, <1>2, <1>3, <1>4

\* The nested try ... finally of the closes.
LEMMA CloseKeeps ==
    ASSUME BrokerInv,
           \/ CloseChannel \/ CloseTransport \/ CloseSocket \/ Unwind
    PROVE  BrokerInv'
<1> USE KeysAssumption, CallsAssumption
        DEF BrokerInv, TypeOK, PasswordOnlyToPinnedHost, OpeningInv, ClosingInv, history, Resources,
            Flags, Calm, Unprotected, Leaks, LiveSession, Closing
<1>1. CASE CloseChannel
  <2>1. CASE flag["channel"]
    <3>1. TypeOK'
      BY <1>1, <2>1 DEF CloseChannel
    <3>2. Closing({"channel"})'
      BY <1>1, <2>1 DEF CloseChannel
    <3> QED
      BY <1>1, <2>1, <3>1, <3>2 DEF CloseChannel
  <2>2. CASE ~ flag["channel"]
    <3>1. PICK result \in {"closed", "close_failed"} :
              resource' = [resource EXCEPT !["channel"] = result]
      BY <1>1, <2>2 DEF CloseChannel, TryThen, TryClose
    <3>2. resource'["channel"] = result
      BY <3>1
    <3>3. TypeOK'
      BY <1>1, <2>2, <3>1 DEF CloseChannel, TryThen
    <3>4. Closing({"channel"})'
      BY <1>1, <2>2, <3>1, <3>2 DEF CloseChannel, TryThen
    <3> QED
      BY <1>1, <2>2, <3>1, <3>3, <3>4 DEF CloseChannel, TryThen
  <2> QED
    BY <2>1, <2>2
<1>2. CASE CloseTransport
  <2>1. PICK result \in {"closed", "close_failed"} :
            resource' = [resource EXCEPT !["transport"] = result]
    BY <1>2 DEF CloseTransport, TryThen, TryClose
  <2>2. resource'["transport"] = result
    BY <2>1
  <2>3. TypeOK'
    BY <1>2, <2>1 DEF CloseTransport, TryThen
  <2>4. Closing({"channel", "transport"})'
    BY <1>2, <2>1, <2>2 DEF CloseTransport, TryThen
  <2> QED
    BY <1>2, <2>1, <2>3, <2>4 DEF CloseTransport, TryThen
<1>3. CASE CloseSocket
  <2>1. PICK result \in {"closed", "close_failed"} :
            resource' = [resource EXCEPT !["socket"] = result]
    BY <1>3 DEF CloseSocket, TryThen, TryClose
  <2>2. resource'["socket"] = result
    BY <2>1
  <2>3. TypeOK'
    BY <1>3, <2>1 DEF CloseSocket, TryThen
  <2>4. Closing(Resources)'
    <3>1. \A r \in Resources \ {"channel"} : resource'[r] # "open" /\ resource'[r] # "none"
      BY <1>3, <2>1, <2>2 DEF CloseSocket
    <3>2. flight' = "none" => flight = "none" /\ result = "closed"
      BY <1>3, <2>1, <2>2 DEF CloseSocket, TryThen
    <3>3. flight' = "exception" => flight = "exception" \/ result = "close_failed"
      BY <1>3, <2>1, <2>2 DEF CloseSocket, TryThen
    <3> QED
      BY <1>3, <2>1, <2>2, <3>1, <3>2, <3>3 DEF CloseSocket, TryThen
  <2> QED
    BY <1>3, <2>1, <2>3, <2>4 DEF CloseSocket, TryThen
<1>4. CASE Unwind
  BY <1>4 DEF Unwind
<1> QED
  BY <1>1, <1>2, <1>3, <1>4

\* KeyboardInterrupt in open_session and in relay.
LEMMA InterruptKeepsSession ==
    ASSUME BrokerInv, InterruptLeaves \/ RelayInterrupted \/ InterruptAtEntry
    PROVE  BrokerInv'
<1> USE CallsAssumption
        DEF BrokerInv, TypeOK, PasswordOnlyToPinnedHost, OpeningInv, ClosingInv, history, Resources,
            Flags, Calm, Unprotected, Leaks, LiveSession
<1>1. CASE InterruptLeaves
  <2>1. TypeOK'
    BY <1>1 DEF InterruptLeaves, TryClose
  <2>2. (sent' \/ resource'["channel"] # "none") => server_key' = PinnedKey
    BY <1>1 DEF InterruptLeaves, TryClose
  <2> QED
    BY <1>1, <2>1, <2>2 DEF InterruptLeaves
<1>2. CASE RelayInterrupted /\ UNCHANGED <<resource, flag>>
  <2>1. TypeOK'
    BY <1>2 DEF RelayInterrupted, Call
  <2> QED
    BY <1>2, <2>1 DEF RelayInterrupted, Call
<1>3. CASE RelayInterrupted /\ ~ UNCHANGED <<resource, flag>>
  <2>1. PICK result \in {"closed", "close_failed"} :
            resource' = [resource EXCEPT !["channel"] = result]
    BY <1>3 DEF RelayInterrupted, Call, TryClose
  <2>2. resource'["channel"] = result
    BY <2>1
  <2>3. flag' = [flag EXCEPT !["channel"] = TRUE] /\ calls' \in 0..MaxCalls
    BY <1>3 DEF RelayInterrupted, Call
  <2>4. TypeOK'
    BY <1>3, <2>1, <2>3 DEF RelayInterrupted, Call
  <2> QED
    BY <1>3, <2>1, <2>2, <2>3, <2>4 DEF RelayInterrupted, Call
<1>4. CASE InterruptAtEntry
  BY <1>4 DEF InterruptAtEntry, Call
<1> QED
  BY <1>1, <1>2, <1>3, <1>4

\* KeyboardInterrupt in the nested try ... finally of the closes.
LEMMA InterruptKeepsClose ==
    ASSUME BrokerInv,
           \/ InterruptSkipsChannel \/ InterruptAbandons
           \/ InterruptUnwinds("channel", "channel", "close_channel", "close_transport")
           \/ InterruptUnwinds("transport", "connection", "close_transport", "close_socket")
           \/ InterruptUnwinds("socket", "connection", "close_socket", "unwind")
    PROVE  BrokerInv'
<1> USE DEF BrokerInv, TypeOK, PasswordOnlyToPinnedHost, OpeningInv, ClosingInv, history, Resources,
            Flags, Calm, Unprotected, Leaks, LiveSession, Closing
<1>1. CASE InterruptSkipsChannel
  BY <1>1 DEF InterruptSkipsChannel
<1>2. CASE InterruptAbandons
  BY <1>2 DEF InterruptAbandons
<1>3. CASE InterruptUnwinds("channel", "channel", "close_channel", "close_transport")
  <2>1. TypeOK'
    BY <1>3 DEF InterruptUnwinds, TryClose
  <2> QED
    BY <1>3, <2>1 DEF InterruptUnwinds, TryClose
<1>4. CASE InterruptUnwinds("transport", "connection", "close_transport", "close_socket")
  <2>1. TypeOK'
    BY <1>4 DEF InterruptUnwinds, TryClose
  <2> QED
    BY <1>4, <2>1 DEF InterruptUnwinds, TryClose
<1>5. CASE InterruptUnwinds("socket", "connection", "close_socket", "unwind")
  <2>1. TypeOK'
    BY <1>5 DEF InterruptUnwinds, TryClose
  <2> QED
    BY <1>5, <2>1 DEF InterruptUnwinds, TryClose
<1> QED
  BY <1>1, <1>2, <1>3, <1>4, <1>5

LEMMA InterruptKeeps ==
    ASSUME BrokerInv, Interrupt
    PROVE  BrokerInv'
BY InterruptKeepsSession, InterruptKeepsClose DEF Interrupt

LEMMA BrokerInvHolds == Spec => []BrokerInv
<1>1. BrokerInv /\ [Next]_vars => BrokerInv'
  <2> SUFFICES ASSUME BrokerInv, [Next]_vars PROVE BrokerInv'
    OBVIOUS
  <2>1. CASE UNCHANGED vars
    BY <2>1 DEF vars, BrokerInv, TypeOK, PasswordOnlyToPinnedHost, OpeningInv, ClosingInv,
       LiveSession, Closing, Leaks
  <2>2. CASE Next
    BY <2>2, ConnectKeeps, ChannelKeeps, SessionKeeps, CloseKeeps, InterruptKeeps DEF Next
  <2> QED
    BY <2>1, <2>2
<1> QED
  BY <1>1, InitBroker, PTL DEF Spec

\* Every variable of the broker keeps its type, the errors open_session
\* raises among them: once the TCP connection exists, only the classes of
\* errors.py reach the caller.
THEOREM BrokerTypeCorrect == Spec => []TypeOK
BY BrokerInvHolds, PTL DEF BrokerInv

(***************************************************************************)
(* The password, and a shell, only ever go to a server that presented the  *)
(* pinned host key to verify_pinned_host_key, for any keys a server may    *)
(* present, and whatever fails or is interrupted.                          *)
(***************************************************************************)
THEOREM PasswordIsSafe == Spec => []PasswordOnlyToPinnedHost
BY BrokerInvHolds, PTL DEF BrokerInv

-----------------------------------------------------------------------------
(***************************************************************************)
(* Refinement of the port.                                                 *)
(***************************************************************************)
Said == [relay |-> Verdict(relays), close |-> Verdict(closes)]

Outcome == IF \A r \in Resources : resource[r] = "closed" THEN "closed" ELSE "tried"

\* What the port shows at each position of open_session and close.
PortView ==
    /\ pc \in Unprotected \cup {"raised"} => Conn = "none"
    /\ pc \in {"session", "close_channel"} /\ ~ (pc = "session" /\ flag["session"]) =>
          Conn = "open"
    /\ pc = "session" /\ flag["session"] => Conn = Outcome
    /\ pc = "interrupted" =>
          Conn = IF Leaks THEN "stranded" ELSE IF flag["session"] THEN Outcome ELSE "none"
    /\ pc \in {"close_transport", "close_socket", "unwind"} =>
          Conn = IF flag["session"] THEN "open" ELSE "none"
    /\ Outcome \in {"closed", "tried"}

LEMMA Shown == BrokerInv => PortView
BY DEF BrokerInv, TypeOK, OpeningInv, ClosingInv, PortView, Conn, Calm, Unprotected, Flags, Outcome

Seen == BrokerInv /\ PortView

\* The port keeps an exception and otherwise the last answer.
LEMMA VerdictGrows ==
    ASSUME NEW S \in SUBSET {"returned", "raised"}, NEW a \in {"returned", "raised"}
    PROVE  /\ Verdict(S \cup {a}) = IF Verdict(S) = "raised" THEN "raised" ELSE a
           /\ (Verdict(S) = "raised") <=> ("raised" \in S)
BY DEF Verdict

LEMMA InitPort == Init => Port!Init
BY DEF Init, Port!Init, Conn, Verdict, Calm, Leaks, Flags, Resources

\* The port does not see the steps of open_session, up to the one that hands
\* the session over.
LEMMA OpeningIsSilent ==
    ASSUME Seen, Seen',
           \/ Connect \/ ConnectFails \/ Negotiate \/ NegotiateFails \/ HostKeyAccepted
           \/ HostKeyRejected \/ HostKeyCheckRaises \/ Authenticate \/ AuthenticateFails
           \/ ReleaseTransport \/ ReleaseSocket \/ OpenChannel \/ RequestPty \/ OpenChannelFails
    PROVE  Conn' = Conn /\ Said' = Said
<1> USE DEF Connect, ConnectFails, Negotiate, NegotiateFails, HostKeyAccepted, HostKeyRejected,
            HostKeyCheckRaises, Authenticate, AuthenticateFails, ReleaseTransport, ReleaseSocket,
            OpenChannel, RequestPty, OpenChannelFails, Release, Acquire, Unprotected
<1>1. Conn = "none"
  BY DEF Seen, PortView
<1>2. Said' = Said
  BY DEF Said, history
<1>3. \/ pc' \in Unprotected \cup {"raised"}
      \/ pc' = "close_transport" /\ ~ flag'["session"]
  BY DEF Seen, BrokerInv, TypeOK, OpeningInv, Flags
<1>4. Conn' = "none"
  BY <1>3 DEF Seen, PortView
<1> QED
  BY <1>1, <1>2, <1>4

\* open_session returns the session.
LEMMA HandingOver == ASSUME Seen, Seen', InvokeShell PROVE Port!Open
<1>1. Conn = "none" /\ Conn' = "open"
  BY DEF Seen, BrokerInv, OpeningInv, PortView, InvokeShell, Unprotected, Flags
<1> QED
  BY <1>1 DEF Port!Open, InvokeShell, history

\* Calls on the brokered session.
LEMMA CallsAreAnswered ==
    ASSUME Seen, Seen', RelayRefused \/ Relay \/ CloseAgain \/ Close
    PROVE  Port!Next \/ (Conn' = Conn /\ Said' = Said)
<1> USE DEF Seen, PortView, Call
<1>1. CASE RelayRefused
  <2>1. Conn = Outcome /\ Conn' = Conn
    BY <1>1 DEF RelayRefused, Outcome
  <2>2. Verdict(relays') = "raised"
    BY <1>1 DEF RelayRefused, Verdict
  <2>3. Port!Relay
    BY <1>1, <2>1, <2>2 DEF RelayRefused, Port!Relay, Port!Says
  <2> QED
    BY <2>3 DEF Port!Next
<1>2. CASE Relay
  <2>1. Conn = "open" /\ Conn' = "open"
    BY <1>2 DEF Relay, BrokerInv, TypeOK, Flags
  <2>2. PICK a \in {"returned", "raised"} : relays' = relays \cup {a}
    BY <1>2 DEF Relay
  <2>3. Verdict(relays') = IF Verdict(relays) = "raised" THEN "raised" ELSE a
    BY <2>2, VerdictGrows DEF BrokerInv, TypeOK
  <2>4. Said' = [Said EXCEPT !["relay"] = IF @ = "raised" THEN @ ELSE a]
    BY <1>2, <2>3 DEF Relay, Said
  <2>5. Port!Relay
    BY <2>1, <2>4 DEF Port!Relay, Port!Says, Said
  <2> QED
    BY <2>5 DEF Port!Next
<1>3. CASE CloseAgain
  <2>1. Conn = Outcome /\ Conn' = Conn
    BY <1>3 DEF CloseAgain, Outcome
  <2>2. Verdict(closes') = IF Verdict(closes) = "raised" THEN "raised" ELSE "returned"
    BY <1>3, VerdictGrows DEF CloseAgain, BrokerInv, TypeOK
  <2>3. Port!CloseAgain
    BY <1>3, <2>1, <2>2 DEF CloseAgain, Port!CloseAgain, Port!Says
  <2> QED
    BY <2>3 DEF Port!Next
<1>4. CASE Close
  BY <1>4 DEF Close, Said, BrokerInv, TypeOK, Flags
<1> QED
  BY <1>1, <1>2, <1>3, <1>4

\* KeyboardInterrupt leaves a close, of the session or by open_session.
LEMMA InterruptedClose ==
    ASSUME Seen, Seen', pc \in {"close_transport", "unwind"}, pc' = "interrupted",
           flag' = flag, Said' = Said
    PROVE  Port!Next \/ (Conn' = Conn /\ Said' = Said)
<1> USE DEF Seen, PortView
<1>1. CASE flag["session"]
  <2>1. Conn = "open" /\ Conn' \in {"closed", "tried", "stranded"}
    BY <1>1
  <2>2. Port!CloseInterrupted
    BY <2>1 DEF Port!CloseInterrupted, Said
  <2> QED
    BY <2>2 DEF Port!Next
<1>2. CASE ~ flag["session"]
  <2>1. Conn = "none" /\ Conn' \in {"none", "stranded"}
    BY <1>2
  <2>2. CASE Conn' = "stranded"
    <3>1. Port!OpenInterrupted
      BY <2>1, <2>2 DEF Port!OpenInterrupted, Said
    <3> QED
      BY <3>1 DEF Port!Next
  <2> QED
    BY <2>1, <2>2
<1> QED
  BY <1>1, <1>2

\* The port sees a close when its last finally block has run.
LEMMA ClosingIsAnswered ==
    ASSUME Seen, Seen', CloseChannel \/ CloseTransport \/ CloseSocket \/ Unwind
    PROVE  Port!Next \/ (Conn' = Conn /\ Said' = Said)
<1> USE DEF Seen, PortView
<1>1. CASE CloseChannel \/ CloseTransport \/ CloseSocket
  <2>1. flag'["session"] = flag["session"] /\ (CloseChannel => flag["session"])
    BY <1>1 DEF BrokerInv, TypeOK, ClosingInv, CloseChannel, CloseTransport, CloseSocket, Flags
  <2>2. Conn' = Conn
    BY <1>1, <2>1 DEF CloseChannel, CloseTransport, CloseSocket, TryThen
  <2> QED
    BY <1>1, <2>2 DEF CloseChannel, CloseTransport, CloseSocket, history, Said
<1>2. CASE Unwind /\ flight = "interrupt"
  BY <1>2, InterruptedClose DEF Unwind, Said
<1>3. CASE Unwind /\ ~ flag["session"] /\ flight # "interrupt"
  <2>1. Conn = "none" /\ error # "none" /\ ~ Leaks
    BY <1>3 DEF Unwind, BrokerInv, ClosingInv, Closing, Leaks, Resources
  <2>2. Conn' = "none"
    BY <1>3, <2>1 DEF Unwind
  <2> QED
    BY <1>3, <2>1, <2>2 DEF Unwind, Said
<1>4. CASE Unwind /\ flag["session"] /\ flight # "interrupt"
  <2>1. Conn = "open" /\ error = "none" /\ closes = {}
    BY <1>4 DEF Unwind, BrokerInv, ClosingInv, Closing
  <2>2. Conn' = Outcome /\ Outcome' = Outcome
    BY <1>4, <2>1 DEF Unwind, Outcome
  <2>4. CASE flight = "exception"
    <3>1. Outcome = "tried"
      BY <1>4, <2>4 DEF Unwind, BrokerInv, ClosingInv, Closing, Outcome
    <3>2. Verdict(closes') = "raised"
      BY <1>4, <2>1, <2>4 DEF Unwind, Verdict
    <3>3. Port!CloseRaises
      BY <1>4, <2>1, <2>2, <3>1, <3>2 DEF Unwind, Port!CloseRaises, Port!Says
    <3> QED
      BY <3>3 DEF Port!Next
  <2>5. CASE flight = "none"
    <3>1. Verdict(relays) = "raised" \/ Outcome = "closed"
      BY <1>4, <2>5 DEF Unwind, BrokerInv, ClosingInv, Closing, Outcome, Verdict, Resources
    <3>2. Verdict(closes) = "none" /\ Verdict(closes') = "returned"
      BY <1>4, <2>1, <2>5 DEF Unwind, Verdict
    <3>3. Port!CloseReturns
      BY <1>4, <2>1, <2>2, <3>1, <3>2 DEF Unwind, Port!CloseReturns, Port!Says
    <3> QED
      BY <3>3 DEF Port!Next
  <2> QED
    BY <1>4, <2>4, <2>5 DEF BrokerInv, TypeOK
<1> QED
  BY <1>1, <1>2, <1>3, <1>4

\* KeyboardInterrupt strands what open_session had not handed over yet, or
\* what a close it ended had not tried.
LEMMA InterruptIsAnswered ==
    ASSUME Seen, Seen', Interrupt
    PROVE  Port!Next \/ (Conn' = Conn /\ Said' = Said)
<1> USE DEF Seen, PortView
<1>1. CASE InterruptLeaves
  <2>1. Conn = "none" /\ ~ flag'["session"] /\ pc' = "interrupted"
    BY <1>1 DEF InterruptLeaves, BrokerInv, OpeningInv, Flags
  <2>2. Said' = Said
    BY <1>1 DEF InterruptLeaves, history, Said
  <2>3. CASE Leaks'
    <3>1. Port!OpenInterrupted
      BY <2>1, <2>2, <2>3 DEF Port!OpenInterrupted, Said
    <3> QED
      BY <3>1 DEF Port!Next
  <2> QED
    BY <2>1, <2>2, <2>3
<1>2. CASE RelayInterrupted
  <2>1. Conn \in {"open", "closed", "tried"} /\ Conn' = Conn
    <3>1. flag["session"] \in BOOLEAN /\ flag'["session"] = flag["session"] /\ pc' = "session"
      BY <1>2 DEF RelayInterrupted, Call, BrokerInv, TypeOK, Flags
    <3>2. flag["session"] => UNCHANGED resource
      BY <1>2 DEF RelayInterrupted
    <3> QED
      BY <1>2, <3>1, <3>2 DEF RelayInterrupted, Call, Outcome
  <2>2. Verdict(relays') = "raised" /\ closes' = closes
    BY <1>2 DEF RelayInterrupted, Verdict
  <2>3. Port!Relay
    BY <2>1, <2>2 DEF Port!Relay, Port!Says
  <2> QED
    BY <2>3 DEF Port!Next
<1>3. CASE InterruptAtEntry
  <2>1. Said' = Said /\ pc = "session" /\ pc' = "interrupted" /\ UNCHANGED <<resource, flag>>
    BY <1>3 DEF InterruptAtEntry, Call, Said
  <2>2. CASE flag["session"]
    BY <2>1, <2>2 DEF BrokerInv, ClosingInv, Leaks, Outcome
  <2>3. CASE ~ flag["session"]
    <3>1. Leaks
      BY <2>1, <2>3 DEF BrokerInv, ClosingInv, LiveSession, Leaks, Resources
    <3>2. Conn = "open" /\ Conn' = "stranded"
      BY <2>1, <2>3, <3>1 DEF Leaks
    <3>3. Port!CloseInterrupted
      BY <2>1, <3>2 DEF Port!CloseInterrupted, Said
    <3> QED
      BY <3>3 DEF Port!Next
  <2> QED
    BY <2>2, <2>3
<1>4. CASE InterruptAbandons
  BY <1>4, InterruptedClose DEF InterruptAbandons, history, Said
<1>5. CASE \/ InterruptSkipsChannel
           \/ InterruptUnwinds("channel", "channel", "close_channel", "close_transport")
           \/ InterruptUnwinds("transport", "connection", "close_transport", "close_socket")
           \/ InterruptUnwinds("socket", "connection", "close_socket", "unwind")
  <2>1. flag'["session"] = flag["session"] /\ (pc = "close_channel" => flag["session"])
    BY <1>5 DEF InterruptSkipsChannel, InterruptUnwinds, BrokerInv, TypeOK, ClosingInv, Flags
  <2> QED
    BY <1>5, <2>1 DEF InterruptSkipsChannel, InterruptUnwinds, history, Said
<1> QED
  BY <1>1, <1>2, <1>3, <1>4, <1>5 DEF Interrupt

LEMMA StepPort ==
    Seen /\ Seen' /\ [Next]_vars => [Port!Next]_<<Conn, Said>>
<1> SUFFICES ASSUME Seen, Seen', [Next]_vars
             PROVE  Port!Next \/ (Conn' = Conn /\ Said' = Said)
  OBVIOUS
<1>1. CASE UNCHANGED vars
  BY <1>1 DEF vars, Conn, Said, Leaks
<1>2. CASE InvokeShell
  BY <1>2, HandingOver DEF Port!Next
<1> QED
  BY <1>1, <1>2, OpeningIsSilent, CallsAreAnswered, ClosingIsAnswered, InterruptIsAnswered DEF Next

(***************************************************************************)
(* open_session, relay and close on paramiko, every call of which may      *)
(* raise or be interrupted, keep what the port promises AccessService: no  *)
(* error forgets a resource, a close that returned or raised has tried all *)
(* three, and calls that only returned mean that all three are closed.     *)
(* Only where KeyboardInterrupt ends open_session or close may a resource  *)
(* stay untried.                                                           *)
(***************************************************************************)
THEOREM SshImplementsPort == Spec => ImplementsBroker
<1>1. Spec => []Seen
  BY BrokerInvHolds, Shown, PTL DEF Seen
<1>2. Spec => [][Port!Next]_<<Conn, Said>>
  BY <1>1, StepPort, PTL DEF Spec
<1> QED
  BY <1>2, InitPort, PTL DEF Spec, ImplementsBroker, Port!Spec, Said

=============================================================================
