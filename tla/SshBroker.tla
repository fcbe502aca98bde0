------------------------------ MODULE SshBroker ------------------------------
(***************************************************************************)
(* ParamikoSessionBroker.open_session and the brokered session it returns  *)
(* (src/infrastructure/ssh/paramiko_session_broker.py,                     *)
(* paramiko_connection.py, interactive_channel.py, host_key.py).           *)
(*                                                                         *)
(* Three resources are acquired one after the other, the TCP socket, the   *)
(* SSH transport and the session channel, and have to be given back on     *)
(* every way out.  Every call may raise, the closes included.              *)
(* KeyboardInterrupt may arrive at every step, also at the entry of a      *)
(* method, before its first statement; the handlers name Exception, so     *)
(* only the finally blocks see it, and nobody calls a session again whose  *)
(* close it ended.  What the caller sees of all this is BrokerPort.        *)
(***************************************************************************)
EXTENDS Naturals

CONSTANTS
    Keys,       \* host keys a server may present
    PinnedKey,  \* the key of target.expected_host_key
    NoKey,      \* before the server presented one
    MaxCalls    \* bound: calls of relay and close on one brokered session

ASSUME KeysAssumption == PinnedKey \in Keys /\ NoKey \notin Keys
ASSUME CallsAssumption == MaxCalls \in Nat

VARIABLES
    pc,         \* position in open_session or in the brokered session
    resource,   \* state of the socket, the transport and the channel
    server_key, \* what get_remote_server_key returned
    sent,       \* the password has gone to the server
    error,      \* what open_session will raise
    flag,       \* the _closed flags of channel, connection and session
    flight,     \* what propagates through the finally blocks of a close
    calls,      \* calls made on the brokered session
    relays,     \* history: how the calls of relay ended
    closes      \* history: how the calls of close ended

vars == <<pc, resource, server_key, sent, error, flag, flight, calls, relays, closes>>

Resources == {"socket", "transport", "channel"}
Flags == {"channel", "connection", "session"}

Init ==
    /\ pc = "connect"
    /\ resource = [r \in Resources |-> "none"]
    /\ server_key = NoKey
    /\ sent = FALSE
    /\ error = "none"
    /\ flag = [f \in Flags |-> FALSE]
    /\ flight = "none"
    /\ calls = 0
    /\ relays = {}
    /\ closes = {}

history == <<calls, relays, closes>>

Acquire(r, next) ==
    /\ resource' = [resource EXCEPT ![r] = "open"]
    /\ pc' = next

\* A close that is called, and fails or is abandoned when it does not succeed;
\* paramiko and the socket accept a repeated close.
TryClose(r) ==
    \E result \in {"closed", "close_failed"} :
        resource' = [resource EXCEPT ![r] = IF @ = "open" THEN result ELSE @]

-----------------------------------------------------------------------------
(***************************************************************************)
(* ParamikoSshConnector.connect.                                           *)
(***************************************************************************)
Connect ==
    /\ pc = "connect"
    /\ Acquire("socket", "negotiate")
    /\ UNCHANGED <<server_key, sent, error, flag, flight, history>>

\* Only an OSError becomes a SshConnectionError.
ConnectFails ==
    /\ pc = "connect"
    /\ error' \in {"SshConnectionError", "other"}
    /\ pc' = "raised"
    /\ UNCHANGED <<resource, server_key, sent, flag, flight, history>>

\* Transport, start_client and get_remote_server_key.
Negotiate ==
    /\ pc = "negotiate"
    /\ Acquire("transport", "verify")
    /\ \E k \in Keys : server_key' = k
    /\ UNCHANGED <<sent, error, flag, flight, history>>

\* The constructor of Transport may have raised, or a later call.
NegotiateFails ==
    /\ pc = "negotiate"
    /\ \E state \in {"none", "open"} : resource' = [resource EXCEPT !["transport"] = state]
    /\ error' = "SshConnectionError"
    /\ pc' = "release_transport"
    /\ UNCHANGED <<server_key, sent, flag, flight, history>>

\* An except clause of connect: _close_resources, then the error is raised.
Release(e) ==
    /\ error' = e
    /\ pc' = "release_transport"
    /\ UNCHANGED <<resource, server_key, flag, flight, history>>

\* Variant: any key is trusted on first use.
verify_pinned_host_key_FirstUse(key) == key # NoKey

verify_pinned_host_key(key) == key = PinnedKey

HostKeyAccepted ==
    /\ pc = "verify"
    /\ verify_pinned_host_key(server_key)
    /\ pc' = "authenticate"
    /\ UNCHANGED <<resource, server_key, sent, error, flag, flight, history>>

HostKeyRejected ==
    /\ pc = "verify"
    /\ ~ verify_pinned_host_key(server_key)
    /\ Release("HostKeyMismatchError")
    /\ UNCHANGED sent

HostKeyCheckRaises ==
    /\ pc = "verify"
    /\ Release("SshConnectionError")
    /\ UNCHANGED sent

\* auth_password accepted, and is_authenticated.
Authenticate ==
    /\ pc = "authenticate"
    /\ sent' = TRUE
    /\ pc' = "open_channel"
    /\ UNCHANGED <<resource, server_key, error, flag, flight, history>>

\* Variant: the decoding error escapes as it is.
AuthenticateFails_Raw ==
    /\ pc = "authenticate"
    /\ sent' \in BOOLEAN
    /\ Release("UnicodeDecodeError")

\* The credential is not UTF-8, or the server refuses it, or the call raises.
AuthenticateFails ==
    /\ pc = "authenticate"
    /\ sent' \in BOOLEAN
    /\ Release("SshAuthenticationError")

\* _close_resources: both closes are attempted and their exceptions swallowed.
ReleaseTransport ==
    /\ pc = "release_transport"
    /\ TryClose("transport")
    /\ pc' = "release_socket"
    /\ UNCHANGED <<server_key, sent, error, flag, flight, history>>

ReleaseSocket ==
    /\ pc = "release_socket"
    /\ TryClose("socket")
    /\ pc' = "raised"
    /\ UNCHANGED <<server_key, sent, error, flag, flight, history>>

-----------------------------------------------------------------------------
(***************************************************************************)
(* InteractiveSshChannel.open under the handler of open_session.           *)
(***************************************************************************)
OpenChannel ==
    /\ pc = "open_channel"
    /\ Acquire("channel", "pty")
    /\ UNCHANGED <<server_key, sent, error, flag, flight, history>>

RequestPty ==
    /\ pc = "pty"
    /\ pc' = "shell"
    /\ UNCHANGED <<resource, server_key, sent, error, flag, flight, history>>

InvokeShell ==
    /\ pc = "shell"
    /\ pc' = "session"
    /\ UNCHANGED <<resource, server_key, sent, error, flag, flight, history>>

\* _close_partial_channel, then connection.close by open_session.
OpenChannelFails ==
    /\ pc \in {"open_channel", "pty", "shell"}
    /\ TryClose("channel")
    /\ error' = "SshChannelError"
    /\ pc' = "close_transport"
    /\ UNCHANGED <<server_key, sent, flag, flight, history>>

-----------------------------------------------------------------------------
(***************************************************************************)
(* ParamikoBrokeredSession.                                                *)
(***************************************************************************)
Call ==
    /\ pc = "session"
    /\ calls < MaxCalls
    /\ calls' = calls + 1

\* relay on a closed session; otherwise relay_terminal (module TerminalRelay):
\* at once on a channel already closed, and with channel.close in its finally
\* block, where a failing close replaces the outcome.
RelayRefused ==
    /\ Call
    /\ flag["session"]
    /\ relays' = relays \cup {"raised"}
    /\ UNCHANGED <<pc, resource, server_key, sent, error, flag, flight, closes>>

Relay ==
    /\ Call
    /\ ~ flag["session"]
    /\ flag' = [flag EXCEPT !["channel"] = TRUE]
    /\ IF flag["channel"]
         THEN UNCHANGED resource /\ relays' = relays \cup {"returned"}
         ELSE /\ TryClose("channel")
              /\ \/ relays' = relays \cup {"raised"}
                 \/ resource'["channel"] = "closed" /\ relays' = relays \cup {"returned"}
    /\ UNCHANGED <<pc, server_key, sent, error, flight, closes>>

CloseAgain ==
    /\ Call
    /\ flag["session"]
    /\ closes' = closes \cup {"returned"}
    /\ UNCHANGED <<pc, resource, server_key, sent, error, flag, flight, relays>>

Close ==
    /\ Call
    /\ ~ flag["session"]
    /\ flag' = [flag EXCEPT !["session"] = TRUE]
    /\ pc' = "close_channel"
    /\ UNCHANGED <<resource, server_key, sent, error, flight, relays, closes>>

\* A close inside try ... finally: an exception is kept and the next runs.
TryThen(r, next) ==
    /\ TryClose(r)
    /\ flight' = IF resource[r] = "open" /\ resource'[r] = "close_failed" /\ flight = "none"
                   THEN "exception" ELSE flight
    /\ pc' = next

\* Variant: no finally, so that a failing channel close ends the call.
CloseChannel_NoFinally ==
    /\ pc = "close_channel"
    /\ IF flag["channel"]
         THEN pc' = "close_transport" /\ UNCHANGED <<resource, flight>>
         ELSE \/ TryThen("channel", "close_transport") /\ flight' = "none"
              \/ TryThen("channel", "unwind") /\ flight' = "exception"
    /\ flag' = [flag EXCEPT !["channel"] = TRUE]
    /\ UNCHANGED <<server_key, sent, error, history>>

CloseChannel ==
    /\ pc = "close_channel"
    /\ IF flag["channel"]
         THEN pc' = "close_transport" /\ UNCHANGED <<resource, flight>>
         ELSE TryThen("channel", "close_transport")
    /\ flag' = [flag EXCEPT !["channel"] = TRUE]
    /\ UNCHANGED <<server_key, sent, error, history>>

CloseTransport ==
    /\ pc = "close_transport"
    /\ TryThen("transport", "close_socket")
    /\ flag' = [flag EXCEPT !["connection"] = TRUE]
    /\ UNCHANGED <<server_key, sent, error, history>>

CloseSocket ==
    /\ pc = "close_socket"
    /\ TryThen("socket", "unwind")
    /\ UNCHANGED <<server_key, sent, error, flag, history>>

\* open_session swallows an Exception of connection.close and raises its own
\* error; close lets it through.
Unwind ==
    /\ pc = "unwind"
    /\ pc' = IF flight = "interrupt" THEN "interrupted"
             ELSE IF error # "none" THEN "raised" ELSE "session"
    /\ closes' = IF error # "none" \/ flight = "interrupt" THEN closes
                 ELSE closes \cup {IF flight = "none" THEN "returned" ELSE "raised"}
    /\ flight' = "none"
    /\ UNCHANGED <<resource, server_key, sent, error, flag, calls, relays>>

-----------------------------------------------------------------------------
(***************************************************************************)
(* KeyboardInterrupt.                                                      *)
(***************************************************************************)
Unprotected == {"connect", "negotiate", "verify", "authenticate", "release_transport",
                "release_socket", "open_channel", "pty", "shell"}

\* Outside every try ... finally: whatever was acquired is left behind, the
\* resource just being acquired included.  _close_resources and
\* _close_partial_channel may have been at work.
InterruptLeaves ==
    /\ pc \in Unprotected
    /\ \/ UNCHANGED resource
       \/ pc = "connect" /\ resource' = [resource EXCEPT !["socket"] = "open"]
       \/ pc = "negotiate" /\ resource' = [resource EXCEPT !["transport"] = "open"]
       \/ pc = "open_channel" /\ resource' = [resource EXCEPT !["channel"] = "open"]
       \/ pc = "release_transport" /\ TryClose("transport")
       \/ pc = "release_socket" /\ TryClose("socket")
       \/ pc \in {"pty", "shell"} /\ TryClose("channel")
    /\ sent' \in IF pc = "authenticate" THEN BOOLEAN ELSE {sent}
    /\ pc' = "interrupted"
    /\ UNCHANGED <<server_key, error, flag, flight, history>>

\* In relay: at its entry or at the entry of channel.close in its finally
\* block nothing has happened, later the channel is flagged closed.  The
\* caller still closes the session.
RelayInterrupted ==
    /\ Call
    /\ \/ UNCHANGED <<resource, flag>>
       \/ /\ ~ flag["session"] /\ ~ flag["channel"]
          /\ TryClose("channel")
          /\ flag' = [flag EXCEPT !["channel"] = TRUE]
    /\ relays' = relays \cup {"raised"}
    /\ UNCHANGED <<pc, server_key, sent, error, flight, closes>>

\* At the entry of the session's close, outside its try.
InterruptAtEntry ==
    /\ Call
    /\ pc' = "interrupted"
    /\ UNCHANGED <<resource, server_key, sent, error, flag, flight, relays, closes>>

\* At the entry of the connection's close, or after its finally block: what
\* has not been tried by then is left behind.
InterruptAbandons ==
    /\ pc \in {"close_transport", "unwind"}
    /\ pc' = "interrupted"
    /\ flight' = "none"
    /\ UNCHANGED <<resource, server_key, sent, error, flag, history>>

\* Inside the try: the close of r is abandoned, the finally block still runs.
InterruptUnwinds(r, f, here, next) ==
    /\ pc = here
    /\ TryClose(r)
    /\ flag' = [flag EXCEPT ![f] = TRUE]
    /\ flight' = "interrupt"
    /\ pc' = next
    /\ UNCHANGED <<server_key, sent, error, history>>

\* Inside the try as well, at the entry of the channel's close.
InterruptSkipsChannel ==
    /\ pc = "close_channel"
    /\ flight' = "interrupt"
    /\ pc' = "close_transport"
    /\ UNCHANGED <<resource, server_key, sent, error, flag, history>>

Interrupt ==
    \/ InterruptLeaves
    \/ RelayInterrupted
    \/ InterruptAtEntry
    \/ InterruptSkipsChannel
    \/ InterruptUnwinds("channel", "channel", "close_channel", "close_transport")
    \/ InterruptAbandons
    \/ InterruptUnwinds("transport", "connection", "close_transport", "close_socket")
    \/ InterruptUnwinds("socket", "connection", "close_socket", "unwind")

Next ==
    \/ Connect \/ ConnectFails
    \/ Negotiate \/ NegotiateFails
    \/ HostKeyAccepted \/ HostKeyRejected \/ HostKeyCheckRaises
    \/ Authenticate \/ AuthenticateFails
    \/ ReleaseTransport \/ ReleaseSocket
    \/ OpenChannel \/ RequestPty \/ InvokeShell \/ OpenChannelFails
    \/ RelayRefused \/ Relay
    \/ CloseAgain \/ Close
    \/ CloseChannel \/ CloseTransport \/ CloseSocket \/ Unwind
    \/ Interrupt

Spec == Init /\ [][Next]_vars

-----------------------------------------------------------------------------
Calm == {"session", "raised", "interrupted"}

\* Every variable has its type.
TypeOK ==
    /\ pc \in Calm \cup Unprotected
                \cup {"close_channel", "close_transport", "close_socket", "unwind"}
    /\ resource \in [Resources -> {"none", "open", "closed", "close_failed"}]
    /\ server_key \in Keys \cup {NoKey}
    /\ sent \in BOOLEAN
    /\ error \in {"none", "SshConnectionError", "HostKeyMismatchError",
                  "SshAuthenticationError", "SshChannelError", "other"}
    /\ flag \in [Flags -> BOOLEAN]
    /\ flight \in {"none", "exception", "interrupt"}
    /\ calls \in 0..MaxCalls
    /\ relays \subseteq {"returned", "raised"} /\ closes \subseteq {"returned", "raised"}

(***************************************************************************)
(* The password goes only to a server that proved the pinned host key, and *)
(* a shell exists only on such a server.                                   *)
(***************************************************************************)
PasswordOnlyToPinnedHost ==
    sent \/ resource["channel"] # "none" => server_key = PinnedKey

\* What the caller of the port sees.  A resource that is open, its close
\* never tried, when nobody holds it any more is a leak.  The port knows leaks
\* of KeyboardInterrupt only, and has no value for any other.
Leaks == \E r \in Resources : resource[r] = "open"

Conn ==
    IF pc = "interrupted" /\ Leaks THEN "stranded"
    ELSE IF pc \in Calm /\ flag["session"]
      THEN IF Leaks THEN "leaked"
           ELSE IF \A r \in Resources : resource[r] = "closed" THEN "closed" ELSE "tried"
    ELSE IF pc = "session" \/ flag["session"] THEN "open"
    ELSE IF pc \in Calm /\ Leaks THEN "leaked"
    ELSE "none"

Verdict(answers) ==
    IF "raised" \in answers THEN "raised"
    ELSE IF answers = {} THEN "none" ELSE "returned"

Port == INSTANCE BrokerPort
            WITH conn <- Conn, said <- [relay |-> Verdict(relays), close |-> Verdict(closes)]

(***************************************************************************)
(* The broker keeps what the port promises AccessService: whichever step   *)
(* of open_session failed, and whatever its cleanup ran into, no resource  *)
(* is forgotten; a close that returned or raised has tried all three, also *)
(* after a relay that KeyboardInterrupt ended; and when relay and close    *)
(* raised nothing, which AccessService records as SESSION_CLOSED, all      *)
(* three are closed, although relay closes the channel first and close     *)
(* skips what is flagged closed.  A resource whose close was never tried   *)
(* is left behind only where KeyboardInterrupt ended open_session or close *)
(* itself.                                                                 *)
(***************************************************************************)
ImplementsBroker == Port!Spec

=============================================================================
