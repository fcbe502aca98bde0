----------------------------- MODULE AccessBroker -----------------------------
(***************************************************************************)
(* AccessService as the caller of the session broker: its view of the      *)
(* connection is the one BrokerPort gives it, and it makes only calls the  *)
(* port answers as it expects.  SshBroker implements the same port.        *)
(***************************************************************************)
EXTENDS AccessService

\* The connection of a process, in the terms of the port.
Conn(p) == IF broker[p] = "close_failed" THEN "tried" ELSE broker[p]

Said(p) ==
    [relay |-> CASE relayed[p] = "none" -> "none"
                 [] relayed[p] \in {"failed", "interrupted"} -> "raised"
                 [] OTHER -> "returned",
     close |-> CASE broker[p] = "closed" -> "returned"
                 [] broker[p] = "close_failed" -> "raised"
                 [] OTHER -> "none"]

Port(p) == INSTANCE BrokerPort WITH conn <- Conn(p), said <- Said(p)

\* What handle calls, out of what the port offers: no relay that is not the
\* first on an open connection, and no second close.
Calls(p) ==
    \/ Port(p)!Open \/ Port(p)!OpenInterrupted
    \/ Conn(p) = "open" /\ Said(p).relay = "none" /\ Port(p)!Relay
    \/ Port(p)!CloseReturns \/ Port(p)!CloseRaises \/ Port(p)!CloseInterrupted
    \/ Port(p)!Vanish

CallsInOrder(p) ==
    /\ pc[p] = "open" => Conn(p) = "none"
    /\ pc[p] = "relay" => Conn(p) = "open" /\ Said(p).relay = "none"
    /\ pc[p] = "close" => Conn(p) = "open" /\ Said(p).close = "none"
    /\ pc[p] \in {"returned", "raised"} => Conn(p) \notin {"open", "stranded"}

(***************************************************************************)
(* Every process calls its broker as follows, whatever fails or is         *)
(* interrupted in between: open_session once; relay at most once, on the   *)
(* connection it opened; close on that connection, once, and nothing after *)
(* it; and no return or exception before the close of what was opened.     *)
(***************************************************************************)
UsesBroker ==
    /\ \A p \in Procs : Port(p)!Init
    /\ [](\A p \in Procs : CallsInOrder(p))
    /\ [][\A p \in Procs : Calls(p) \/ UNCHANGED <<Conn(p), Said(p)>>]_vars

=============================================================================
