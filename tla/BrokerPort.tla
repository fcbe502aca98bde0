------------------------------ MODULE BrokerPort ------------------------------
(***************************************************************************)
(* What the ports SessionBroker and BrokeredSession                        *)
(* (src/ports/session_broker.py) promise a caller, as AccessService relies *)
(* on it: an open_session that raises an error leaves nothing behind, a    *)
(* close that returned or raised an error has tried everything, and calls  *)
(* that all returned mean that the connection really is closed.            *)
(* KeyboardInterrupt is promised less: inside open_session, or inside or   *)
(* at the entry of close, it may strand a connection that nobody closes.   *)
(* A killed process drops what it had open.                                *)
(***************************************************************************)
VARIABLES
    conn,   \* the connection to the target
    said    \* how the calls of relay and of close have ended; an exception,
            \* KeyboardInterrupt out of relay included, stays

Connections == {"none", "open", "closed", "tried", "stranded", "dropped"}
Answers == {"none", "returned", "raised"}

Init ==
    /\ conn = "none"
    /\ said = [relay |-> "none", close |-> "none"]

Says(call, answer) ==
    said' = [said EXCEPT ![call] = IF @ = "raised" THEN @ ELSE answer]

Open ==
    /\ conn = "none"
    /\ conn' = "open"
    /\ UNCHANGED said

OpenInterrupted ==
    /\ conn = "none"
    /\ conn' = "stranded"
    /\ UNCHANGED said

\* On a session already closed relay raises.
Relay ==
    /\ conn \in {"open", "closed", "tried"}
    /\ \E answer \in IF conn = "open" THEN {"returned", "raised"} ELSE {"raised"} :
          Says("relay", answer)
    /\ UNCHANGED conn

\* "closed" is the whole connection; a close that failed has been tried.
CloseReturns ==
    /\ conn = "open"
    /\ conn' \in IF said.relay = "raised" THEN {"closed", "tried"} ELSE {"closed"}
    /\ Says("close", "returned")

CloseRaises ==
    /\ conn = "open"
    /\ conn' = "tried"
    /\ Says("close", "raised")

CloseInterrupted ==
    /\ conn = "open"
    /\ conn' \in {"closed", "tried", "stranded"}
    /\ UNCHANGED said

CloseAgain ==
    /\ conn \in {"closed", "tried"}
    /\ Says("close", "returned")
    /\ UNCHANGED conn

Vanish ==
    /\ conn = "open"
    /\ conn' = "dropped"
    /\ UNCHANGED said

Next ==
    \/ Open \/ OpenInterrupted
    \/ Relay
    \/ CloseReturns \/ CloseRaises \/ CloseInterrupted \/ CloseAgain
    \/ Vanish

Spec == Init /\ [][Next]_<<conn, said>>

=============================================================================
