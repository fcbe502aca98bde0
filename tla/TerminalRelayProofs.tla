------------------------ MODULE TerminalRelayProofs ------------------------
(***************************************************************************)
(* What relay_terminal keeps true for any maximum duration, any amount of  *)
(* traffic in both directions, and peers that stall, end or close their    *)
(* side at any moment.                                                     *)
(***************************************************************************)
EXTENDS TerminalRelay, TLAPS

Running == {"start", "loop", "select", "check", "receive", "write", "read", "send"}

\* The state is well formed.
RelayShape ==
    /\ pc \in Running \cup {"finally", "done"}
    /\ now \in Nat
    /\ readable \subseteq Sides /\ ended \subseteq Sides
    /\ outcome \in {"none", "completed", "max_duration_exceeded", "raised"}
    /\ chan \in {"open", "closed"}
    /\ closing \in BOOLEAN
    /\ offered \in [Sides -> Nat] /\ taken \in [Sides -> Nat]
    /\ given \in [Sides -> Nat] /\ late \in [Sides -> Nat]

\* The deadline is set once, an outcome means the loop was left, and only the
\* finally block closes the channel.
ClockInv ==
    /\ IF pc = "start" THEN now = 0 ELSE deadline = MaxDuration
    /\ pc \in Running <=> outcome = "none"
    /\ closing => pc = "done"

\* The chunk in hand: taken and not yet given.
HandInv ==
    /\ pc \in Running =>
          /\ taken["target"] = given["target"] + (IF pc = "write" THEN 1 ELSE 0)
          /\ taken["user"] = given["user"] + (IF pc = "send" THEN 1 ELSE 0)
    /\ NothingInHandIsLost

\* Traffic past the deadline belongs to the round that was under way.
LateInv ==
    /\ \A s \in Sides : late[s] > 0 => now >= MaxDuration
    /\ pc \in {"start", "select", "check", "receive", "write"} => \A s \in Sides : late[s] = 0
    /\ pc \in {"read", "send"} => late["user"] = 0
    /\ LateTrafficIsBounded

RelayInv == RelayShape /\ ClockInv /\ HandInv /\ LateInv /\ OutcomeIsTrue

-----------------------------------------------------------------------------
LEMMA InitRelay == Init => RelayInv
<1> SUFFICES ASSUME Init PROVE RelayInv
  OBVIOUS
<1>1. RelayShape
  BY DEF Init, RelayShape, Running
<1>2. ClockInv /\ HandInv /\ LateInv /\ OutcomeIsTrue
  BY DEF Init, ClockInv, HandInv, LateInv, NothingInHandIsLost, LateTrafficIsBounded, OutcomeIsTrue,
     Running, Sides
<1> QED
  BY <1>1, <1>2 DEF RelayInv

\* The environment moves the clock forward and only adds to what it offered
\* and ended; a side that ended offers nothing more.
LEMMA EnvironmentKeeps ==
    ASSUME RelayInv, Environment
    PROVE  RelayInv'
<1> USE DEF RelayInv
<1>1. UNCHANGED <<pc, deadline, readable, outcome, closing, taken, given, late>>
  BY DEF Environment, Tick, CloseByTarget, Offer, EndInput, Stall, Drain, relayVars
<1>2. /\ now' \in Nat /\ now' >= now /\ (pc = "start" => now' = now)
      /\ chan' \in {"open", "closed"} /\ (chan = "closed" => chan' = "closed")
      /\ ended' \subseteq Sides /\ ended \subseteq ended'
      /\ offered' \in [Sides -> Nat]
      /\ \A s \in ended : offered'[s] = offered[s]
  <2>1. CASE Tick
    BY <2>1 DEF Tick, env, RelayShape
  <2>2. CASE CloseByTarget
    BY <2>2 DEF CloseByTarget, relayVars, RelayShape, Sides
  <2>3. ASSUME NEW s \in Sides, Offer(s)
        PROVE  /\ UNCHANGED <<now, chan, ended>> /\ offered' \in [Sides -> Nat]
               /\ \A t \in ended : offered'[t] = offered[t]
    BY <2>3 DEF Offer, RelayShape
  <2>4. ASSUME NEW s \in Sides, EndInput(s) \/ Stall(s) \/ Drain(s)
        PROVE  /\ UNCHANGED <<now, chan, offered>>
               /\ ended' \subseteq Sides /\ ended \subseteq ended'
    BY <2>4 DEF EndInput, Stall, Drain, RelayShape
  <2> QED
    BY <2>1, <2>2, <2>3, <2>4 DEF Environment, RelayShape
<1>3. RelayShape' /\ ClockInv' /\ HandInv'
  BY <1>1, <1>2 DEF RelayShape, ClockInv, HandInv, NothingInHandIsLost
<1>4. LateInv'
  BY <1>1, <1>2, DurationAssumption DEF RelayShape, LateInv, LateTrafficIsBounded
<1>5. OutcomeIsTrue'
  BY <1>1, <1>2, DurationAssumption DEF RelayShape, OutcomeIsTrue
<1> QED
  BY <1>3, <1>4, <1>5

-----------------------------------------------------------------------------
(***************************************************************************)
(* The relay.                                                              *)
(***************************************************************************)

\* Leaving the loop with a true outcome and nothing in hand, or by raising.
LEMMA LeaveKeeps ==
    ASSUME RelayInv, NEW result, Leave(result),
           \/ pc \in Running \ {"start"} /\ result = "raised"
           \/ /\ pc \in {"loop", "check", "receive", "read"}
              /\ \/ result = "completed" /\ chan = "closed"
                 \/ result = "completed" /\ "user" \in ended
                 \/ /\ result = "completed" /\ pc = "receive" /\ "target" \in ended
                    /\ taken["target"] = offered["target"]
                 \/ result = "max_duration_exceeded" /\ now >= deadline
    PROVE  RelayInv'
<1> USE DEF RelayInv
<1>1. result \in {"completed", "max_duration_exceeded", "raised"}
  OBVIOUS
<1>2. RelayShape' /\ ClockInv'
  BY <1>1 DEF RelayShape, ClockInv, Leave, env, Running
<1>3. HandInv'
  <2>1. CASE result = "raised"
    BY <2>1 DEF HandInv, NothingInHandIsLost, Leave, Running
  <2>2. CASE result # "raised"
    <3>1. taken["target"] = given["target"] /\ taken["user"] = given["user"]
      BY <2>2 DEF HandInv, RelayShape, Running, Sides
    <3>2. given = taken
      BY <3>1 DEF RelayShape, Sides
    <3> QED
      BY <2>2, <3>2 DEF HandInv, NothingInHandIsLost, Leave, Running
  <2> QED
    BY <2>1, <2>2
<1>4. LateInv'
  BY DEF LateInv, LateTrafficIsBounded, Leave, env
<1>5. OutcomeIsTrue'
  <2>1. pc # "start" /\ deadline = MaxDuration
    BY DEF ClockInv, Running
  <2>2. pc = "receive" => given["target"] = taken["target"]
    BY DEF HandInv, RelayShape, Running, Sides
  <2> QED
    BY <2>1, <2>2 DEF OutcomeIsTrue, Leave, env
<1> QED
  BY <1>2, <1>3, <1>4, <1>5

\* Moving on without a chunk: to a position that is not yet past the deadline.
LEMMA MovingKeeps ==
    ASSUME RelayInv, Start \/ LoopSelects \/ SelectReturns \/ SelectReturnsEarly \/ CheckPasses
    PROVE  RelayInv'
<1> USE DEF RelayInv, Goto, env
<1>1. RelayShape'
  BY DEF RelayShape, Running, Start, LoopSelects, SelectReturns, SelectReturnsEarly, CheckPasses
<1>2. ClockInv'
  BY DurationAssumption
     DEF ClockInv, RelayShape, Running, Start, LoopSelects, SelectReturns, SelectReturnsEarly,
         CheckPasses
<1>3. HandInv' /\ OutcomeIsTrue'
  BY DEF HandInv, NothingInHandIsLost, OutcomeIsTrue, RelayShape, Running, Start, LoopSelects,
     SelectReturns, SelectReturnsEarly, CheckPasses
<1>4. LateInv'
  <2>1. CASE LoopSelects
    <3>1. deadline = MaxDuration /\ now < MaxDuration
      BY <2>1 DEF LoopSelects, ClockInv
    <3>2. \A s \in Sides : late[s] = 0
      BY <3>1, DurationAssumption DEF LateInv, RelayShape
    <3> QED
      BY <2>1, <3>2 DEF LoopSelects, LateInv, LateTrafficIsBounded
  <2> QED
    BY <2>1 DEF LateInv, LateTrafficIsBounded, Start, SelectReturns, SelectReturnsEarly,
                CheckPasses, Sides
<1> QED
  BY <1>1, <1>2, <1>3, <1>4

\* Taking a chunk into the hand.
LEMMA TakeKeeps ==
    ASSUME RelayInv, Receive \/ ReadInput
    PROVE  RelayInv'
<1> USE DEF RelayInv, Receive, ReadInput, Take, Goto, env
<1>1. RelayShape'
  <2>1. taken' \in [Sides -> Nat]
    BY DEF RelayShape
  <2> QED
    BY <2>1 DEF RelayShape, Running
<1>2. ClockInv' /\ OutcomeIsTrue'
  BY DEF ClockInv, OutcomeIsTrue, Running
<1>3. HandInv'
  BY DEF HandInv, NothingInHandIsLost, RelayShape, ClockInv, Running, Sides
<1>4. LateInv'
  BY DEF LateInv, LateTrafficIsBounded, Sides
<1> QED
  BY <1>1, <1>2, <1>3, <1>4

\* Giving it, possibly past the deadline.
LEMMA GiveKeeps ==
    ASSUME RelayInv, Write \/ Send
    PROVE  RelayInv'
<1> USE DEF RelayInv, Write, Send, Give, env
<1>1. RelayShape'
  <2>1. given' \in [Sides -> Nat] /\ late' \in [Sides -> Nat]
    BY DEF RelayShape
  <2> QED
    BY <2>1 DEF RelayShape, Running
<1>2. ClockInv' /\ OutcomeIsTrue'
  BY DEF ClockInv, OutcomeIsTrue, Running
<1>3. HandInv'
  BY DEF HandInv, NothingInHandIsLost, RelayShape, ClockInv, Running, Sides
<1>4. LateInv'
  BY DurationAssumption DEF LateInv, LateTrafficIsBounded, RelayShape, Sides
<1> QED
  BY <1>1, <1>2, <1>3, <1>4

LEMMA FinallyKeeps ==
    ASSUME RelayInv, Finally
    PROVE  RelayInv'
<1> USE DEF RelayInv, Finally, env
<1>1. RelayShape' /\ ClockInv'
  BY DEF RelayShape, ClockInv, Running
<1>2. HandInv' /\ LateInv' /\ OutcomeIsTrue'
  BY DEF HandInv, LateInv, OutcomeIsTrue, NothingInHandIsLost, LateTrafficIsBounded, Running
<1> QED
  BY <1>1, <1>2

LEMMA RelayInvHolds == Spec => []RelayInv
<1>1. RelayInv /\ [Next]_vars => RelayInv'
  <2> SUFFICES ASSUME RelayInv, [Next]_vars PROVE RelayInv'
    OBVIOUS
  <2>1. CASE UNCHANGED vars
    BY <2>1 DEF vars, env, RelayInv, RelayShape, ClockInv, HandInv, LateInv, OutcomeIsTrue,
       NothingInHandIsLost, LateTrafficIsBounded
  <2>2. CASE LoopEnds \/ LoopTimesOut \/ CheckTimesOut
    BY <2>2, LeaveKeeps DEF LoopEnds, LoopTimesOut, CheckTimesOut, is_closed, RelayInv, ClockInv
  <2>3. CASE ReceiveEof \/ ReadEof
    BY <2>3, LeaveKeeps DEF ReceiveEof, ReadEof, TakeEnd
  <2>4. CASE CallRaises
    BY <2>4, LeaveKeeps DEF CallRaises, RelayInv, RelayShape
  <2> QED
    BY <2>1, <2>2, <2>3, <2>4, MovingKeeps, TakeKeeps, GiveKeeps, FinallyKeeps, EnvironmentKeeps
       DEF Next, RelayStep
<1> QED
  BY <1>1, InitRelay, PTL DEF Spec

(***************************************************************************)
(* The outcome relay_terminal returns is what happened, whatever its       *)
(* maximum and however the peers behave.                                   *)
(***************************************************************************)
THEOREM OutcomesAreTrue == Spec => []OutcomeIsTrue
BY RelayInvHolds, PTL DEF RelayInv

(***************************************************************************)
(* Activity does not extend the maximum duration: at most one chunk in     *)
(* each direction crosses past the deadline, for any amount of traffic.    *)
(***************************************************************************)
THEOREM DeadlineHolds == Spec => []LateTrafficIsBounded
BY RelayInvHolds, PTL DEF RelayInv, LateInv

(***************************************************************************)
(* A relay that completes or times out has passed on every chunk it took.  *)
(***************************************************************************)
THEOREM NothingIsDropped == Spec => []NothingInHandIsLost
BY RelayInvHolds, PTL DEF RelayInv, HandInv

=============================================================================
