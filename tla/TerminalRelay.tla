---------------------------- MODULE TerminalRelay ----------------------------
(***************************************************************************)
(* relay_terminal (src/infrastructure/ssh/terminal_relay.py) over an       *)
(* InteractiveSshChannel and the LocalTerminalIO.                          *)
(*                                                                         *)
(* The relay's steps are its calls; time passes between any two of them.   *)
(* The user, the target and the network are the environment: they offer    *)
(* chunks, end their side, and take or refuse what is written to them.     *)
(* recv and read follow a select that found data, so they do not block;    *)
(* sendall and os.write block while the other side takes nothing.          *)
(***************************************************************************)
EXTENDS Naturals

CONSTANTS
    MaxDuration,    \* max_duration, in ticks
    MaxTime,        \* bound: ticks of the monotonic clock
    MaxChunks       \* bound: chunks offered in each direction

ASSUME DurationAssumption ==
    /\ MaxDuration \in Nat \ {0}    \* otherwise relay_terminal raises ValueError
    /\ MaxTime \in Nat /\ MaxDuration < MaxTime
    /\ MaxChunks \in Nat

VARIABLES
    pc,         \* position of the relay
    now,        \* monotonic(), counted from the moment the relay begins
    deadline,
    readable,   \* what the last select returned
    outcome,    \* the RelayOutcome, or "raised"
    chan,       \* is the paramiko channel open, ended by the target, or closed
    closing,    \* InteractiveSshChannel._closed
    offered,    \* chunks the target, and the user, have produced
    taken,      \* chunks the relay has received, and read
    given,      \* chunks the relay has written, and sent
    ended,      \* sides that ended their input
    taking,     \* sides that currently take output
    late        \* history: chunks given once the maximum duration was over

env == <<chan, offered, ended, taking>>
vars == <<pc, now, deadline, readable, outcome, closing, taken, given, late, env>>

Sides == {"target", "user"}
Other == [target |-> "user", user |-> "target"]

Init ==
    /\ pc = "start"
    /\ now = 0 /\ deadline = 0
    /\ readable = {}
    /\ outcome = "none"
    /\ chan = "open"
    /\ closing = FALSE
    /\ offered = [s \in Sides |-> 0]
    /\ taken = [s \in Sides |-> 0]
    /\ given = [s \in Sides |-> 0]
    /\ ended = {}
    /\ taking = Sides
    /\ late = [s \in Sides |-> 0]

-----------------------------------------------------------------------------
(***************************************************************************)
(* The environment.                                                        *)
(***************************************************************************)
relayVars == <<pc, deadline, readable, outcome, closing, taken, given, late>>

Tick ==
    /\ pc # "start"            \* the clock's origin is the moment the relay begins
    /\ now < MaxTime
    /\ now' = now + 1
    /\ UNCHANGED <<relayVars, env>>

Offer(s) ==
    /\ s \notin ended
    /\ offered[s] < MaxChunks
    /\ offered' = [offered EXCEPT ![s] = @ + 1]
    /\ UNCHANGED <<relayVars, now, chan, ended, taking>>

\* The target's EOF, or the end of the user's input.
EndInput(s) ==
    /\ s \notin ended
    /\ ended' = ended \cup {s}
    /\ UNCHANGED <<relayVars, now, chan, offered, taking>>

\* The target closes the channel, or the connection is lost.
CloseByTarget ==
    /\ chan = "open"
    /\ chan' = "closed"
    /\ ended' = ended \cup {"target"}
    /\ UNCHANGED <<relayVars, now, offered, taking>>

\* The SSH window is exhausted, or the terminal is stopped; and the opposite.
Stall(s) ==
    /\ s \in taking
    /\ taking' = taking \ {s}
    /\ UNCHANGED <<relayVars, now, chan, offered, ended>>

Drain(s) ==
    /\ s \notin taking
    /\ taking' = taking \cup {s}
    /\ UNCHANGED <<relayVars, now, chan, offered, ended>>

-----------------------------------------------------------------------------
(***************************************************************************)
(* The relay.                                                              *)
(***************************************************************************)
is_closed == closing \/ chan = "closed"

\* What select reports for a side: data, its end, or a closed channel.
HasInput(s) == taken[s] < offered[s] \/ s \in ended

Start ==
    /\ pc = "start"
    /\ deadline' = now + MaxDuration
    /\ pc' = "loop"
    /\ UNCHANGED <<now, readable, outcome, closing, taken, given, late, env>>

\* return and raise both run the finally block next.
Leave(result) ==
    /\ outcome' = result
    /\ pc' = "finally"
    /\ UNCHANGED <<now, deadline, readable, closing, taken, given, late, env>>

Goto(label) ==
    /\ pc' = label
    /\ UNCHANGED <<now, deadline, outcome, closing, given, late, env>>

LoopEnds == pc = "loop" /\ is_closed /\ Leave("completed")

LoopTimesOut == pc = "loop" /\ ~ is_closed /\ now >= deadline /\ Leave("max_duration_exceeded")

\* Variant: an idle timeout, counted anew from every round.
LoopSelects_Idle ==
    /\ pc = "loop" /\ ~ is_closed /\ now < deadline
    /\ deadline' = now + MaxDuration
    /\ pc' = "select"
    /\ UNCHANGED <<now, readable, taken, outcome, closing, given, late, env>>

LoopSelects ==
    /\ pc = "loop" /\ ~ is_closed /\ now < deadline
    /\ Goto("select")
    /\ UNCHANGED <<readable, taken>>

\* Variant: select without a timeout.
SelectReturns_Unlimited ==
    /\ pc = "select"
    /\ \E s \in Sides : HasInput(s)
    /\ readable' = {s \in Sides : HasInput(s)}
    /\ Goto("check")
    /\ UNCHANGED taken

\* select returns what is readable, or nothing once the remaining time is over.
SelectReturns ==
    /\ pc = "select"
    /\ \/ \E s \in Sides : HasInput(s)
       \/ now >= deadline
    /\ readable' = {s \in Sides : HasInput(s)}
    /\ Goto("check")
    /\ UNCHANGED taken

\* The timeout of select and monotonic() are rounded differently: it may return
\* nothing at the last instant before the deadline.
SelectReturnsEarly ==
    /\ pc = "select"
    /\ now + 1 = deadline /\ \A s \in Sides : ~ HasInput(s)
    /\ readable' = {}
    /\ Goto("check")
    /\ UNCHANGED taken

CheckTimesOut == pc = "check" /\ now >= deadline /\ Leave("max_duration_exceeded")

CheckPasses ==
    /\ pc = "check" /\ now < deadline
    /\ Goto(IF readable = {} THEN "loop" ELSE IF "target" \in readable THEN "receive" ELSE "read")
    /\ UNCHANGED <<readable, taken>>

Take(s, here, next) ==
    /\ pc = here
    /\ taken[s] < offered[s]
    /\ taken' = [taken EXCEPT ![s] = @ + 1]
    /\ Goto(next)
    /\ UNCHANGED readable

\* Variant: the end is taken for real although data precede it.
TakeEnd_Undrained(s, here) ==
    /\ pc = here
    /\ s \in ended
    /\ Leave("completed")

TakeEnd(s, here) ==
    /\ pc = here
    /\ taken[s] = offered[s] /\ s \in ended
    /\ Leave("completed")

Give(s, here, next) ==
    /\ pc = here
    /\ Other[s] \in taking
    /\ given' = [given EXCEPT ![s] = @ + 1]
    /\ late' = [late EXCEPT ![s] = IF now >= MaxDuration THEN @ + 1 ELSE @]
    /\ pc' = next
    /\ UNCHANGED <<now, deadline, readable, outcome, closing, taken, env>>

\* channel.receive, then terminal.write_output.
Receive == Take("target", "receive", "write")
ReceiveEof == TakeEnd("target", "receive")

\* Variant: the deadline is looked at once more, with a chunk in hand.
Write_Checked ==
    \/ Give("target", "write", IF "user" \in readable THEN "read" ELSE "loop")
    \/ pc = "write" /\ now >= deadline /\ Leave("max_duration_exceeded")

Write == Give("target", "write", IF "user" \in readable THEN "read" ELSE "loop")

\* terminal.read_input, then channel.send.
ReadInput == Take("user", "read", "send")
ReadEof == TakeEnd("user", "read")
Send == pc = "send" /\ chan = "open" /\ Give("user", "send", "loop")

\* Any of the calls raises, sendall on a closed channel among them, or
\* KeyboardInterrupt arrives.
CallRaises ==
    /\ pc \notin {"start", "finally", "done"}
    /\ Leave("raised")

\* The finally block: channel.close, which may raise in its turn.
Finally ==
    /\ pc = "finally"
    /\ closing' = TRUE
    /\ \E result \in {outcome, "raised"} : outcome' = result
    /\ pc' = "done"
    /\ UNCHANGED <<now, deadline, readable, taken, given, late, env>>

RelayStep ==
    \/ Start
    \/ LoopEnds \/ LoopTimesOut \/ LoopSelects
    \/ SelectReturns
    \/ CheckTimesOut \/ CheckPasses
    \/ Receive \/ ReceiveEof \/ Write
    \/ ReadInput \/ ReadEof \/ Send
    \/ (CallRaises /\ pc = "send" /\ chan = "closed")
    \/ Finally

Environment ==
    \/ Tick
    \/ CloseByTarget
    \/ \E s \in Sides : Offer(s) \/ EndInput(s) \/ Stall(s) \/ Drain(s)

Next == RelayStep \/ SelectReturnsEarly \/ CallRaises \/ Environment

Spec == Init /\ [][Next]_vars

(***************************************************************************)
(* The relay is scheduled and time passes.  Nothing obliges the target to  *)
(* read what is sent to it, or the user's terminal to take output.         *)
(***************************************************************************)
ScheduledSpec == Spec /\ WF_vars(RelayStep) /\ WF_vars(Tick)

\* The same with peers that take output in the end, however often they stall.
CooperativeSpec ==
    /\ ScheduledSpec
    /\ \A s \in Sides : SF_vars(Drain(s))
    /\ SF_vars(Write) /\ SF_vars(Send)

-----------------------------------------------------------------------------
(***************************************************************************)
(* The outcome is what happened.  MAX_DURATION_EXCEEDED: the whole         *)
(* duration has elapsed since the relay began, activity or not.            *)
(* COMPLETED: a side ended; and when it was the target, with its channel   *)
(* still open, everything it had sent has reached the terminal.  (A target *)
(* that closes the channel at once may lose what is still buffered: the    *)
(* loop looks at is_closed before it selects.)                             *)
(***************************************************************************)
OutcomeIsTrue ==
    /\ outcome = "max_duration_exceeded" => now >= MaxDuration
    /\ outcome = "completed" =>
          \/ chan = "closed" \/ "user" \in ended
          \/ "target" \in ended /\ given["target"] = offered["target"]

(***************************************************************************)
(* The cap is not extended by activity: once the duration is over, at most *)
(* the one chunk already in hand or already selected crosses in each       *)
(* direction.  (readable is computed before, and used after, a write that  *)
(* may block across the deadline.)                                         *)
(***************************************************************************)
LateTrafficIsBounded == \A s \in Sides : late[s] <= 1

(***************************************************************************)
(* A controlled end loses nothing the relay took: every chunk received was *)
(* written, every chunk read was sent.                                     *)
(***************************************************************************)
NothingInHandIsLost ==
    outcome \in {"completed", "max_duration_exceeded"} => given = taken

(***************************************************************************)
(* The maximum applies: with peers that take their output in the end, the  *)
(* relay ends.                                                             *)
(***************************************************************************)
RelayEnds == <>(pc = "done")

(***************************************************************************)
(* src/application/access_service.py says: the configured maximum applies  *)
(* regardless of terminal activity.  With nothing assumed about the peers, *)
(* a relay past its deadline would still have to end.                      *)
(***************************************************************************)
MaximumAlwaysApplies == (now >= MaxDuration) ~> (pc = "done")

=============================================================================
