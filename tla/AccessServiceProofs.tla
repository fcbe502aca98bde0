------------------------ MODULE AccessServiceProofs ------------------------
(***************************************************************************)
(* What AccessService.handle keeps true for any number of processes, any   *)
(* answers of its dependencies, any clock, and exceptions, interrupts and  *)
(* kills anywhere.                                                         *)
(***************************************************************************)
EXTENDS AccessBroker, TLAPS

SessionRecords ==
    [status : {"none", "opening", "active"} \cup Terminal, started : Nat, ended : Nat,
     reason : Reasons]

AnswerRecords ==
    [identity : {"none", "match", "mismatch"}, policies : PolicyLists \cup {<< >>},
     target : {"none", "absent", "disabled", "enabled"},
     account : {"none", "absent", "disabled", "mismatch", "enabled"},
     credential : {"none", "absent", "present"}]

\* The state is well formed.  TypeOK says the same without the domains.
LocalShape ==
    /\ pc \in [Procs -> PcValues]
    /\ seen \in [Procs -> AnswerRecords]
    /\ DOMAIN decision = Procs
    /\ \A p \in Procs : decision[p].effect \in {"none", "allow", "deny"}
    /\ session \in [Procs -> SessionRecords]
    /\ broker \in [Procs -> {"none", "open", "closed", "close_failed", "stranded", "dropped"}]
    /\ relayed \in [Procs -> RelayEnds]
    /\ unwinding \in [Procs -> {"none", "exception", "interrupt"}]

Shape ==
    /\ LocalShape
    /\ \E S : log \in Seq(S)
    /\ \A i \in DOMAIN log : log[i].proc \in Procs /\ log[i].type \in EventTypes

(***************************************************************************)
(* Where a process is in handle fixes its session, its broker and its      *)
(* events.                                                                 *)
(***************************************************************************)
BeforeSession == {"idle", "identity", "policy", "target", "account", "vault", "start", "deny"}
OpeningEvents == {"ACCESS_ALLOWED", "SESSION_OPENING"}
ActiveEvents == OpeningEvents \cup {"SESSION_ACTIVE"}

EarlyPosition(p) ==
    /\ pc[p] \in BeforeSession =>
          session[p] = NoSession /\ broker[p] = "none" /\ relayed[p] = "none" /\ Logged(p) = {}
    /\ pc[p] \in {"allowed", "opening", "open"} =>
          session[p].status = "opening" /\ broker[p] = "none" /\ relayed[p] = "none"
    /\ pc[p] = "allowed" => Logged(p) = {}
    /\ pc[p] = "opening" => Logged(p) = {"ACCESS_ALLOWED"}
    /\ pc[p] = "open" => Logged(p) = OpeningEvents
    /\ pc[p] \in {"activate", "relay"} =>
          session[p].status = "active" /\ broker[p] = "open" /\ relayed[p] = "none"
    /\ pc[p] = "activate" => Logged(p) = OpeningEvents
    /\ pc[p] = "relay" => Logged(p) = ActiveEvents

LatePosition(p) ==
    /\ pc[p] = "close" =>
          /\ broker[p] = "open"
          /\ unwinding[p] = "none" =>
                /\ session[p].status = "active" /\ Logged(p) = ActiveEvents
                /\ relayed[p] # "interrupted"
          /\ unwinding[p] = "exception" => session[p].status = "failed"
    /\ pc[p] = "finish" =>
          /\ session[p].status = "active" /\ broker[p] = "closed"
          /\ relayed[p] \notin {"failed", "interrupted"} /\ Logged(p) = ActiveEvents
    /\ pc[p] = "fail" =>
          /\ session[p].status \in {"opening", "active"} /\ broker[p] \in Settled
          /\ Logged(p) \in {OpeningEvents, ActiveEvents}
    /\ pc[p] = "record" =>
          /\ session[p].status \in Terminal /\ broker[p] \in Settled
          /\ Logged(p) \in {OpeningEvents, ActiveEvents}
          /\ session[p].status = "closed" => Logged(p) = ActiveEvents
    /\ pc[p] \in (Handling \ {"close"}) \cup {"idle"} => unwinding[p] = "none"

DecisionInv ==
    \A p \in Procs :
        /\ pc[p] = "deny" => decision[p].effect # "allow"
        /\ pc[p] \in {"target", "account", "vault", "start", "allowed", "opening", "open", "activate",
                      "relay", "close", "finish", "fail", "record"} =>
              decision[p].effect = "allow"

AccessInv ==
    /\ Shape
    /\ \A p \in Procs : EarlyPosition(p) /\ LatePosition(p)
    /\ DecisionInv
    /\ NoStrandedSession
    /\ CleanupIsHonest
    /\ AuditPrecedesUse
    /\ TrailIsLegal
    /\ ResultIsRecorded

-----------------------------------------------------------------------------
(***************************************************************************)
(* What a step of one process leaves alone.                                *)
(***************************************************************************)
OthersUnchanged(p) ==
    \A q \in Procs \ {p} :
        /\ pc'[q] = pc[q] /\ seen'[q] = seen[q] /\ decision'[q] = decision[q]
        /\ session'[q] = session[q] /\ broker'[q] = broker[q]
        /\ relayed'[q] = relayed[q] /\ unwinding'[q] = unwinding[q]

LogStep(p) ==
    \/ log' = log
    \/ pc[p] \in AppendPcs /\ log' = Append(log, EventAt(p))

\* The labels a step goes to are labels.
LEMMA Labels ==
    /\ \A x \in AppendPcs : AfterAppend[x] \in PcValues
    /\ AppendPcs \subseteq PcValues /\ Handling \subseteq PcValues
    /\ Finished \subseteq PcValues /\ "killed" \in PcValues
BY DEF AfterAppend, AppendPcs, PcValues, Handling, Finished

\* evaluate decides, and allows only what the policy table allows.
LEMMA EvaluateDecides ==
    ASSUME NEW policies \in PolicyLists
    PROVE  /\ evaluate(policies).effect \in {"allow", "deny"}
           /\ evaluate(policies).effect = "allow" => PolicyAllows(policies)
BY PoliciesAssumption DEF evaluate, Decision, WithEffect, PolicyAllows, Effects

\* A clamped timestamp is a natural number not before the start.
LEMMA ClampedTime ==
    ASSUME NEW s \in SessionRecords, NEW now \in Times
    PROVE  terminal_timestamp(s, now) \in Nat /\ terminal_timestamp(s, now) >= s.started
BY TimesAssumption DEF terminal_timestamp, SessionRecords

\* Recording an answer keeps seen well formed.
LEMMA AnswerShape ==
    ASSUME NEW p \in Procs, seen \in [Procs -> AnswerRecords],
           \/ \E x \in {"match", "mismatch"} : seen' = [seen EXCEPT ![p].identity = x]
           \/ \E x \in PolicyLists : seen' = [seen EXCEPT ![p].policies = x]
           \/ \E x \in {"absent", "disabled", "enabled"} : seen' = [seen EXCEPT ![p].target = x]
           \/ \E x \in {"absent", "disabled", "mismatch", "enabled"} :
                 seen' = [seen EXCEPT ![p].account = x]
           \/ \E x \in {"absent", "present"} : seen' = [seen EXCEPT ![p].credential = x]
    PROVE  seen' \in [Procs -> AnswerRecords] /\ \A q \in Procs \ {p} : seen'[q] = seen[q]
BY DEF AnswerRecords

\* The lookups and denials keep the shape and touch one process only.
LEMMA LookupShape ==
    ASSUME NEW p \in Procs, LocalShape,
           Handle(p) \/ CheckIdentity(p) \/ EvaluatePolicy(p) \/ GetTarget(p) \/ FindAccount(p)
             \/ ResolveCredential(p) \/ LookupRaises(p)
    PROVE  LocalShape' /\ OthersUnchanged(p) /\ LogStep(p)
<1>1. seen' \in [Procs -> AnswerRecords] /\ \A q \in Procs \ {p} : seen'[q] = seen[q]
  <2>1. CASE seen' = seen
    BY <2>1 DEF LocalShape
  <2>2. CASE CheckIdentity(p)
    BY <2>2, AnswerShape DEF LocalShape, CheckIdentity
  <2>3. CASE EvaluatePolicy(p)
    BY <2>3, AnswerShape DEF LocalShape, EvaluatePolicy
  <2>4. CASE GetTarget(p)
    BY <2>4, AnswerShape DEF LocalShape, GetTarget
  <2>5. CASE FindAccount(p)
    BY <2>5, AnswerShape DEF LocalShape, FindAccount
  <2>6. CASE ResolveCredential(p)
    BY <2>6, AnswerShape DEF LocalShape, ResolveCredential
  <2> QED
    BY <2>1, <2>2, <2>3, <2>4, <2>5, <2>6 DEF Handle, LookupRaises
<1>2. /\ DOMAIN decision' = Procs
      /\ \A q \in Procs : decision'[q].effect \in {"none", "allow", "deny"}
      /\ \A q \in Procs \ {p} : decision'[q] = decision[q]
  <2>1. CASE EvaluatePolicy(p)
    BY <2>1, EvaluateDecides DEF EvaluatePolicy, LocalShape
  <2>2. CASE decision' = decision \/ \E r : decision' = [decision EXCEPT ![p] = Decision("deny", r)]
    BY <2>2 DEF LocalShape, Decision
  <2> QED
    BY <2>1, <2>2 DEF Handle, CheckIdentity, GetTarget, FindAccount, ResolveCredential,
       LookupRaises, Proceed, Deny
<1>3. /\ pc' \in [Procs -> PcValues]
      /\ \A q \in Procs \ {p} : pc'[q] = pc[q]
  <2>1. \E label \in PcValues : pc' = [pc EXCEPT ![p] = label]
    BY DEF Handle, CheckIdentity, EvaluatePolicy, GetTarget, FindAccount, ResolveCredential,
       LookupRaises, Proceed, Deny, Goto, PcValues, Handling, AppendPcs, Finished
  <2> QED
    BY <2>1 DEF LocalShape
<1>4. UNCHANGED <<session, broker, relayed, unwinding, log>>
  BY DEF Handle, CheckIdentity, EvaluatePolicy, GetTarget, FindAccount, ResolveCredential,
     LookupRaises, Proceed, Deny
<1> QED
  BY <1>1, <1>2, <1>3, <1>4 DEF LocalShape, OthersUnchanged, LogStep

\* Ending a session keeps it a session record.
LEMMA EndedShape ==
    ASSUME NEW s \in SessionRecords, NEW now \in Times, NEW status \in Terminal,
           NEW reason \in Reasons
    PROVE  Ended(s, status, terminal_timestamp(s, now), reason) \in SessionRecords
<1>1. terminal_timestamp(s, now) \in Nat
  BY ClampedTime
<1> QED
  BY <1>1 DEF Ended, SessionRecords

\* What an ended session says.
LEMMA EndedFields ==
    ASSUME NEW s \in SessionRecords, NEW status, NEW t, NEW reason
    PROVE  /\ Ended(s, status, t, reason).status = status
           /\ Ended(s, status, t, reason).ended = t
           /\ Ended(s, status, t, reason).started = s.started
BY DEF Ended, SessionRecords

\* The steps that have a session keep the shape and touch one process only.
LEMMA SessionShape ==
    ASSUME NEW p \in Procs, LocalShape,
           StartSession(p) \/ AppendEvent(p) \/ AppendRaises(p) \/ OpenBroker(p)
             \/ OpenBrokerRaises(p) \/ Relay(p) \/ CloseBroker(p) \/ FailSession(p)
             \/ FinishSession(p) \/ Interrupt(p) \/ Kill(p)
    PROVE  LocalShape' /\ OthersUnchanged(p) /\ LogStep(p)
<1>1. \E label \in PcValues : pc' = [pc EXCEPT ![p] = label]
  <2>1. CASE AppendEvent(p)
    BY <2>1, Labels DEF AppendEvent, Goto
  <2>2. CASE CloseBroker(p)
    BY <2>2 DEF CloseBroker, Goto, AfterClose, LocalShape, PcValues, Handling, Finished
  <2> QED
    BY <2>1, <2>2 DEF StartSession, AppendRaises, OpenBroker, OpenBrokerRaises, Relay, FailSession,
       FinishSession, Interrupt, Kill, Goto, PcValues, Handling, AppendPcs, Finished
<1>2. session' = session \/ \E s \in SessionRecords : session' = [session EXCEPT ![p] = s]
  <2>1. CASE StartSession(p)
    BY <2>1, TimesAssumption DEF StartSession, Opening, NoSession, NoTime, SessionRecords, Reasons
  <2>2. CASE AppendRaises(p)
    BY <2>2, EndedShape DEF AppendRaises, LocalShape, Terminal, Reasons
  <2>3. CASE OpenBroker(p)
    <3>1. [session[p] EXCEPT !.status = "active"] \in SessionRecords
      BY DEF LocalShape, SessionRecords
    <3> QED
      BY <2>3, <3>1 DEF OpenBroker, LocalShape
  <2>4. CASE FailSession(p)
    <3>1. FailReason(p) \in Reasons
      BY DEF FailReason, Reasons
    <3> QED
      BY <2>4, <3>1, EndedShape DEF FailSession, LocalShape, Terminal
  <2>5. CASE FinishSession(p)
    <3>1. CloseReason(p) \in Reasons
      BY DEF CloseReason, Reasons
    <3> QED
      BY <2>5, <3>1, EndedShape DEF FinishSession, LocalShape, Terminal
  <2> QED
    BY <2>1, <2>2, <2>3, <2>4, <2>5 DEF AppendEvent, OpenBrokerRaises, Relay, CloseBroker,
       Interrupt, Kill
<1>3. \E b \in {"none", "open", "closed", "close_failed", "stranded", "dropped"} :
         broker' = [broker EXCEPT ![p] = b]
  <2>1. broker = [broker EXCEPT ![p] = broker[p]]
    BY DEF LocalShape
  <2>2. CASE Interrupt(p)
    BY <2>2 DEF Interrupt, BrokerAfterInterrupt, LocalShape
  <2> QED
    BY <2>1, <2>2 DEF StartSession, AppendEvent, AppendRaises, OpenBroker, OpenBrokerRaises, Relay,
       CloseBroker, FailSession, FinishSession, Kill, LocalShape
<1>4. \/ relayed' = relayed
      \/ \E r \in RelayEnds : relayed' = [relayed EXCEPT ![p] = r]
  BY DEF RelayEnds, StartSession, AppendEvent, AppendRaises, OpenBroker, OpenBrokerRaises, Relay,
     CloseBroker, FailSession, FinishSession, Interrupt, Kill
<1>5. \/ unwinding' = unwinding
      \/ \E u \in {"exception", "interrupt"} : unwinding' = [unwinding EXCEPT ![p] = u]
  BY DEF StartSession, AppendEvent, AppendRaises, OpenBroker, OpenBrokerRaises, Relay,
     CloseBroker, FailSession, FinishSession, Interrupt, Kill
<1>6. UNCHANGED <<seen, decision>> /\ LogStep(p)
  BY DEF StartSession, AppendEvent, AppendRaises, OpenBroker, OpenBrokerRaises, Relay,
     CloseBroker, FailSession, FinishSession, Interrupt, Kill, LogStep
<1>7. pc' \in [Procs -> PcValues] /\ \A q \in Procs \ {p} : pc'[q] = pc[q]
  BY <1>1 DEF LocalShape
<1>8. session' \in [Procs -> SessionRecords] /\ \A q \in Procs \ {p} : session'[q] = session[q]
  BY <1>2 DEF LocalShape
<1>9. /\ broker' \in [Procs -> {"none", "open", "closed", "close_failed", "stranded", "dropped"}]
      /\ \A q \in Procs \ {p} : broker'[q] = broker[q]
  BY <1>3 DEF LocalShape
<1>10. /\ relayed' \in [Procs -> RelayEnds]
       /\ \A q \in Procs \ {p} : relayed'[q] = relayed[q]
  BY <1>4 DEF LocalShape
<1>11. /\ unwinding' \in [Procs -> {"none", "exception", "interrupt"}]
       /\ \A q \in Procs \ {p} : unwinding'[q] = unwinding[q]
  BY <1>5 DEF LocalShape
<1> QED
  BY <1>6, <1>7, <1>8, <1>9, <1>10, <1>11 DEF LocalShape, OthersUnchanged

-----------------------------------------------------------------------------
(***************************************************************************)
(* What an append does to the log.                                         *)
(***************************************************************************)

\* An append adds one event at the end and keeps the others.
LEMMA LogGrows ==
    ASSUME NEW S, log \in Seq(S), NEW e, log' = Append(log, e)
    PROVE  /\ \E T : log' \in Seq(T)
           /\ DOMAIN log' = DOMAIN log \cup {Len(log) + 1}
           /\ Len(log) + 1 \notin DOMAIN log
           /\ \A i \in DOMAIN log : log'[i] = log[i] /\ i < Len(log) + 1
           /\ log'[Len(log) + 1] = e
<1>1. log \in Seq(S \cup {e}) /\ e \in S \cup {e}
  OBVIOUS
<1>2. log' \in Seq(S \cup {e})
  BY <1>1
<1> QED
  BY <1>1, <1>2

\* Every event that handle appends is one of its own process and of a known type.
LEMMA EventAtShape ==
    ASSUME NEW p \in Procs, pc[p] \in AppendPcs
    PROVE  /\ EventAt(p).proc = p
           /\ EventAt(p).type \in EventTypes
           /\ pc[p] = "deny" => EventAt(p).type = "ACCESS_DENIED"
           /\ pc[p] = "allowed" => EventAt(p).type = "ACCESS_ALLOWED"
           /\ pc[p] = "opening" => EventAt(p).type = "SESSION_OPENING"
           /\ pc[p] = "activate" => EventAt(p).type = "SESSION_ACTIVE"
           /\ pc[p] = "record" =>
                 /\ EventAt(p) = TerminalEvent(p)
                 /\ EventAt(p).type = IF session[p].status = "closed" THEN "SESSION_CLOSED"
                                                                      ELSE "SESSION_FAILED"
BY DEF EventAt, Event, TerminalEvent, AppendPcs, EventTypes

\* A step of p that appends adds one type to the events of p, and to no other's.
LEMMA LoggedGrows ==
    ASSUME Shape, NEW p \in Procs, pc[p] \in AppendPcs, log' = Append(log, EventAt(p))
    PROVE  /\ Logged(p)' = Logged(p) \cup {EventAt(p).type}
           /\ \A q \in Procs \ {p} : Logged(q)' = Logged(q)
<1>1. PICK S : log \in Seq(S)
  BY DEF Shape, LocalShape
<1>2. /\ DOMAIN log' = DOMAIN log \cup {Len(log) + 1}
      /\ Len(log) + 1 \notin DOMAIN log
      /\ \A i \in DOMAIN log : log'[i] = log[i]
      /\ log'[Len(log) + 1] = EventAt(p)
  BY <1>1, LogGrows
<1>3. EventAt(p).proc = p
  BY EventAtShape
<1> QED
  BY <1>2, <1>3 DEF Logged

\* A step keeps the shape.
LEMMA StepShape ==
    ASSUME NEW p \in Procs, Shape, HandleNext(p)
    PROVE  Shape' /\ OthersUnchanged(p) /\ LogStep(p)
<1>1. LocalShape' /\ OthersUnchanged(p) /\ LogStep(p)
  BY LookupShape, SessionShape DEF HandleNext, Step, Shape, LocalShape
<1>2. /\ \E S : log' \in Seq(S)
      /\ \A i \in DOMAIN log' : log'[i].proc \in Procs /\ log'[i].type \in EventTypes
  <2>1. CASE log' = log
    BY <2>1 DEF Shape, LocalShape
  <2>2. CASE pc[p] \in AppendPcs /\ log' = Append(log, EventAt(p))
    BY <2>2, LogGrows, EventAtShape DEF Shape, LocalShape
  <2> QED
    BY <1>1, <2>1, <2>2 DEF LogStep
<1> QED
  BY <1>1, <1>2 DEF Shape, LocalShape

-----------------------------------------------------------------------------
(***************************************************************************)
(* Positions.                                                              *)
(***************************************************************************)

\* A step of one process leaves the events of the others alone.
LEMMA LoggedOfOthers ==
    ASSUME NEW p \in Procs, Shape, LogStep(p)
    PROVE  \A q \in Procs \ {p} : Logged(q)' = Logged(q)
<1>1. CASE log' = log
  BY <1>1 DEF Logged
<1> QED
  BY <1>1, LoggedGrows DEF LogStep

\* A step of one process leaves the position of the others alone.
LEMMA OthersPosition ==
    ASSUME NEW p \in Procs, Shape, HandleNext(p), NEW q \in Procs \ {p},
           EarlyPosition(q), LatePosition(q)
    PROVE  EarlyPosition(q)' /\ LatePosition(q)'
BY StepShape, LoggedOfOthers DEF EarlyPosition, LatePosition, OthersUnchanged

\* Steps before there is a session.
LEMMA LookupPosition ==
    ASSUME NEW p \in Procs, Shape, EarlyPosition(p), LatePosition(p),
           Handle(p) \/ CheckIdentity(p) \/ EvaluatePolicy(p) \/ GetTarget(p) \/ FindAccount(p)
             \/ ResolveCredential(p) \/ LookupRaises(p)
    PROVE  EarlyPosition(p)' /\ LatePosition(p)'
<1>1. pc[p] \in BeforeSession /\ UNCHANGED <<session, broker, relayed, unwinding, log>>
  BY DEF Handle, CheckIdentity, EvaluatePolicy, GetTarget, FindAccount, ResolveCredential,
     LookupRaises, Proceed, Deny, BeforeSession
<1>2. pc'[p] \in BeforeSession \cup {"raised"} /\ unwinding[p] = "none"
  BY DEF Handle, CheckIdentity, EvaluatePolicy, GetTarget, FindAccount, ResolveCredential,
     LookupRaises, Proceed, Deny, BeforeSession, Goto, Shape, LocalShape, LatePosition, Handling
<1>3. Logged(p)' = Logged(p)
  BY <1>1 DEF Logged
<1> QED
  BY <1>1, <1>2, <1>3 DEF EarlyPosition, LatePosition, BeforeSession

\* Steps of the session that append nothing.
LEMMA SilentPosition ==
    ASSUME NEW p \in Procs, Shape, EarlyPosition(p), LatePosition(p),
           StartSession(p) \/ AppendRaises(p) \/ OpenBroker(p) \/ OpenBrokerRaises(p) \/ Relay(p)
             \/ CloseBroker(p) \/ FailSession(p) \/ FinishSession(p) \/ Kill(p)
    PROVE  EarlyPosition(p)' /\ LatePosition(p)'
<1> USE DEF Shape, LocalShape, EarlyPosition, LatePosition, Goto
<1>1. Logged(p)' = Logged(p)
  BY DEF StartSession, AppendRaises, OpenBroker, OpenBrokerRaises, Relay, CloseBroker,
     FailSession, FinishSession, Kill, Logged
<1>2. CASE StartSession(p)
  BY <1>1, <1>2 DEF StartSession, Opening, NoSession, BeforeSession, Handling, AppendPcs
<1>3. CASE AppendRaises(p)
  <2>1. PICK now \in Times :
           session' = IF /\ pc[p] \in {"allowed", "opening", "activate"}
                         /\ MayFail(session[p], terminal_timestamp(session[p], now))
                        THEN [session EXCEPT ![p] =
                                 Ended(session[p], "failed", terminal_timestamp(session[p], now),
                                       "audit_persistence_failed")]
                        ELSE session
    BY <1>3 DEF AppendRaises
  <2>2. pc[p] = "activate" => MayFail(session[p], terminal_timestamp(session[p], now))
    BY ClampedTime DEF MayFail
  <2>3. pc[p] = "activate" => session'[p].status = "failed"
    BY <2>1, <2>2, EndedFields
  <2> QED
    BY <1>1, <1>3, <2>3 DEF AppendRaises, BeforeSession, Handling, AppendPcs
<1>4. CASE OpenBroker(p)
  BY <1>1, <1>4 DEF OpenBroker, BeforeSession, Handling, AppendPcs, SessionRecords
<1>5. CASE OpenBrokerRaises(p)
  BY <1>1, <1>5 DEF OpenBrokerRaises, BeforeSession, Handling, AppendPcs, Settled
<1>6. CASE Relay(p)
  BY <1>1, <1>6 DEF Relay, BeforeSession, Handling, AppendPcs
<1>7. CASE CloseBroker(p)
  BY <1>1, <1>7 DEF CloseBroker, AfterClose, BeforeSession, Handling, AppendPcs, Settled
<1>8. CASE FailSession(p)
  <2>1. \/ pc'[p] = "raised"
        \/ pc'[p] = "record" /\ session'[p].status = "failed"
    BY <1>8, EndedFields DEF FailSession
  <2>2. pc[p] = "fail" /\ UNCHANGED <<broker, relayed, unwinding>>
    BY <1>8 DEF FailSession
  <2> QED
    BY <1>1, <2>1, <2>2 DEF BeforeSession, Handling, AppendPcs, Terminal, Settled
<1>9. CASE FinishSession(p)
  <2>1. \/ pc'[p] = "raised"
        \/ pc'[p] = "record" /\ session'[p].status = "closed"
    BY <1>9, EndedFields DEF FinishSession
  <2>2. pc[p] = "finish" /\ UNCHANGED <<broker, relayed, unwinding>>
    BY <1>9 DEF FinishSession
  <2> QED
    BY <1>1, <2>1, <2>2 DEF BeforeSession, Handling, AppendPcs, Terminal, Settled
<1>10. CASE Kill(p)
  BY <1>10 DEF Kill, BeforeSession, Handling, AppendPcs
<1> QED
  BY <1>2, <1>3, <1>4, <1>5, <1>6, <1>7, <1>8, <1>9, <1>10

\* Steps that may append.
LEMMA AppendPosition ==
    ASSUME NEW p \in Procs, Shape, EarlyPosition(p), LatePosition(p), AppendEvent(p) \/ Interrupt(p)
    PROVE  EarlyPosition(p)' /\ LatePosition(p)'
<1> USE DEF Shape, LocalShape, EarlyPosition, LatePosition, Goto
<1>1. CASE AppendEvent(p)
  <2>1. Logged(p)' = Logged(p) \cup {EventAt(p).type}
    BY <1>1, LoggedGrows DEF AppendEvent
  <2>2. /\ pc[p] = "allowed" => Logged(p)' = {"ACCESS_ALLOWED"}
        /\ pc[p] = "opening" => Logged(p)' = OpeningEvents
        /\ pc[p] = "activate" => Logged(p)' = ActiveEvents
    BY <1>1, <2>1, EventAtShape DEF AppendEvent, OpeningEvents, ActiveEvents
  <2>3. /\ pc[p] \in AppendPcs
        /\ pc[p] \in {"deny", "record"} => pc'[p] = "returned"
        /\ pc[p] = "allowed" => pc'[p] = "opening"
        /\ pc[p] = "opening" => pc'[p] = "open"
        /\ pc[p] = "activate" => pc'[p] = "relay"
    BY <1>1 DEF AppendEvent, AfterAppend
  <2>4. UNCHANGED <<session, broker, relayed, unwinding>>
    BY <1>1 DEF AppendEvent
  <2> QED
    BY <2>2, <2>3, <2>4 DEF AppendPcs, BeforeSession, Handling
<1>2. CASE Interrupt(p)
  <2>1. /\ pc[p] \in Handling
        /\ IF pc[p] \in {"activate", "relay"}
             THEN pc'[p] = "close" /\ unwinding'[p] = "interrupt" /\ broker'[p] = "open"
             ELSE pc'[p] = "interrupted"
    BY <1>2 DEF Interrupt, BrokerAfterInterrupt
  <2> QED
    BY <2>1 DEF BeforeSession, Handling, AppendPcs
<1> QED
  BY <1>1, <1>2

\* Every process keeps its position in every step.
LEMMA StepPosition ==
    ASSUME NEW p \in Procs, Shape, \A q \in Procs : EarlyPosition(q) /\ LatePosition(q), HandleNext(p)
    PROVE  \A q \in Procs : EarlyPosition(q)' /\ LatePosition(q)'
<1>1. EarlyPosition(p)' /\ LatePosition(p)'
  BY LookupPosition, SilentPosition, AppendPosition DEF HandleNext, Step
<1> QED
  BY <1>1, OthersPosition

-----------------------------------------------------------------------------
(***************************************************************************)
(* Sessions.                                                               *)
(***************************************************************************)

\* The ways a step can change a session.
SessionMoves(p) ==
    \/ session'[p] = session[p]
    \/ session[p].status = "none" /\ session'[p].status = "opening"
    \/ session[p].status = "opening" /\ session'[p].status = "active"
    \/ /\ \/ session[p].status \in {"opening", "active"} /\ session'[p].status = "failed"
          \/ session[p].status = "active" /\ session'[p].status = "closed"
       /\ session'[p].ended >= session'[p].started

\* A failed append ends a session that is open, and leaves any other alone.
LEMMA AppendRaisesEnds ==
    ASSUME NEW p \in Procs, Shape, EarlyPosition(p), LatePosition(p), AppendRaises(p)
    PROVE  /\ SessionMoves(p)
           /\ session'[p].status \in Terminal \cup {"none"}
<1>1. PICK now \in Times :
         session' = IF /\ pc[p] \in {"allowed", "opening", "activate"}
                       /\ MayFail(session[p], terminal_timestamp(session[p], now))
                      THEN [session EXCEPT ![p] =
                               Ended(session[p], "failed", terminal_timestamp(session[p], now),
                                     "audit_persistence_failed")]
                      ELSE session
  BY DEF AppendRaises
<1>2. session[p] \in SessionRecords /\ terminal_timestamp(session[p], now) >= session[p].started
  BY ClampedTime DEF Shape, LocalShape
<1>3. CASE pc[p] \in {"allowed", "opening", "activate"}
  <2>1. session[p].status \in {"opening", "active"}
    BY <1>3 DEF EarlyPosition
  <2>2. session'[p] = Ended(session[p], "failed", terminal_timestamp(session[p], now),
                            "audit_persistence_failed")
    BY <1>1, <1>2, <1>3, <2>1 DEF MayFail, Shape, LocalShape
  <2> QED
    BY <1>2, <2>1, <2>2, EndedFields DEF SessionMoves, Terminal
<1>4. CASE pc[p] \in {"deny", "record"}
  <2>1. session[p].status \in Terminal \cup {"none"}
    BY <1>4 DEF EarlyPosition, LatePosition, BeforeSession, NoSession
  <2> QED
    BY <1>1, <1>4, <2>1 DEF SessionMoves
<1> QED
  BY <1>3, <1>4 DEF AppendRaises, AppendPcs

\* _fail_session and mark_closed never raise: the session is open and the time is clamped.
LEMMA EndingSucceeds ==
    ASSUME NEW p \in Procs, Shape, EarlyPosition(p), LatePosition(p), FailSession(p) \/ FinishSession(p)
    PROVE  SessionMoves(p) /\ pc'[p] = "record"
<1>0. session[p] \in SessionRecords
  BY DEF Shape, LocalShape
<1>1. CASE FailSession(p)
  <2>1. session[p].status \in {"opening", "active"}
    BY <1>1 DEF FailSession, LatePosition
  <2>2. PICK now \in Times :
           IF MayFail(session[p], terminal_timestamp(session[p], now))
             THEN /\ session' = [session EXCEPT ![p] =
                                    Ended(session[p], "failed",
                                          terminal_timestamp(session[p], now), FailReason(p))]
                  /\ Goto(p, "record")
             ELSE Goto(p, "raised") /\ UNCHANGED session
    BY <1>1 DEF FailSession
  <2>3. terminal_timestamp(session[p], now) >= session[p].started
    BY <1>0, ClampedTime
  <2>4. MayFail(session[p], terminal_timestamp(session[p], now))
    BY <2>1, <2>3 DEF MayFail
  <2> QED
    BY <1>0, <2>1, <2>2, <2>3, <2>4, EndedFields DEF SessionMoves, Goto, Shape, LocalShape
<1>2. CASE FinishSession(p)
  <2>1. session[p].status = "active"
    BY <1>2 DEF FinishSession, LatePosition
  <2>2. PICK now \in Times :
           IF MayClose(session[p], terminal_timestamp(session[p], now))
             THEN /\ session' = [session EXCEPT ![p] =
                                    Ended(session[p], "closed",
                                          terminal_timestamp(session[p], now), CloseReason(p))]
                  /\ Goto(p, "record")
             ELSE Goto(p, "raised") /\ UNCHANGED session
    BY <1>2 DEF FinishSession
  <2>3. terminal_timestamp(session[p], now) >= session[p].started
    BY <1>0, ClampedTime
  <2>4. MayClose(session[p], terminal_timestamp(session[p], now))
    BY <2>1, <2>3 DEF MayClose
  <2> QED
    BY <1>0, <2>1, <2>2, <2>3, <2>4, EndedFields DEF SessionMoves, Goto, Shape, LocalShape
<1> QED
  BY <1>1, <1>2

\* Every step moves a session along its life cycle, and handle ends with it ended.
LEMMA StepSession ==
    ASSUME NEW p \in Procs, Shape, EarlyPosition(p), LatePosition(p), HandleNext(p)
    PROVE  /\ SessionMoves(p)
           /\ pc'[p] \in {"returned", "raised"} => session'[p].status \in Terminal \cup {"none"}
<1>1. CASE AppendRaises(p)
  BY <1>1, AppendRaisesEnds
<1>2. CASE FailSession(p) \/ FinishSession(p)
  BY <1>2, EndingSucceeds
<1>3. CASE \/ Handle(p) \/ CheckIdentity(p) \/ EvaluatePolicy(p) \/ GetTarget(p) \/ FindAccount(p)
           \/ ResolveCredential(p) \/ LookupRaises(p)
  <2>1. pc[p] \in BeforeSession /\ session' = session
    BY <1>3 DEF Handle, CheckIdentity, EvaluatePolicy, GetTarget, FindAccount, ResolveCredential,
       LookupRaises, Proceed, Deny, BeforeSession
  <2> QED
    BY <2>1 DEF EarlyPosition, NoSession, SessionMoves
<1>4. CASE StartSession(p)
  BY <1>4 DEF StartSession, EarlyPosition, BeforeSession, NoSession, Opening, SessionMoves, Shape, LocalShape, Goto
<1>5. CASE OpenBroker(p)
  BY <1>5 DEF OpenBroker, EarlyPosition, SessionMoves, Shape, LocalShape, Goto, SessionRecords
<1>6. CASE AppendEvent(p)
  BY <1>6 DEF AppendEvent, AfterAppend, AppendPcs, EarlyPosition, LatePosition, BeforeSession, NoSession,
     SessionMoves, Shape, LocalShape, Goto
<1>7. CASE CloseBroker(p)
  BY <1>7 DEF CloseBroker, AfterClose, LatePosition, SessionMoves, Shape, LocalShape, Goto, Terminal
<1>8. CASE OpenBrokerRaises(p) \/ Relay(p) \/ Interrupt(p) \/ Kill(p)
  BY <1>8 DEF OpenBrokerRaises, Relay, Interrupt, Kill, SessionMoves, Shape, LocalShape, Goto
<1> QED
  BY <1>1, <1>2, <1>3, <1>4, <1>5, <1>6, <1>7, <1>8 DEF HandleNext, Step

-----------------------------------------------------------------------------
(***************************************************************************)
(* One lemma per safety property: a step preserves it.                     *)
(***************************************************************************)

\* No session is stranded.
LEMMA StepStranded ==
    ASSUME NEW p \in Procs, AccessInv, HandleNext(p)
    PROVE  NoStrandedSession'
<1>1. OthersUnchanged(p)
  BY StepShape DEF AccessInv
<1>2. /\ SessionMoves(p)
      /\ pc'[p] \in {"returned", "raised"} => session'[p].status \in Terminal \cup {"none"}
  BY StepSession DEF AccessInv
<1> QED
  BY <1>1, <1>2 DEF AccessInv, NoStrandedSession, OthersUnchanged, SessionMoves, Terminal

\* The broker is closed and the result says so.
LEMMA StepCleanup ==
    ASSUME NEW p \in Procs, AccessInv, HandleNext(p)
    PROVE  CleanupIsHonest'
<1>1. OthersUnchanged(p)
  BY StepShape DEF AccessInv
<1>2. EarlyPosition(p) /\ LatePosition(p) /\ Shape
  BY DEF AccessInv
<1>3. /\ pc'[p] \in {"returned", "raised"} => broker'[p] \in Settled
      /\ pc'[p] = "interrupted" => broker'[p] # "open"
  <2> USE <1>2 DEF Shape, LocalShape, Goto, Settled, EarlyPosition, LatePosition
  <2>1. CASE \/ Handle(p) \/ CheckIdentity(p) \/ EvaluatePolicy(p) \/ GetTarget(p)
             \/ FindAccount(p) \/ ResolveCredential(p) \/ LookupRaises(p) \/ StartSession(p)
    BY <2>1 DEF Handle, CheckIdentity, EvaluatePolicy, GetTarget, FindAccount, ResolveCredential,
       LookupRaises, StartSession, Proceed, Deny, BeforeSession
  <2>2. CASE AppendEvent(p)
    BY <2>2 DEF AppendEvent, AfterAppend, AppendPcs, BeforeSession
  <2>3. CASE AppendRaises(p)
    BY <2>3 DEF AppendRaises, AppendPcs, BeforeSession
  <2>4. CASE OpenBroker(p) \/ OpenBrokerRaises(p) \/ Relay(p) \/ Kill(p)
    BY <2>4 DEF OpenBroker, OpenBrokerRaises, Relay, Kill
  <2>5. CASE CloseBroker(p)
    BY <2>5 DEF CloseBroker
  <2>6. CASE FailSession(p) \/ FinishSession(p)
    BY <2>6 DEF FailSession, FinishSession
  <2>7. CASE Interrupt(p)
    BY <2>7 DEF Interrupt, BrokerAfterInterrupt, Handling, AppendPcs, BeforeSession
  <2> QED
    BY <2>1, <2>2, <2>3, <2>4, <2>5, <2>6, <2>7 DEF HandleNext, Step
<1>4. session'[p].status = "closed" =>
         broker'[p] = "closed" /\ relayed'[p] \notin {"failed", "interrupted"}
  <2>1. CASE session'[p] = session[p] /\ session[p].status = "closed"
    <3>1. broker[p] = "closed" /\ relayed[p] \notin {"failed", "interrupted"}
      BY <2>1 DEF AccessInv, CleanupIsHonest
    <3>2. pc[p] \notin {"open", "relay", "close"}
      BY <1>2, <2>1, <3>1 DEF EarlyPosition, LatePosition
    <3> QED
      BY <3>1, <3>2 DEF HandleNext, Step, Handle, CheckIdentity, EvaluatePolicy, GetTarget,
         FindAccount, ResolveCredential, LookupRaises, StartSession, Proceed, Deny, AppendEvent,
         AppendRaises, OpenBroker, OpenBrokerRaises, Relay, CloseBroker, FailSession,
         FinishSession, Interrupt, BrokerAfterInterrupt, Kill, AccessInv, Shape, LocalShape
  <2>2. CASE session'[p].status = "closed" /\ session'[p] # session[p]
    <3>1. ~ StartSession(p)
      BY <1>2, <2>2 DEF StartSession, Opening, NoSession, Shape, LocalShape
    <3>2. ~ OpenBroker(p)
      BY <1>2, <2>2 DEF OpenBroker, Shape, LocalShape, SessionRecords
    <3>3. ~ AppendRaises(p)
      BY <1>2, <2>2, EndedFields DEF AppendRaises, Shape, LocalShape
    <3>4. ~ FailSession(p)
      BY <1>2, <2>2, EndedFields DEF FailSession, Shape, LocalShape
    <3>5. FinishSession(p)
      BY <2>2, <3>1, <3>2, <3>3, <3>4 DEF HandleNext, Step, Handle, CheckIdentity,
         EvaluatePolicy, GetTarget, FindAccount, ResolveCredential, LookupRaises, Proceed, Deny,
         AppendEvent, OpenBrokerRaises, Relay, CloseBroker, Interrupt, Kill
    <3> QED
      BY <1>2, <3>5 DEF FinishSession, LatePosition
  <2> QED
    BY <2>1, <2>2
<1>5. Logged(p)' \cap {"SESSION_CLOSED", "SESSION_FAILED"} # {} => broker'[p] \in Settled
  <2> SUFFICES ASSUME Logged(p)' \cap {"SESSION_CLOSED", "SESSION_FAILED"} # {}
               PROVE  broker'[p] \in Settled
    OBVIOUS
  <2>1. \/ Logged(p) \cap {"SESSION_CLOSED", "SESSION_FAILED"} # {}
        \/ pc[p] = "record"
    <3>1. CASE log' = log
      BY <3>1 DEF Logged
    <3>2. CASE pc[p] \in AppendPcs /\ log' = Append(log, EventAt(p))
      <4>1. Logged(p)' = Logged(p) \cup {EventAt(p).type}
        BY <1>2, <3>2, LoggedGrows
      <4> QED
        BY <3>2, <4>1, EventAtShape DEF AppendPcs
    <3> QED
      BY <3>1, <3>2, StepShape DEF AccessInv, LogStep
  <2>2. broker[p] \in Settled
    BY <1>2, <2>1 DEF AccessInv, CleanupIsHonest, LatePosition
  <2>3. pc[p] \notin {"open", "close"} /\ broker[p] # "open"
    BY <1>2, <2>1, <2>2 DEF EarlyPosition, LatePosition, OpeningEvents, Settled
  <2>4. broker'[p] = broker[p]
    BY <2>3 DEF HandleNext, Step, Handle, CheckIdentity, EvaluatePolicy, GetTarget,
       FindAccount, ResolveCredential, LookupRaises, StartSession, Proceed, Deny, AppendEvent,
       AppendRaises, OpenBroker, OpenBrokerRaises, Relay, CloseBroker, FailSession,
       FinishSession, Interrupt, BrokerAfterInterrupt, Kill, AccessInv, Shape, LocalShape
  <2> QED
    BY <2>2, <2>4
<1>6. \A q \in Procs \ {p} : Logged(q)' = Logged(q)
  BY <1>2, StepShape, LoggedOfOthers
<1> QED
  BY <1>1, <1>3, <1>4, <1>5, <1>6 DEF AccessInv, CleanupIsHonest, OthersUnchanged

\* The log only grows.
LEMMA LoggedMonotone ==
    ASSUME NEW p \in Procs, Shape, LogStep(p), NEW q \in Procs
    PROVE  Logged(q) \subseteq Logged(q)'
<1>1. CASE log' = log
  BY <1>1 DEF Logged
<1> QED
  BY <1>1, LoggedGrows DEF LogStep

\* Events precede what they announce.
LEMMA StepPrecedes ==
    ASSUME NEW p \in Procs, AccessInv, HandleNext(p)
    PROVE  AuditPrecedesUse'
<1>1. OthersUnchanged(p) /\ \A q \in Procs : Logged(q) \subseteq Logged(q)'
  BY StepShape, LoggedMonotone DEF AccessInv
<1>2. EarlyPosition(p) /\ LatePosition(p) /\ EarlyPosition(p)' /\ Shape
  BY StepPosition DEF AccessInv
<1>3. broker'[p] # "none" => broker[p] # "none" \/ pc[p] = "open"
  BY <1>2 DEF HandleNext, Step, Handle, CheckIdentity, EvaluatePolicy, GetTarget, FindAccount,
     ResolveCredential, LookupRaises, StartSession, Proceed, Deny, AppendEvent, AppendRaises,
     OpenBroker, OpenBrokerRaises, Relay, CloseBroker, FailSession, FinishSession, Interrupt,
     BrokerAfterInterrupt, Kill, Shape, LocalShape, LatePosition
<1>4. relayed'[p] # "none" => relayed[p] # "none" \/ pc[p] = "relay"
  BY <1>2 DEF HandleNext, Step, Handle, CheckIdentity, EvaluatePolicy, GetTarget, FindAccount,
     ResolveCredential, LookupRaises, StartSession, Proceed, Deny, AppendEvent, AppendRaises,
     OpenBroker, OpenBrokerRaises, Relay, CloseBroker, FailSession, FinishSession, Interrupt, Kill
<1>5. broker'[p] # "none" => OpeningEvents \subseteq Logged(p)'
  BY <1>1, <1>2, <1>3 DEF AccessInv, AuditPrecedesUse, EarlyPosition, OpeningEvents
<1>6. pc'[p] = "relay" \/ relayed'[p] # "none" => "SESSION_ACTIVE" \in Logged(p)'
  BY <1>1, <1>2, <1>4 DEF AccessInv, AuditPrecedesUse, EarlyPosition, ActiveEvents
<1> QED
  BY <1>1, <1>5, <1>6 DEF AccessInv, AuditPrecedesUse, OthersUnchanged, OpeningEvents

\* Where an event is appended, the events its process has.
LEMMA EventsSoFar ==
    ASSUME NEW p \in Procs, EarlyPosition(p), LatePosition(p), pc[p] \in AppendPcs
    PROVE  LET e == EventAt(p) IN
           /\ e.type = "ACCESS_DENIED" => Logged(p) = {}
           /\ e.type = "ACCESS_ALLOWED" => Logged(p) = {}
           /\ e.type = "SESSION_OPENING" => Logged(p) = {"ACCESS_ALLOWED"}
           /\ e.type = "SESSION_ACTIVE" => Logged(p) = OpeningEvents
           /\ e.type = "SESSION_CLOSED" => Logged(p) = ActiveEvents
           /\ e.type = "SESSION_FAILED" => Logged(p) \in {OpeningEvents, ActiveEvents}
<1>1. pc[p] \in {"deny", "allowed", "opening", "activate", "record"}
  BY DEF AppendPcs
<1> QED
  BY <1>1, EventAtShape DEF EarlyPosition, LatePosition, BeforeSession

\* Each trail stays legal.
LEMMA StepTrail ==
    ASSUME NEW p \in Procs, AccessInv, HandleNext(p)
    PROVE  TrailIsLegal'
<1>1. CASE log' = log
  BY <1>1 DEF AccessInv, TrailIsLegal, Logged
<1>2. CASE pc[p] \in AppendPcs /\ log' = Append(log, EventAt(p))
  <2> DEFINE e == EventAt(p)
             n == Len(log) + 1
  <2>1. PICK S : log \in Seq(S)
    BY DEF AccessInv, Shape, LocalShape
  <2>2. /\ DOMAIN log' = DOMAIN log \cup {n}
        /\ \A i \in DOMAIN log : log'[i] = log[i] /\ i < n /\ i \in Nat
        /\ log'[n] = e /\ n \in Nat
    BY <1>2, <2>1, LogGrows
  <2>3. e.proc = p /\ e.type \in EventTypes
    BY <1>2, EventAtShape
  <2>4. \A i \in DOMAIN log : log[i].proc = p => log[i].type \in Logged(p)
    BY DEF Logged
  <2>5. \A i \in DOMAIN log :
           log[i].proc = p =>
              /\ log[i].type # "ACCESS_DENIED" /\ e.type # "ACCESS_DENIED"
              /\ Rank[log[i].type] < Rank[e.type]
    BY <1>2, <2>3, <2>4, EventsSoFar DEF AccessInv, EventTypes, Rank, OpeningEvents, ActiveEvents
  <2>6. \A i, j \in DOMAIN log' :
           i < j /\ log'[i].proc = log'[j].proc =>
              /\ log'[i].type # "ACCESS_DENIED" /\ log'[j].type # "ACCESS_DENIED"
              /\ Rank[log'[i].type] < Rank[log'[j].type]
    <3> SUFFICES ASSUME NEW i \in DOMAIN log', NEW j \in DOMAIN log', i < j,
                        log'[i].proc = log'[j].proc
                 PROVE  /\ log'[i].type # "ACCESS_DENIED" /\ log'[j].type # "ACCESS_DENIED"
                        /\ Rank[log'[i].type] < Rank[log'[j].type]
      OBVIOUS
    <3>1. i \in DOMAIN log
      BY <2>2
    <3>2. CASE j \in DOMAIN log
      BY <2>2, <3>1, <3>2 DEF AccessInv, TrailIsLegal
    <3>3. CASE j = n
      BY <2>2, <2>3, <2>5, <3>1, <3>3
    <3> QED
      BY <2>2, <3>2, <3>3
  <2>7. Logged(p)' = Logged(p) \cup {e.type} /\ \A q \in Procs \ {p} : Logged(q)' = Logged(q)
    BY <1>2, LoggedGrows DEF AccessInv
  <2>8. /\ "SESSION_OPENING" \in Logged(p)' => "ACCESS_ALLOWED" \in Logged(p)'
        /\ Logged(p)' \cap {"SESSION_ACTIVE", "SESSION_FAILED"} # {}
              => "SESSION_OPENING" \in Logged(p)'
        /\ "SESSION_CLOSED" \in Logged(p)' => "SESSION_ACTIVE" \in Logged(p)'
    BY <1>2, <2>3, <2>7, EventsSoFar DEF AccessInv, EventTypes, OpeningEvents, ActiveEvents
  <2> QED
    BY <2>6, <2>7, <2>8 DEF AccessInv, TrailIsLegal
<1> QED
  BY <1>1, <1>2, StepShape DEF AccessInv, LogStep

\* The decision is known from the target lookup on.
LEMMA StepDecision ==
    ASSUME NEW p \in Procs, AccessInv, HandleNext(p)
    PROVE  DecisionInv'
<1>1. OthersUnchanged(p) /\ Shape
  BY StepShape DEF AccessInv
<1>2. /\ pc'[p] = "deny" => decision'[p].effect # "allow"
      /\ pc'[p] \in {"target", "account", "vault", "start", "allowed", "opening", "open",
                     "activate", "relay", "close", "finish", "fail", "record"} =>
            decision'[p].effect = "allow"
  <2> USE <1>1 DEF AccessInv, DecisionInv, Shape, LocalShape, Goto, Decision
  <2>1. CASE EvaluatePolicy(p)
    BY <2>1, EvaluateDecides DEF EvaluatePolicy
  <2>2. CASE Handle(p) \/ CheckIdentity(p) \/ GetTarget(p) \/ LookupRaises(p)
    BY <2>2 DEF Handle, CheckIdentity, GetTarget, LookupRaises, Proceed, Deny
  <2>3. CASE FindAccount(p) \/ ResolveCredential(p)
    BY <2>3 DEF FindAccount, ResolveCredential, Proceed, Deny
  <2>4. CASE AppendEvent(p)
    BY <2>4 DEF AppendEvent, AfterAppend, AppendPcs
  <2>5. CASE CloseBroker(p)
    BY <2>5 DEF CloseBroker, AfterClose
  <2>6. CASE \/ StartSession(p) \/ AppendRaises(p) \/ OpenBroker(p) \/ OpenBrokerRaises(p)
             \/ Relay(p) \/ FailSession(p) \/ FinishSession(p) \/ Interrupt(p) \/ Kill(p)
    BY <2>6 DEF StartSession, AppendRaises, OpenBroker, OpenBrokerRaises, Relay, FailSession,
       FinishSession, Interrupt, Kill
  <2> QED
    BY <2>1, <2>2, <2>3, <2>4, <2>5, <2>6 DEF HandleNext, Step
<1> QED
  BY <1>1, <1>2 DEF AccessInv, DecisionInv, OthersUnchanged

\* A result that was returned stays recorded, and a new one is.
LEMMA StepRecorded ==
    ASSUME NEW p \in Procs, AccessInv, HandleNext(p)
    PROVE  ResultIsRecorded'
<1>1. OthersUnchanged(p) /\ LogStep(p) /\ \A q \in Procs : Logged(q) \subseteq Logged(q)'
  BY StepShape, LoggedMonotone DEF AccessInv
<1>2. \A i \in DOMAIN log : i \in DOMAIN log' /\ log'[i] = log[i]
  <2>1. PICK S : log \in Seq(S)
    BY DEF AccessInv, Shape, LocalShape
  <2> QED
    BY <1>1, <2>1, LogGrows DEF LogStep
<1>3. ASSUME NEW q \in Procs \ {p}, pc'[q] = "returned"
      PROVE  IF decision'[q].effect = "allow"
               THEN /\ session'[q].status \in Terminal
                    /\ \E i \in DOMAIN log' : log'[i] = TerminalEvent(q)'
               ELSE session'[q] = NoSession /\ "ACCESS_DENIED" \in Logged(q)'
  BY <1>1, <1>2, <1>3 DEF AccessInv, ResultIsRecorded, OthersUnchanged, TerminalEvent
<1>4. ASSUME pc'[p] = "returned"
      PROVE  IF decision'[p].effect = "allow"
               THEN /\ session'[p].status \in Terminal
                    /\ \E i \in DOMAIN log' : log'[i] = TerminalEvent(p)'
               ELSE session'[p] = NoSession /\ "ACCESS_DENIED" \in Logged(p)'
  <2>1. AppendEvent(p) /\ pc[p] \in {"deny", "record"}
    BY <1>4 DEF HandleNext, Step, Handle, CheckIdentity, EvaluatePolicy, GetTarget, FindAccount,
       ResolveCredential, LookupRaises, StartSession, Proceed, Deny, AppendEvent, AfterAppend,
       AppendPcs, AppendRaises, OpenBroker, OpenBrokerRaises, Relay, CloseBroker, AfterClose,
       FailSession, FinishSession, Interrupt, Kill, Goto, AccessInv, Shape, LocalShape
  <2>2. /\ pc[p] \in AppendPcs /\ log' = Append(log, EventAt(p))
        /\ session' = session /\ decision' = decision
    BY <2>1 DEF AppendEvent
  <2>3. PICK S : log \in Seq(S)
    BY DEF AccessInv, Shape, LocalShape
  <2>4. Len(log) + 1 \in DOMAIN log' /\ log'[Len(log) + 1] = EventAt(p)
    BY <2>2, <2>3, LogGrows
  <2>5. CASE pc[p] = "deny"
    <3>1. decision'[p].effect # "allow" /\ session'[p] = NoSession
      BY <2>2, <2>5 DEF AccessInv, DecisionInv, EarlyPosition, BeforeSession
    <3>2. "ACCESS_DENIED" \in Logged(p)'
      BY <2>2, <2>5, LoggedGrows, EventAtShape DEF AccessInv
    <3> QED
      BY <3>1, <3>2
  <2>6. CASE pc[p] = "record"
    <3>1. decision'[p].effect = "allow" /\ session'[p].status \in Terminal
      BY <2>2, <2>6 DEF AccessInv, DecisionInv, LatePosition
    <3>2. EventAt(p) = TerminalEvent(p)'
      BY <2>2, <2>6, EventAtShape DEF TerminalEvent
    <3> QED
      BY <2>4, <3>1, <3>2
  <2> QED
    BY <2>1, <2>5, <2>6
<1> QED
  BY <1>3, <1>4 DEF ResultIsRecorded

\* The invariant holds initially.
LEMMA InitAccessInv == Init => AccessInv
<1> SUFFICES ASSUME Init PROVE AccessInv
  OBVIOUS
<1>1. log = << >> /\ \A p \in Procs : Logged(p) = {}
  BY DEF Init, Logged
<1>2. \E S : log \in Seq(S)
  <2>1. log \in Seq({})
    BY <1>1
  <2> QED
    BY <2>1
<1>3. Shape
  BY <1>1, <1>2 DEF Init, Shape, LocalShape, PcValues, AnswerRecords, NothingSeen, Decision, NoSession, NoTime,
     SessionRecords, Reasons, RelayEnds
<1>4. \A p \in Procs : EarlyPosition(p) /\ LatePosition(p)
  BY <1>1 DEF Init, EarlyPosition, LatePosition, BeforeSession, Handling, AppendPcs
<1>5. DecisionInv /\ NoStrandedSession /\ CleanupIsHonest /\ ResultIsRecorded
  BY <1>1 DEF Init, DecisionInv, NoStrandedSession, CleanupIsHonest, ResultIsRecorded, NoSession,
     Terminal
<1>6. AuditPrecedesUse /\ TrailIsLegal
  BY <1>1 DEF Init, AuditPrecedesUse, TrailIsLegal
<1> QED
  BY <1>3, <1>4, <1>5, <1>6 DEF AccessInv

\* The invariant is inductive.
LEMMA StepAccessInv == AccessInv /\ [Next]_vars => AccessInv'
<1>1. ASSUME AccessInv, UNCHANGED vars PROVE AccessInv'
  <2>1. \A q \in Procs : Logged(q)' = Logged(q) /\ TerminalEvent(q)' = TerminalEvent(q)
    BY <1>1 DEF vars, Logged, TerminalEvent
  <2>2. Shape' /\ DecisionInv' /\ NoStrandedSession' /\ CleanupIsHonest'
    BY <1>1, <2>1 DEF AccessInv, vars, Shape, LocalShape, DecisionInv, NoStrandedSession, CleanupIsHonest
  <2>3. \A q \in Procs : EarlyPosition(q)' /\ LatePosition(q)'
    BY <1>1, <2>1 DEF AccessInv, vars, EarlyPosition, LatePosition
  <2>4. AuditPrecedesUse' /\ ResultIsRecorded'
    BY <1>1, <2>1 DEF AccessInv, vars, AuditPrecedesUse, ResultIsRecorded
  <2>5. TrailIsLegal'
    BY <1>1, <2>1 DEF AccessInv, vars, TrailIsLegal
  <2> QED
    BY <2>2, <2>3, <2>4, <2>5 DEF AccessInv
<1>2. ASSUME AccessInv, NEW p \in Procs, HandleNext(p) PROVE AccessInv'
  <2>1. Shape' /\ \A q \in Procs : EarlyPosition(q)' /\ LatePosition(q)'
    BY <1>2, StepShape, StepPosition DEF AccessInv
  <2> QED
    BY <1>2, <2>1, StepDecision, StepStranded, StepCleanup, StepPrecedes, StepTrail, StepRecorded
       DEF AccessInv
<1> QED
  BY <1>1, <1>2 DEF Next

\* The invariant holds of every reachable state.
LEMMA AccessInvHolds == Spec => []AccessInv
BY InitAccessInv, StepAccessInv, PTL DEF Spec

(***************************************************************************)
(* Whatever handle meets, no session stays opening or active when it       *)
(* returns or raises, and none ends before it started.                     *)
(***************************************************************************)
THEOREM SessionsAlwaysEnd == Spec => []NoStrandedSession
BY AccessInvHolds, PTL DEF AccessInv

(***************************************************************************)
(* A handle that returned or raised, or logged an end, has called the      *)
(* close of what it opened and seen it end; KeyboardInterrupt strands a    *)
(* connection only without a logged end; and "closed" is said only of a    *)
(* closed one.                                                             *)
(***************************************************************************)
THEOREM CleanupAlwaysHonest == Spec => []CleanupIsHonest
BY AccessInvHolds, PTL DEF AccessInv

(***************************************************************************)
(* No connection before ACCESS_ALLOWED and SESSION_OPENING are logged, no  *)
(* relayed byte before SESSION_ACTIVE is.                                  *)
(***************************************************************************)
THEOREM AuditAlwaysFirst == Spec => []AuditPrecedesUse
BY AccessInvHolds, PTL DEF AccessInv

(***************************************************************************)
(* The trail of every request in the shared log is legal, for any number   *)
(* of processes.                                                           *)
(***************************************************************************)
THEOREM TrailsAreLegal == Spec => []TrailIsLegal
BY AccessInvHolds, PTL DEF AccessInv

(***************************************************************************)
(* What handle returns is what the log records.                            *)
(***************************************************************************)
THEOREM ResultsAreRecorded == Spec => []ResultIsRecorded
BY AccessInvHolds, PTL DEF AccessInv

\* Every reachable state of AccessService is well typed.
THEOREM AccessTypeCorrect == Spec => []TypeOK
<1>1. AccessInv => TypeOK
  BY DEF AccessInv, Shape, LocalShape, TypeOK, SessionRecords
<1> QED
  BY <1>1, AccessInvHolds, PTL

(***************************************************************************)
(* A session moves along its life cycle only: the step lemma gives it for  *)
(* the process that moves, and the others do not.                          *)
(***************************************************************************)
THEOREM LifeCycleIsKept == Spec => SessionLifeCycle
<1>1. ASSUME AccessInv, [Next]_vars
      PROVE  [\A p \in Procs :
                session'[p] # session[p] =>
                    <<session[p].status, session'[p].status>> \in
                        {<<"none", "opening">>, <<"opening", "active">>, <<"opening", "failed">>,
                         <<"active", "closed">>, <<"active", "failed">>}]_session
  <2>1. CASE UNCHANGED vars
    BY <2>1 DEF vars
  <2>2. ASSUME NEW p \in Procs, HandleNext(p), NEW q \in Procs, session'[q] # session[q]
        PROVE  <<session[q].status, session'[q].status>> \in
                  {<<"none", "opening">>, <<"opening", "active">>, <<"opening", "failed">>,
                   <<"active", "closed">>, <<"active", "failed">>}
    <3>1. q = p
      BY <1>1, <2>2, StepShape DEF AccessInv, OthersUnchanged
    <3>2. SessionMoves(q)
      BY <1>1, <2>2, <3>1, StepSession DEF AccessInv
    <3> QED
      BY <2>2, <3>2 DEF SessionMoves
  <2> QED
    BY <1>1, <2>1, <2>2 DEF Next
<1> QED
  BY <1>1, AccessInvHolds, PTL DEF Spec, SessionLifeCycle

-----------------------------------------------------------------------------
(***************************************************************************)
(* Grants.  The position in handle fixes what the lookups have answered.   *)
(***************************************************************************)
Asked(p) ==
    /\ pc[p] \in {"idle", "identity"} => seen[p] = NothingSeen
    /\ pc[p] \in {"policy", "target", "account", "vault"} => seen[p].credential = "none"
    /\ pc[p] \in {"policy", "target", "account"} => seen[p].account = "none"
    /\ pc[p] = "policy" => seen[p].identity = "match"
    /\ pc[p] \in {"target", "account", "vault"} =>
          seen[p].identity = "match" /\ PolicyAllows(seen[p].policies)
    /\ pc[p] \in {"account", "vault"} => seen[p].target = "enabled"
    /\ pc[p] = "vault" => seen[p].account = "enabled"
    /\ pc[p] \in {"start", "allowed", "opening", "open"} => seen[p].credential = "present"

Justified(p) ==
    /\ seen[p].credential # "none" =>
          /\ seen[p].identity = "match"
          /\ PolicyAllows(seen[p].policies)
          /\ seen[p].target = "enabled"
          /\ seen[p].account = "enabled"
    /\ broker[p] # "none" => seen[p].credential = "present"
    /\ seen[p].credential = "present" => decision[p].effect = "allow"

GrantInv == \A p \in Procs : Asked(p) /\ Justified(p)

\* A step of one process keeps what it knows justified.
LEMMA StepGrant ==
    ASSUME NEW p \in Procs, AccessInv, Asked(p), Justified(p), HandleNext(p)
    PROVE  Asked(p)' /\ Justified(p)'
<1>1. seen[p] \in AnswerRecords /\ p \in DOMAIN seen /\ Shape
  BY DEF AccessInv, Shape, LocalShape
<1> USE <1>1 DEF Asked, Justified, Goto, Proceed, Deny, Shape, LocalShape
<1>2. CASE Handle(p) \/ LookupRaises(p)
  BY <1>2 DEF Handle, LookupRaises, NothingSeen
<1>3. CASE CheckIdentity(p)
  BY <1>3 DEF CheckIdentity, NothingSeen, AnswerRecords
<1>4. CASE EvaluatePolicy(p)
  BY <1>4, EvaluateDecides DEF EvaluatePolicy, AnswerRecords
<1>5. CASE GetTarget(p)
  <2>1. PICK x \in {"absent", "disabled", "enabled"} :
           /\ seen' = [seen EXCEPT ![p].target = x]
           /\ pc'[p] = IF x = "enabled" THEN "account" ELSE "deny"
    BY <1>5 DEF GetTarget
  <2>2. /\ seen'[p].target = x
        /\ seen'[p].identity = seen[p].identity /\ seen'[p].policies = seen[p].policies
        /\ seen'[p].account = seen[p].account /\ seen'[p].credential = seen[p].credential
    BY <2>1 DEF AnswerRecords
  <2>3. broker' = broker
    BY <1>5 DEF GetTarget
  <2> QED
    BY <1>5, <2>1, <2>2, <2>3 DEF GetTarget
<1>6. CASE FindAccount(p)
  <2>1. PICK x \in {"absent", "disabled", "mismatch", "enabled"} :
           /\ seen' = [seen EXCEPT ![p].account = x]
           /\ pc'[p] = IF x = "enabled" THEN "vault" ELSE "deny"
    BY <1>6 DEF FindAccount
  <2>2. /\ seen'[p].account = x
        /\ seen'[p].identity = seen[p].identity /\ seen'[p].policies = seen[p].policies
        /\ seen'[p].target = seen[p].target /\ seen'[p].credential = seen[p].credential
    BY <2>1 DEF AnswerRecords
  <2>3. broker' = broker
    BY <1>6 DEF FindAccount
  <2> QED
    BY <1>6, <2>1, <2>2, <2>3 DEF FindAccount
<1>7. CASE ResolveCredential(p)
  <2>1. PICK x \in {"absent", "present"} :
           /\ seen' = [seen EXCEPT ![p].credential = x]
           /\ pc'[p] = IF x = "present" THEN "start" ELSE "deny"
           /\ x = "present" => decision' = decision
    BY <1>7 DEF ResolveCredential
  <2>2. /\ seen'[p].credential = x
        /\ seen'[p].identity = seen[p].identity /\ seen'[p].policies = seen[p].policies
        /\ seen'[p].target = seen[p].target /\ seen'[p].account = seen[p].account
    BY <2>1 DEF AnswerRecords
  <2>3. pc[p] = "vault" /\ broker' = broker
    BY <1>7 DEF ResolveCredential
  <2>4. decision[p].effect = "allow"
    BY <2>3 DEF AccessInv, DecisionInv
  <2> QED
    BY <2>1, <2>2, <2>3, <2>4
<1>8. CASE \/ StartSession(p) \/ AppendEvent(p) \/ AppendRaises(p) \/ OpenBroker(p)
           \/ OpenBrokerRaises(p) \/ Relay(p) \/ CloseBroker(p) \/ FailSession(p)
           \/ FinishSession(p) \/ Interrupt(p) \/ Kill(p)
  <2>1. /\ seen' = seen /\ decision' = decision
        /\ broker'[p] # "none" => broker[p] # "none" \/ pc[p] = "open"
    BY <1>8 DEF AccessInv, LatePosition, StartSession, AppendEvent, AppendRaises, OpenBroker,
       OpenBrokerRaises, Relay, CloseBroker, FailSession, FinishSession, Interrupt,
       BrokerAfterInterrupt, Kill
  <2>2. pc'[p] \in {"allowed", "opening", "open"} => pc[p] \in {"start", "allowed", "opening"}
    BY <1>8 DEF StartSession, AppendEvent, AfterAppend, AppendPcs, AppendRaises, OpenBroker,
       OpenBrokerRaises, Relay, CloseBroker, AfterClose, FailSession, FinishSession, Interrupt, Kill
  <2>3. pc'[p] \notin {"idle", "identity", "policy", "target", "account", "vault", "start"}
    BY <1>8 DEF StartSession, AppendEvent, AfterAppend, AppendPcs, AppendRaises, OpenBroker,
       OpenBrokerRaises, Relay, CloseBroker, AfterClose, FailSession, FinishSession, Interrupt, Kill
  <2> QED
    BY <2>1, <2>2, <2>3
<1> QED
  BY <1>2, <1>3, <1>4, <1>5, <1>6, <1>7, <1>8 DEF HandleNext, Step

LEMMA GrantInvHolds == Spec => []GrantInv
<1>1. Init => GrantInv
  BY DEF Init, GrantInv, Asked, Justified, NothingSeen
<1>2. AccessInv /\ GrantInv /\ [Next]_vars => GrantInv'
  <2>1. ASSUME GrantInv, UNCHANGED vars PROVE GrantInv'
    BY <2>1 DEF GrantInv, Asked, Justified, vars
  <2>2. ASSUME AccessInv, GrantInv, NEW p \in Procs, HandleNext(p) PROVE GrantInv'
    <3>1. Asked(p)' /\ Justified(p)'
      BY <2>2, StepGrant DEF GrantInv
    <3>2. ASSUME NEW q \in Procs \ {p} PROVE Asked(q)' /\ Justified(q)'
      BY <2>2, <3>2, StepShape DEF AccessInv, GrantInv, OthersUnchanged, Asked, Justified
    <3> QED
      BY <3>1, <3>2 DEF GrantInv
  <2> QED
    BY <2>1, <2>2 DEF Next
<1> QED
  BY <1>1, <1>2, AccessInvHolds, PTL DEF Spec

(***************************************************************************)
(* The vault is asked and the broker used only for a justified grant,      *)
(* whatever list of policies the repository returns.                       *)
(***************************************************************************)
THEOREM GrantsAreJustified == Spec => []GrantIsJustified
<1>1. GrantInv => GrantIsJustified
  BY DEF GrantInv, Justified, GrantIsJustified
<1> QED
  BY <1>1, GrantInvHolds, PTL

-----------------------------------------------------------------------------
(***************************************************************************)
(* AccessService as the user of the port of its session broker.            *)
(***************************************************************************)

\* A step of p on its broker is a call of the port or none at all.
LEMMA StepUses ==
    ASSUME AccessInv, NEW p \in Procs, HandleNext(p)
    PROVE  Calls(p) \/ UNCHANGED <<Conn(p), Said(p)>>
<1> USE DEF AccessInv, Shape, LocalShape
<1>1. CASE UNCHANGED <<broker, relayed>>
  BY <1>1 DEF Conn, Said
<1>2. CASE OpenBroker(p)
  <2>1. broker[p] = "none" /\ broker'[p] = "open" /\ relayed'[p] = relayed[p]
    BY <1>2 DEF OpenBroker, EarlyPosition
  <2>2. Port(p)!Open
    BY <2>1 DEF Port!Open, Conn, Said
  <2> QED
    BY <2>2 DEF Calls
<1>3. CASE Relay(p) \/ (Interrupt(p) /\ pc[p] = "relay")
  <2>1. /\ broker[p] = "open" /\ broker'[p] = "open" /\ relayed[p] = "none"
        /\ relayed'[p] \in RelayEnds \ {"none"}
    BY <1>3 DEF Relay, Interrupt, BrokerAfterInterrupt, EarlyPosition, RelayEnds
  <2>2. PICK answer \in {"returned", "raised"} :
            answer = IF relayed'[p] \in {"failed", "interrupted"} THEN "raised" ELSE "returned"
    OBVIOUS
  <2>3. Said(p).relay = "none" /\ Said(p)' = [Said(p) EXCEPT !["relay"] = answer]
    BY <2>1, <2>2 DEF Said, RelayEnds
  <2>4. Port(p)!Relay
    BY <2>1, <2>3 DEF Port!Relay, Port!Says, Conn
  <2> QED
    BY <2>1, <2>3, <2>4 DEF Calls, Conn
<1>4. CASE CloseBroker(p) \/ (Interrupt(p) /\ pc[p] = "close")
  <2>1. /\ broker[p] = "open" /\ broker'[p] \in {"closed", "close_failed", "stranded"}
        /\ relayed' = relayed
    BY <1>4 DEF CloseBroker, Interrupt, BrokerAfterInterrupt, LatePosition
  <2>2. Said(p).close = "none" /\ Said(p)'.relay = Said(p).relay
    BY <2>1 DEF Said
  <2>3. CASE broker'[p] = "closed"
    <3>1. Said(p)' = [Said(p) EXCEPT !["close"] = "returned"]
      BY <2>1, <2>3 DEF Said
    <3>2. Port(p)!CloseReturns
      BY <2>1, <2>2, <2>3, <3>1 DEF Port!CloseReturns, Port!Says, Conn
    <3> QED
      BY <3>2 DEF Calls
  <2>4. CASE broker'[p] = "close_failed"
    <3>1. Said(p)' = [Said(p) EXCEPT !["close"] = "raised"]
      BY <2>1, <2>4 DEF Said
    <3>2. Port(p)!CloseRaises
      BY <2>1, <2>2, <2>4, <3>1 DEF Port!CloseRaises, Port!Says, Conn
    <3> QED
      BY <3>2 DEF Calls
  <2>5. CASE broker'[p] = "stranded"
    <3>1. Port(p)!CloseInterrupted
      BY <2>1, <2>5 DEF Port!CloseInterrupted, Conn, Said
    <3> QED
      BY <3>1 DEF Calls
  <2> QED
    BY <2>1, <2>3, <2>4, <2>5
<1>5. CASE Interrupt(p) /\ pc[p] \notin {"relay", "close"}
  <2>1. \/ broker'[p] = broker[p] /\ relayed' = relayed
        \/ broker[p] = "none" /\ broker'[p] = "stranded" /\ relayed' = relayed
    BY <1>5 DEF Interrupt, BrokerAfterInterrupt, EarlyPosition
  <2>2. Port(p)!OpenInterrupted \/ UNCHANGED <<Conn(p), Said(p)>>
    BY <2>1 DEF Port!OpenInterrupted, Conn, Said
  <2> QED
    BY <2>2 DEF Calls
<1>6. CASE Kill(p)
  <2>1. relayed' = relayed /\ broker'[p] = IF broker[p] = "open" THEN "dropped" ELSE broker[p]
    BY <1>6 DEF Kill
  <2>2. Port(p)!Vanish \/ UNCHANGED <<Conn(p), Said(p)>>
    BY <2>1 DEF Port!Vanish, Conn, Said
  <2> QED
    BY <2>2 DEF Calls
<1> QED
  BY <1>1, <1>2, <1>3, <1>4, <1>5, <1>6
     DEF HandleNext, Handle, Step, CheckIdentity, EvaluatePolicy, GetTarget, FindAccount,
         ResolveCredential, LookupRaises, StartSession, AppendEvent, AppendRaises,
         OpenBrokerRaises, FailSession, FinishSession, Deny, Proceed

\* The position in handle fixes what the port has been asked.
LEMMA PositionUses == AccessInv => \A p \in Procs : CallsInOrder(p)
BY DEF AccessInv, CallsInOrder, Conn, Said, EarlyPosition, LatePosition, CleanupIsHonest, Settled

(***************************************************************************)
(* handle calls its broker as UsesBroker says, in every process and        *)
(* whatever fails, is interrupted or killed: open_session once, relay at   *)
(* most once and on the open connection, close once, nothing after it, and *)
(* no return or exception with the connection open.                        *)
(***************************************************************************)
THEOREM PortIsRespected == Spec => UsesBroker
<1>1. Init => \A p \in Procs : Port(p)!Init
  BY DEF Init, Port!Init, Conn, Said
<1>2. AccessInv /\ [Next]_vars =>
         [\A p \in Procs : Calls(p) \/ UNCHANGED <<Conn(p), Said(p)>>]_vars
  <2> SUFFICES ASSUME AccessInv, NEW q \in Procs, HandleNext(q), NEW p \in Procs
               PROVE  Calls(p) \/ UNCHANGED <<Conn(p), Said(p)>>
    BY DEF Next
  <2>1. CASE p = q
    BY <2>1, StepUses
  <2>2. CASE p # q
    <3>1. OthersUnchanged(q)
      BY StepShape DEF AccessInv
    <3> QED
      BY <2>2, <3>1 DEF OthersUnchanged, Conn, Said
  <2> QED
    BY <2>1, <2>2
<1>3. Spec => [][\A p \in Procs : Calls(p) \/ UNCHANGED <<Conn(p), Said(p)>>]_vars
  BY <1>2, AccessInvHolds, PTL DEF Spec
<1>4. Spec => [](\A p \in Procs : CallsInOrder(p))
  BY AccessInvHolds, PositionUses, PTL
<1> QED
  BY <1>1, <1>3, <1>4, PTL DEF Spec, UsesBroker

=============================================================================
