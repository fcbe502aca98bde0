---------------------------- MODULE AccessService ----------------------------
(***************************************************************************)
(* AccessService.handle (src/application/access_service.py) with the       *)
(* Session life cycle it drives (src/domain/session.py), run by several    *)
(* processes that share one audit log.                                     *)
(*                                                                         *)
(* Every dependency answers through its port: what the repositories, the   *)
(* vault, the clock and the broker answer is a choice, an exception among  *)
(* the choices.  The audit log is the one AuditLog specifies: an append    *)
(* adds its event, or raises and adds nothing.  KeyboardInterrupt, which   *)
(* no "except Exception" of handle catches, may arrive at every step, and  *)
(* the process may be killed.                                              *)
(***************************************************************************)
EXTENDS PolicyEvaluator

CONSTANTS
    Procs,          \* processes, each handling one request
    PolicyLists,    \* answers of find_matching: sequences of policies
    Times           \* readings of the wall clock (Clock.now)

ASSUME TimesAssumption == Times \subseteq Nat \ {0}
ASSUME PoliciesAssumption ==
    \A policies \in PolicyLists : \A i \in DOMAIN policies : policies[i].effect \in Effects

VARIABLES
    pc,         \* position of each process in handle
    seen,       \* history: what the dependencies answered it
    decision,   \* its AccessDecision
    session,    \* its Session
    broker,     \* its brokered session
    relayed,    \* how its relay ended
    unwinding,  \* what is propagating while the finally block runs
    log         \* the audit log

vars == <<pc, seen, decision, session, broker, relayed, unwinding, log>>

-----------------------------------------------------------------------------
(***************************************************************************)
(* Session.                                                                *)
(***************************************************************************)
NoTime == 0
Terminal == {"closed", "failed"}
Reasons == {"none", "audit_persistence_failed", "broker_open_failed", "relay_failed",
            "broker_close_failed", "relay_completed", "max_duration_exceeded"}

NoSession == [status |-> "none", started |-> NoTime, ended |-> NoTime, reason |-> "none"]
Opening(t) == [NoSession EXCEPT !.status = "opening", !.started = t]

\* Variant: the clock's reading as it is.
terminal_timestamp_NoClamp(s, now) == now

\* The clamp of _terminal_timestamp.
terminal_timestamp(s, now) == IF now >= s.started THEN now ELSE s.started

\* mark_failed and mark_closed raise ValueError when this does not hold.
MayFail(s, t) == s.status \in {"opening", "active"} /\ t >= s.started
MayClose(s, t) == s.status = "active" /\ t >= s.started

Ended(s, status, t, reason) ==
    [s EXCEPT !.status = status, !.ended = t, !.reason = reason]

-----------------------------------------------------------------------------
(***************************************************************************)
(* Audit events.  The timestamp is kept for terminal events only: they     *)
(* carry the session's ended_at.                                           *)
(***************************************************************************)
Event(p, type, reason, at) == [proc |-> p, type |-> type, reason |-> reason, at |-> at]

TerminalEvent(p) ==
    Event(p, IF session[p].status = "closed" THEN "SESSION_CLOSED" ELSE "SESSION_FAILED",
          session[p].reason, session[p].ended)

\* The positions in handle at which an event is appended, and the event.
AppendPcs == {"deny", "allowed", "opening", "activate", "record"}

EventAt(p) ==
    CASE pc[p] = "deny" -> Event(p, "ACCESS_DENIED", decision[p].reason, NoTime)
      [] pc[p] = "allowed" -> Event(p, "ACCESS_ALLOWED", decision[p].reason, NoTime)
      [] pc[p] = "opening" -> Event(p, "SESSION_OPENING", "none", NoTime)
      [] pc[p] = "activate" -> Event(p, "SESSION_ACTIVE", "none", NoTime)
      [] pc[p] = "record" -> TerminalEvent(p)

Handling == {"identity", "policy", "target", "account", "vault", "start", "open",
             "relay", "close", "finish", "fail"} \cup AppendPcs
Finished == {"returned", "raised", "interrupted"}

NothingSeen == [identity |-> "none", policies |-> << >>, target |-> "none",
                account |-> "none", credential |-> "none"]

Init ==
    /\ pc = [p \in Procs |-> "idle"]
    /\ seen = [p \in Procs |-> NothingSeen]
    /\ decision = [p \in Procs |-> Decision("none", "none")]
    /\ session = [p \in Procs |-> NoSession]
    /\ broker = [p \in Procs |-> "none"]
    /\ relayed = [p \in Procs |-> "none"]
    /\ unwinding = [p \in Procs |-> "none"]
    /\ log = << >>

Goto(p, label) == pc' = [pc EXCEPT ![p] = label]

-----------------------------------------------------------------------------
(***************************************************************************)
(* Up to the session.                                                      *)
(***************************************************************************)
Handle(p) ==
    /\ pc[p] = "idle"
    /\ Goto(p, "identity")
    /\ UNCHANGED <<seen, decision, session, broker, relayed, unwinding, log>>

Deny(p, reason) ==
    /\ decision' = [decision EXCEPT ![p] = Decision("deny", reason)]
    /\ Goto(p, "deny")
    /\ UNCHANGED <<session, broker, relayed, unwinding, log>>

Proceed(p, label) ==
    /\ Goto(p, label)
    /\ UNCHANGED <<decision, session, broker, relayed, unwinding, log>>

CheckIdentity(p) ==
    /\ pc[p] = "identity"
    /\ \E x \in {"match", "mismatch"} :
          /\ seen' = [seen EXCEPT ![p].identity = x]
          /\ IF x = "match" THEN Proceed(p, "policy")
                            ELSE Deny(p, "authenticated_identity_mismatch")

EvaluatePolicy(p) ==
    /\ pc[p] = "policy"
    /\ \E policies \in PolicyLists :
          /\ seen' = [seen EXCEPT ![p].policies = policies]
          /\ decision' = [decision EXCEPT ![p] = evaluate(policies)]
          /\ Goto(p, IF evaluate(policies).effect = "allow" THEN "target" ELSE "deny")
    /\ UNCHANGED <<session, broker, relayed, unwinding, log>>

GetTarget(p) ==
    /\ pc[p] = "target"
    /\ \E x \in {"absent", "disabled", "enabled"} :
          /\ seen' = [seen EXCEPT ![p].target = x]
          /\ CASE x = "absent" -> Deny(p, "target_not_found")
               [] x = "disabled" -> Deny(p, "target_disabled")
               [] x = "enabled" -> Proceed(p, "account")

FindAccount(p) ==
    /\ pc[p] = "account"
    /\ \E x \in {"absent", "disabled", "mismatch", "enabled"} :
          /\ seen' = [seen EXCEPT ![p].account = x]
          /\ CASE x = "absent" -> Deny(p, "account_not_found")
               [] x = "disabled" -> Deny(p, "privileged_account_disabled")
               [] x = "mismatch" -> Deny(p, "account_target_mismatch")
               [] x = "enabled" -> Proceed(p, "vault")

ResolveCredential(p) ==
    /\ pc[p] = "vault"
    /\ \E x \in {"absent", "present"} :
          /\ seen' = [seen EXCEPT ![p].credential = x]
          /\ IF x = "present" THEN Proceed(p, "start")
                              ELSE Deny(p, "credential_not_found")

\* An exception of a repository or of the vault leaves handle as it is, and so
\* does the TypeError for a principal that is no AuthenticatedPrincipal.
LookupRaises(p) ==
    /\ pc[p] \in {"identity", "policy", "target", "account", "vault"}
    /\ Proceed(p, "raised")
    /\ UNCHANGED seen

-----------------------------------------------------------------------------
(***************************************************************************)
(* The session.                                                            *)
(***************************************************************************)
StartSession(p) ==
    /\ pc[p] = "start"
    /\ \E now \in Times : session' = [session EXCEPT ![p] = Opening(now)]
    /\ Goto(p, "allowed")
    /\ UNCHANGED <<seen, decision, broker, relayed, unwinding, log>>

\* Variant: the broker is opened before SESSION_OPENING is recorded.
AfterAppend_OpenFirst ==
    [deny |-> "returned", allowed |-> "open", opening |-> "open",
     activate |-> "relay", record |-> "returned"]

\* Where handle goes once the event of this position is persisted.
AfterAppend ==
    [deny |-> "returned", allowed |-> "opening", opening |-> "open",
     activate |-> "relay", record |-> "returned"]

\* Variant: an append that succeeded may be repeated.
AppendEvent_Repeated(p) ==
    /\ pc[p] \in AppendPcs
    /\ log' = Append(log, EventAt(p))
    /\ \E label \in {pc[p], AfterAppend[pc[p]]} : Goto(p, label)
    /\ UNCHANGED <<seen, decision, session, broker, relayed, unwinding>>

AppendEvent(p) ==
    /\ pc[p] \in AppendPcs
    /\ log' = Append(log, EventAt(p))
    /\ Goto(p, AfterAppend[pc[p]])
    /\ UNCHANGED <<seen, decision, session, broker, relayed, unwinding>>

\* Variants: a failed append is ignored at the end of handle; it fails the
\* session whatever its status.
AppendRaises_Ignored(p) ==
    /\ pc[p] \in {"deny", "record"}
    /\ Goto(p, "returned")
    /\ UNCHANGED <<seen, decision, session, broker, relayed, unwinding, log>>

AppendRaises_FailsAlways(p) ==
    /\ pc[p] \in AppendPcs \ {"deny"}
    /\ \E now \in Times :
          session' = [session EXCEPT ![p] = Ended(@, "failed", terminal_timestamp(@, now),
                                                  "audit_persistence_failed")]
    /\ Goto(p, "raised")
    /\ UNCHANGED <<seen, decision, broker, relayed, unwinding, log>>

\* The append raises: an open session is failed; with a broker, it is closed
\* on the way out.
AppendRaises(p) ==
    /\ pc[p] \in AppendPcs
    /\ \E now \in Times :
          LET t == terminal_timestamp(session[p], now) IN
          session' =
            IF pc[p] \in {"allowed", "opening", "activate"} /\ MayFail(session[p], t)
              THEN [session EXCEPT ![p] =
                       Ended(@, "failed", t, "audit_persistence_failed")]
              ELSE session
    /\ IF pc[p] = "activate"
         THEN Goto(p, "close") /\ unwinding' = [unwinding EXCEPT ![p] = "exception"]
         ELSE Goto(p, "raised") /\ UNCHANGED unwinding
    /\ UNCHANGED <<seen, decision, broker, relayed, log>>

\* open_session and, when it returns, mark_active.
OpenBroker(p) ==
    /\ pc[p] = "open"
    /\ broker' = [broker EXCEPT ![p] = "open"]
    /\ session' = [session EXCEPT ![p].status = "active"]
    /\ Goto(p, "activate")
    /\ UNCHANGED <<seen, decision, relayed, unwinding, log>>

OpenBrokerRaises(p) ==
    /\ pc[p] = "open"
    /\ Goto(p, "fail")
    /\ UNCHANGED <<seen, decision, session, broker, relayed, unwinding, log>>

Relay(p) ==
    /\ pc[p] = "relay"
    /\ \E outcome \in {"completed", "max_duration_exceeded", "failed"} :
          relayed' = [relayed EXCEPT ![p] = outcome]
    /\ Goto(p, "close")
    /\ UNCHANGED <<seen, decision, session, broker, unwinding, log>>

\* Variants: the result of close is not looked at; the relay is
\* resumed when close fails.
AfterClose_Blind(p, closed) ==
    CASE unwinding[p] = "exception" -> "raised"
      [] unwinding[p] = "interrupt" -> "interrupted"
      [] unwinding[p] = "none" -> IF relayed[p] = "failed" THEN "fail" ELSE "finish"

AfterClose_Resumes(p, closed) ==
    CASE ~ closed -> "relay"
      [] unwinding[p] = "exception" -> "raised"
      [] unwinding[p] = "interrupt" -> "interrupted"
      [] OTHER -> IF relayed[p] = "failed" THEN "fail" ELSE "finish"

\* After the finally block: propagate, fail or close the session.
AfterClose(p, closed) ==
    CASE unwinding[p] = "exception" -> "raised"
      [] unwinding[p] = "interrupt" -> "interrupted"
      [] unwinding[p] = "none" ->
            IF relayed[p] = "failed" \/ ~ closed THEN "fail" ELSE "finish"

CloseBroker(p) ==
    /\ pc[p] = "close"
    /\ \E closed \in BOOLEAN :
          /\ broker' = [broker EXCEPT ![p] = IF closed THEN "closed" ELSE "close_failed"]
          /\ Goto(p, AfterClose(p, closed))
    /\ UNCHANGED <<seen, decision, session, relayed, unwinding, log>>

\* Variant: a reason that is no reason code.
FailReason_Unknown(p) == IF broker[p] = "none" THEN "broker" ELSE "relay_failed"

FailReason(p) ==
    IF broker[p] = "none" THEN "broker_open_failed"
    ELSE IF relayed[p] = "failed" THEN "relay_failed" ELSE "broker_close_failed"

\* _fail_session up to its append.
FailSession(p) ==
    /\ pc[p] = "fail"
    /\ \E now \in Times :
          LET t == terminal_timestamp(session[p], now) IN
          IF MayFail(session[p], t)
            THEN /\ session' = [session EXCEPT ![p] = Ended(@, "failed", t, FailReason(p))]
                 /\ Goto(p, "record")
            ELSE Goto(p, "raised") /\ UNCHANGED session
    /\ UNCHANGED <<seen, decision, broker, relayed, unwinding, log>>

CloseReason(p) ==
    IF relayed[p] = "max_duration_exceeded" THEN "max_duration_exceeded"
                                            ELSE "relay_completed"

\* mark_closed.
FinishSession(p) ==
    /\ pc[p] = "finish"
    /\ \E now \in Times :
          LET t == terminal_timestamp(session[p], now) IN
          IF MayClose(session[p], t)
            THEN /\ session' = [session EXCEPT ![p] = Ended(@, "closed", t, CloseReason(p))]
                 /\ Goto(p, "record")
            ELSE Goto(p, "raised") /\ UNCHANGED session
    /\ UNCHANGED <<seen, decision, broker, relayed, unwinding, log>>

-----------------------------------------------------------------------------
(***************************************************************************)
(* KeyboardInterrupt.  It may arrive before or after an append took        *)
(* effect.  Inside open_session, and inside or at the entry of close, it   *)
(* can strand a connection nobody owns any more (BrokerPort).              *)
(***************************************************************************)
BrokerAfterInterrupt(p) ==
    CASE pc[p] = "open" -> {"none", "stranded"}
      [] pc[p] = "close" -> {"closed", "close_failed", "stranded"}
      [] OTHER -> {broker[p]}

Interrupt(p) ==
    /\ pc[p] \in Handling
    /\ \/ log' = log
       \/ pc[p] \in AppendPcs /\ log' = Append(log, EventAt(p))
    /\ \E b \in BrokerAfterInterrupt(p) : broker' = [broker EXCEPT ![p] = b]
    /\ IF pc[p] \in {"activate", "relay"}
         THEN Goto(p, "close") /\ unwinding' = [unwinding EXCEPT ![p] = "interrupt"]
         ELSE Goto(p, "interrupted") /\ UNCHANGED unwinding
    /\ relayed' = IF pc[p] = "relay" THEN [relayed EXCEPT ![p] = "interrupted"] ELSE relayed
    /\ UNCHANGED <<seen, decision, session>>

\* SIGKILL or a power loss: the connection goes with the process.
Kill(p) ==
    /\ pc[p] \in Handling
    /\ Goto(p, "killed")
    /\ broker' = [broker EXCEPT ![p] = IF @ = "open" THEN "dropped" ELSE @]
    /\ UNCHANGED <<seen, decision, session, relayed, unwinding, log>>

Step(p) ==
    \/ CheckIdentity(p)
    \/ EvaluatePolicy(p)
    \/ GetTarget(p)
    \/ FindAccount(p)
    \/ ResolveCredential(p)
    \/ LookupRaises(p)
    \/ StartSession(p)
    \/ AppendEvent(p)
    \/ AppendRaises(p)
    \/ OpenBroker(p)
    \/ OpenBrokerRaises(p)
    \/ Relay(p)
    \/ CloseBroker(p)
    \/ FailSession(p)
    \/ FinishSession(p)

HandleNext(p) == Handle(p) \/ Step(p) \/ Interrupt(p) \/ Kill(p)

Next == \E p \in Procs : HandleNext(p)

Spec == Init /\ [][Next]_vars

-----------------------------------------------------------------------------
(***************************************************************************)
(* Properties.                                                             *)
(***************************************************************************)
PcValues == {"idle", "killed"} \cup Handling \cup Finished
EventTypes == {"ACCESS_DENIED", "ACCESS_ALLOWED", "SESSION_OPENING", "SESSION_ACTIVE",
               "SESSION_CLOSED", "SESSION_FAILED"}

RelayEnds == {"none", "completed", "max_duration_exceeded", "failed", "interrupted"}

\* Every variable has its type.
TypeOK ==
    /\ pc \in [Procs -> PcValues]
    /\ \A p \in Procs :
          /\ session[p].status \in {"none", "opening", "active"} \cup Terminal
          /\ session[p].started \in Nat /\ session[p].ended \in Nat
          /\ session[p].reason \in Reasons
          /\ decision[p].effect \in {"none", "allow", "deny"}
    /\ broker \in [Procs -> {"none", "open", "closed", "close_failed", "stranded", "dropped"}]
    /\ relayed \in [Procs -> RelayEnds]
    /\ unwinding \in [Procs -> {"none", "exception", "interrupt"}]
    /\ \A i \in DOMAIN log : log[i].proc \in Procs /\ log[i].type \in EventTypes

\* The types of the events process p has in the log.
Logged(p) == {log[i].type : i \in {k \in DOMAIN log : log[k].proc = p}}

\* The decision table of the policy ADR, independent of evaluate.
PolicyAllows(policies) ==
    /\ \E i \in DOMAIN policies : policies[i].effect = "allow"
    /\ \A i \in DOMAIN policies : policies[i].effect = "allow"

(***************************************************************************)
(* The vault is asked, and the broker used, only for the authenticated     *)
(* user, when some policy allows and none denies or asks for approval, for *)
(* an enabled target with an enabled account of its own; the broker only   *)
(* with a credential.                                                      *)
(***************************************************************************)
GrantIsJustified ==
    \A p \in Procs :
        /\ seen[p].credential # "none" =>
              /\ seen[p].identity = "match"
              /\ PolicyAllows(seen[p].policies)
              /\ seen[p].target = "enabled"
              /\ seen[p].account = "enabled"
        /\ broker[p] # "none" => seen[p].credential = "present"

(***************************************************************************)
(* Nothing unaudited: a connection to the target exists only after         *)
(* ACCESS_ALLOWED and SESSION_OPENING are in the log, and no byte is       *)
(* relayed before SESSION_ACTIVE is.                                       *)
(***************************************************************************)
AuditPrecedesUse ==
    \A p \in Procs :
        /\ broker[p] # "none" => {"ACCESS_ALLOWED", "SESSION_OPENING"} \subseteq Logged(p)
        /\ pc[p] = "relay" \/ relayed[p] # "none" => "SESSION_ACTIVE" \in Logged(p)

Rank == [ACCESS_ALLOWED |-> 1, SESSION_OPENING |-> 2, SESSION_ACTIVE |-> 3,
         SESSION_CLOSED |-> 4, SESSION_FAILED |-> 4]

(***************************************************************************)
(* However requests of several processes interleave in the log, fail and   *)
(* are interrupted, the trail of each is legal: a denial stands alone, a   *)
(* session's events come in the order of its life cycle, none twice, none  *)
(* skipped (a session may fail before it is active), and after a terminal  *)
(* event there is nothing.                                                 *)
(***************************************************************************)
TrailIsLegal ==
    /\ \A i, j \in DOMAIN log :
          i < j /\ log[i].proc = log[j].proc =>
              /\ log[i].type # "ACCESS_DENIED" /\ log[j].type # "ACCESS_DENIED"
              /\ Rank[log[i].type] < Rank[log[j].type]
    /\ \A p \in Procs :
          /\ "SESSION_OPENING" \in Logged(p) => "ACCESS_ALLOWED" \in Logged(p)
          /\ Logged(p) \cap {"SESSION_ACTIVE", "SESSION_FAILED"} # {}
                => "SESSION_OPENING" \in Logged(p)
          /\ "SESSION_CLOSED" \in Logged(p) => "SESSION_ACTIVE" \in Logged(p)

(***************************************************************************)
(* handle returns a result only when the log records it: a denial its      *)
(* ACCESS_DENIED and no session; an allowed access a terminal session      *)
(* whose last event has the same status, reason and end time.              *)
(***************************************************************************)
ResultIsRecorded ==
    \A p \in Procs : pc[p] = "returned" =>
        IF decision[p].effect = "allow"
          THEN /\ session[p].status \in Terminal
               /\ \E i \in DOMAIN log : log[i] = TerminalEvent(p)
          ELSE /\ session[p] = NoSession
               /\ "ACCESS_DENIED" \in Logged(p)

(***************************************************************************)
(* handle never ends, by return or by exception, with a session still      *)
(* opening or active, even when the wall clock steps behind started_at;    *)
(* and no session ends before it started.  (KeyboardInterrupt is not an    *)
(* Exception and does strand the session object.)                          *)
(***************************************************************************)
NoStrandedSession ==
    \A p \in Procs :
        /\ pc[p] \in {"returned", "raised"} =>
              session[p].status \in Terminal \cup {"none"}
        /\ session[p].status \in Terminal => session[p].ended >= session[p].started

\* No connection, or one whose close was called and ended by itself.
Settled == {"none", "closed", "close_failed"}

(***************************************************************************)
(* A handle that returns or raises has closed the brokered session or at   *)
(* least tried to, whatever failed on the way, and so has one whose        *)
(* terminal event is in the log.  A handle that KeyboardInterrupt ends has *)
(* not gone past the close: the connection may be stranded, where the      *)
(* interrupt struck open_session or the close itself, but the log then     *)
(* says nothing of an end.  "Closed" is said only if the close succeeded   *)
(* and the relay neither failed nor was interrupted.                       *)
(***************************************************************************)
CleanupIsHonest ==
    \A p \in Procs :
        /\ pc[p] \in {"returned", "raised"} => broker[p] \in Settled
        /\ pc[p] = "interrupted" => broker[p] # "open"
        /\ Logged(p) \cap {"SESSION_CLOSED", "SESSION_FAILED"} # {} => broker[p] \in Settled
        /\ session[p].status = "closed" =>
              broker[p] = "closed" /\ relayed[p] \notin {"failed", "interrupted"}

(***************************************************************************)
(* Session moves only along OPENING -> ACTIVE -> CLOSED, or to FAILED from *)
(* the first two; a terminal session never changes again.                  *)
(***************************************************************************)
SessionLifeCycle ==
    [][\A p \in Procs :
          session'[p] # session[p] =>
              <<session[p].status, session'[p].status>> \in
                  {<<"none", "opening">>, <<"opening", "active">>, <<"opening", "failed">>,
                   <<"active", "closed">>, <<"active", "failed">>}]_session

(***************************************************************************)
(* docs/adr/ADR-003-access-policy.md says: default to DENY when no         *)
(* matching policy exists or policy storage fails.  A request whose        *)
(* identity matched and that ended without KeyboardInterrupt would then    *)
(* have a decision.  evaluate lets the storage error through instead.      *)
(***************************************************************************)
PolicyFailureDenies ==
    \A p \in Procs :
        pc[p] \in {"returned", "raised"} /\ seen[p].identity = "match" =>
            decision[p].effect \in {"allow", "deny"}

=============================================================================
