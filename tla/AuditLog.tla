------------------------------ MODULE AuditLog ------------------------------
(***************************************************************************)
(* What the audit repository promises the rest of the program (the port    *)
(* AuditRepository.append of src/ports/access_dependencies.py, and the     *)
(* behaviour its callers rely on): one log, shared by every process, that  *)
(* only grows, and to which a call either adds its event once or adds      *)
(* nothing and raises.                                                     *)
(*                                                                         *)
(* How SQLite rows, locks and MACs deliver this is the subject of          *)
(* AuditChain, which is shown to implement this specification.             *)
(***************************************************************************)
EXTENDS Naturals, Sequences

CONSTANTS
    Writers,    \* callers of append: one per running process
    Events,     \* audit events: records with at least a field id
    NoEvent     \* what a caller that never called append holds

VARIABLES
    log,        \* the events persisted so far, oldest first
    phase,      \* where each caller stands in its current call
    arg         \* the event of that call

vars == <<log, phase, arg>>

(***************************************************************************)
(* "called": inside append.  "persisted": durable, the caller has not been *)
(* told yet.  The other phases are what the caller saw last.               *)
(***************************************************************************)
Answers == {"ok", "duplicate", "error"}
Phases == {"idle", "called", "persisted"} \cup Answers

Ids == {log[i].id : i \in DOMAIN log}

Init ==
    /\ log = << >>
    /\ phase = [w \in Writers |-> "idle"]
    /\ arg = [w \in Writers |-> NoEvent]

Call(w, e) ==
    /\ phase[w] \in Answers \cup {"idle"}
    /\ phase' = [phase EXCEPT ![w] = "called"]
    /\ arg' = [arg EXCEPT ![w] = e]
    /\ log' = log

\* The one step that changes the log.
Persist(w) ==
    /\ phase[w] = "called"
    /\ arg[w].id \notin Ids
    /\ log' = Append(log, arg[w])
    /\ phase' = [phase EXCEPT ![w] = "persisted"]
    /\ arg' = arg

Acknowledge(w) ==
    /\ phase[w] = "persisted"
    /\ phase' = [phase EXCEPT ![w] = "ok"]
    /\ UNCHANGED <<log, arg>>

\* DuplicateAuditEventError: the id is taken, and is said to be.
Duplicate(w) ==
    /\ phase[w] = "called"
    /\ arg[w].id \in Ids
    /\ phase' = [phase EXCEPT ![w] = "duplicate"]
    /\ UNCHANGED <<log, arg>>

\* AuditStorageError: nothing was written.
Fail(w) ==
    /\ phase[w] = "called"
    /\ phase' = [phase EXCEPT ![w] = "error"]
    /\ UNCHANGED <<log, arg>>

\* The calling process dies; what it persisted stays.
Die(w) ==
    /\ phase[w] \in {"called", "persisted"}
    /\ phase' = [phase EXCEPT ![w] = "idle"]
    /\ UNCHANGED <<log, arg>>

Next ==
    \E w \in Writers :
        \/ \E e \in Events : Call(w, e)
        \/ Persist(w)
        \/ Acknowledge(w)
        \/ Duplicate(w)
        \/ Fail(w)
        \/ Die(w)

Spec == Init /\ [][Next]_vars

=============================================================================
