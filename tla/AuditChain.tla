----------------------------- MODULE AuditChain -----------------------------
(***************************************************************************)
(* The HMAC-chained SQLite audit repository                                *)
(* (src/infrastructure/audit/sqlite_audit_repository.py, integrity.py).    *)
(*                                                                         *)
(* Writers are processes inside SQLiteAuditRepository.append, verifiers    *)
(* are processes inside verify_integrity, and they share one database      *)
(* file.  SQLite (external, rollback-journal mode, the default the code    *)
(* leaves in place) gives them its locks: BEGIN IMMEDIATE takes the one    *)
(* RESERVED lock, a commit first becomes PENDING (no new reader) and       *)
(* completes when the last reader is gone, an open cursor is a reader.     *)
(* A lock that is not granted in the driver's busy timeout is an error.    *)
(*                                                                         *)
(* A MAC is symbolic.  HMAC-SHA256(key, canonical || previous) is taken    *)
(* to be injective and unforgeable, so a MAC is the list of the links it   *)
(* was computed from, oldest first; GENESIS_MAC is the empty list.         *)
(***************************************************************************)
EXTENDS Naturals, Sequences

CONSTANTS
    Writers,    \* processes that append
    Verifiers,  \* processes that verify
    EventIds,   \* event ids (UuidIdGenerator; a duplicate is a caller's fault)
    Bodies,     \* the other serialized fields of an event, taken together
    NoEvent,    \* the event of a writer that has not called append yet
    MaxCalls,   \* bound: calls of append by one writer
    MaxTampers  \* bound: direct edits of the database file

Events == [id : EventIds, body : Bodies]

ASSUME NoEventAssumption == NoEvent \notin Events
ASSUME BoundsAssumption == MaxCalls \in Nat /\ MaxTampers \in Nat

(***************************************************************************)
(* MACs and rows.                                                          *)
(***************************************************************************)
IntegrityKey == "integrity"     \* the bytes of audit.key
ForeignKey == "foreign"         \* any other key

Link == [key : {IntegrityKey, ForeignKey}, seq : Nat, ev : Events]
Macs == Seq(Link)

GENESIS_MAC == << >>

\* Variant: the canonical bytes leave the event id out.
calculate_event_mac_NoId(key, seq, ev, previous) ==
    Append(previous, [key |-> key, seq |-> seq,
                      ev |-> [ev EXCEPT !.id = CHOOSE i \in EventIds : TRUE]])

(***************************************************************************)
(* canonical_event_bytes followed by calculate_event_mac.  The canonical   *)
(* bytes cover sequence_no and every serialized field of the event.        *)
(***************************************************************************)
calculate_event_mac(key, seq, ev, previous) ==
    Append(previous, [key |-> key, seq |-> seq, ev |-> ev])

(***************************************************************************)
(* A row of audit_events.  sized: which of its columns, the two append     *)
(* reads of the head (sequence_no, event_mac) and the others, have the     *)
(* types and sizes the writer stores; only somebody editing the file can   *)
(* change that.                                                            *)
(***************************************************************************)
Columns == {"head", "others"}
Row == [seq : Nat, ev : Events, prev : Macs, mac : Macs, sized : SUBSET Columns]

VARIABLES
    rows,       \* the committed table in the order of sequence_no
    reserved,   \* the writers holding SQLite's RESERVED lock
    wpc, wev,   \* each writer's position in append, and its event
    wseq, wprev,\* what _next_chain_link gave it
    calls,      \* calls each writer has made
    vpc,        \* each verifier's position in verify_integrity
    vpos,       \* rows its cursor has delivered
    vseq, vprev,\* expected_sequence and expected_previous_mac
    issued,     \* history: every MAC an append ever committed
    tampers     \* direct edits of the file so far

writerVars == <<wpc, wev, wseq, wprev, calls>>
verifierVars == <<vpc, vpos, vseq, vprev>>
vars == <<rows, reserved, writerVars, verifierVars, issued, tampers>>

InTransaction == {"reserved", "linked", "inserted", "pending"}
Answered == {"idle", "ok", "duplicate", "error"}
WriterPcs == {"called", "persisted"} \cup InTransaction \cup Answered
VerifierPcs == {"idle", "scanning", "ok", "violation", "error"}

\* Every variable has its type.
TypeOK ==
    /\ rows \in Seq(Row)
    /\ reserved \in SUBSET Writers
    /\ wpc \in [Writers -> WriterPcs]
    /\ wev \in [Writers -> Events \cup {NoEvent}]
    /\ wseq \in [Writers -> Nat]
    /\ wprev \in [Writers -> Macs]
    /\ calls \in [Writers -> Nat]
    /\ vpc \in [Verifiers -> VerifierPcs]
    /\ vpos \in [Verifiers -> Nat]
    /\ vseq \in [Verifiers -> Nat]
    /\ vprev \in [Verifiers -> Macs]
    /\ issued \in SUBSET Macs
    /\ tampers \in Nat

Init ==
    /\ rows = << >>
    /\ reserved = {}
    /\ wpc = [w \in Writers |-> "idle"]
    /\ wev = [w \in Writers |-> NoEvent]
    /\ wseq = [w \in Writers |-> 0]
    /\ wprev = [w \in Writers |-> GENESIS_MAC]
    /\ calls = [w \in Writers |-> 0]
    /\ vpc = [v \in Verifiers |-> "idle"]
    /\ vpos = [v \in Verifiers |-> 0]
    /\ vseq = [v \in Verifiers |-> 1]
    /\ vprev = [v \in Verifiers |-> GENESIS_MAC]
    /\ issued = {}
    /\ tampers = 0

-----------------------------------------------------------------------------
(***************************************************************************)
(* append.                                                                 *)
(***************************************************************************)
Readers == {v \in Verifiers : vpc[v] = "scanning"}

\* The call, with _serialize accepting the event: the program builds no
\* AuditEvent that _serialize refuses.
AppendCall(w, e) ==
    /\ wpc[w] \in Answered
    /\ calls[w] < MaxCalls
    /\ wpc' = [wpc EXCEPT ![w] = "called"]
    /\ wev' = [wev EXCEPT ![w] = e]
    /\ calls' = [calls EXCEPT ![w] = @ + 1]
    /\ UNCHANGED <<rows, reserved, wseq, wprev, verifierVars, issued, tampers>>

\* append raises; inside a transaction it has rolled back first.
Raise(w, answer) ==
    /\ wpc' = [wpc EXCEPT ![w] = answer]
    /\ reserved' = reserved \ {w}
    /\ UNCHANGED <<rows, wev, wseq, wprev, calls, verifierVars, issued, tampers>>

\* _load_key raises: the key file is unreadable or has the wrong size.
LoadKeyFails(w) ==
    /\ wpc[w] = "called"
    /\ Raise(w, "error")

\* Variant: a plain BEGIN, which takes no lock.
BeginImmediate_Deferred(w) ==
    /\ wpc[w] = "called"
    /\ reserved' = reserved \cup {w}
    /\ wpc' = [wpc EXCEPT ![w] = "reserved"]
    /\ UNCHANGED <<rows, wev, wseq, wprev, calls, verifierVars, issued, tampers>>

\* BEGIN IMMEDIATE is granted ...
BeginImmediate(w) ==
    /\ wpc[w] = "called"
    /\ reserved = {}
    /\ reserved' = {w}
    /\ wpc' = [wpc EXCEPT ![w] = "reserved"]
    /\ UNCHANGED <<rows, wev, wseq, wprev, calls, verifierVars, issued, tampers>>

\* ... or another process holds the lock for the whole busy timeout.
BeginBusy(w) ==
    /\ wpc[w] = "called"
    /\ reserved # {}
    /\ Raise(w, "error")

HeadIsValid ==
    rows # << >> => rows[Len(rows)].seq >= 1 /\ "head" \in rows[Len(rows)].sized

\* Variant: every row is chained to GENESIS_MAC.
NextChainLink_NoPrevious(w) ==
    /\ wpc[w] = "reserved"
    /\ HeadIsValid
    /\ wseq' = [wseq EXCEPT ![w] =
                  IF rows = << >> THEN 1 ELSE rows[Len(rows)].seq + 1]
    /\ wprev' = [wprev EXCEPT ![w] = GENESIS_MAC]
    /\ wpc' = [wpc EXCEPT ![w] = "linked"]
    /\ UNCHANGED <<rows, reserved, wev, calls, verifierVars, issued, tampers>>

\* SELECT the head row, then _next_chain_link.
NextChainLink(w) ==
    /\ wpc[w] = "reserved"
    /\ HeadIsValid
    /\ wseq' = [wseq EXCEPT ![w] =
                  IF rows = << >> THEN 1 ELSE rows[Len(rows)].seq + 1]
    /\ wprev' = [wprev EXCEPT ![w] =
                  IF rows = << >> THEN GENESIS_MAC ELSE rows[Len(rows)].mac]
    /\ wpc' = [wpc EXCEPT ![w] = "linked"]
    /\ UNCHANGED <<rows, reserved, wev, calls, verifierVars, issued, tampers>>

HeadInvalid(w) ==
    /\ wpc[w] = "reserved"
    /\ ~ HeadIsValid
    /\ Raise(w, "error")

\* The PRIMARY KEY on id and the UNIQUE constraint on sequence_no.
Conflicts(w) ==
    \E i \in DOMAIN rows : rows[i].ev.id = wev[w].id \/ rows[i].seq = wseq[w]

Insert(w) ==
    /\ wpc[w] = "linked"
    /\ ~ Conflicts(w)
    /\ wpc' = [wpc EXCEPT ![w] = "inserted"]
    /\ UNCHANGED <<rows, reserved, wev, wseq, wprev, calls, verifierVars,
                   issued, tampers>>

\* Variant: an IntegrityError is retried from the head of the chain.
InsertConflict_Retried(w) ==
    /\ wpc[w] = "linked"
    /\ Conflicts(w)
    /\ wpc' = [wpc EXCEPT ![w] = "reserved"]
    /\ UNCHANGED <<rows, reserved, wev, wseq, wprev, calls, verifierVars,
                   issued, tampers>>

\* sqlite3.IntegrityError, reported as DuplicateAuditEventError.
InsertConflict(w) ==
    /\ wpc[w] = "linked"
    /\ Conflicts(w)
    /\ Raise(w, "duplicate")

\* commit: PENDING first, which keeps new readers out ...
CommitPending(w) ==
    /\ wpc[w] = "inserted"
    /\ wpc' = [wpc EXCEPT ![w] = "pending"]
    /\ UNCHANGED <<rows, reserved, wev, wseq, wprev, calls, verifierVars,
                   issued, tampers>>

NewRow(w) ==
    [seq |-> wseq[w], ev |-> wev[w], prev |-> wprev[w],
     mac |-> calculate_event_mac(IntegrityKey, wseq[w], wev[w], wprev[w]),
     sized |-> Columns]

\* ... then EXCLUSIVE, once the readers that were there have finished ...
CommitDone(w) ==
    /\ wpc[w] = "pending"
    /\ Readers = {}
    /\ rows' = Append(rows, NewRow(w))
    /\ issued' = issued \cup {NewRow(w).mac}
    /\ reserved' = reserved \ {w}
    /\ wpc' = [wpc EXCEPT ![w] = "persisted"]
    /\ UNCHANGED <<wev, wseq, wprev, calls, verifierVars, tampers>>

\* Variant: the failed commit is taken for a success.
CommitBusy_Ignored(w) ==
    /\ wpc[w] = "pending"
    /\ Readers # {}
    /\ Raise(w, "persisted")

\* ... or they outlast the busy timeout.
CommitBusy(w) ==
    /\ wpc[w] = "pending"
    /\ Readers # {}
    /\ Raise(w, "error")

\* Any other sqlite3.Error or exception before the commit is durable.
StorageFails(w) ==
    /\ wpc[w] \in InTransaction
    /\ Raise(w, "error")

\* Variant: an answer no caller knows.
AppendReturns_Unknown(w) ==
    /\ wpc[w] = "persisted"
    /\ wpc' = [wpc EXCEPT ![w] = "maybe"]
    /\ UNCHANGED <<rows, reserved, wev, wseq, wprev, calls, verifierVars,
                   issued, tampers>>

AppendReturns(w) ==
    /\ wpc[w] = "persisted"
    /\ wpc' = [wpc EXCEPT ![w] = "ok"]
    /\ UNCHANGED <<rows, reserved, wev, wseq, wprev, calls, verifierVars,
                   issued, tampers>>

\* The process is killed, or KeyboardInterrupt passes the handlers and the
\* connection is closed: SQLite drops what was not committed and the locks.
Crash(w) ==
    /\ wpc[w] \notin Answered
    /\ Raise(w, "idle")

\* What append does by itself, and what may also happen to it.
WriterProgress(w) ==
    \/ BeginImmediate(w)
    \/ BeginBusy(w)
    \/ NextChainLink(w)
    \/ HeadInvalid(w)
    \/ Insert(w)
    \/ InsertConflict(w)
    \/ CommitPending(w)
    \/ CommitDone(w)
    \/ CommitBusy(w)
    \/ AppendReturns(w)

WriterStep(w) == WriterProgress(w) \/ LoadKeyFails(w) \/ StorageFails(w)

-----------------------------------------------------------------------------
(***************************************************************************)
(* verify_integrity.                                                       *)
(***************************************************************************)
VerifierGoes(v, pc) ==
    /\ vpc' = [vpc EXCEPT ![v] = pc]
    /\ UNCHANGED <<rows, reserved, writerVars, issued, tampers>>

PendingWriter == \E w \in Writers : wpc[w] = "pending"

\* The cursor is opened; it is a reader from now on.
VerifyStarts(v) ==
    /\ vpc[v] # "scanning"
    /\ ~ PendingWriter
    /\ vpos' = [vpos EXCEPT ![v] = 0]
    /\ vseq' = [vseq EXCEPT ![v] = 1]
    /\ vprev' = [vprev EXCEPT ![v] = GENESIS_MAC]
    /\ VerifierGoes(v, "scanning")

VerifyBusy(v) ==
    /\ vpc[v] # "scanning"
    /\ PendingWriter
    /\ VerifierGoes(v, "error")
    /\ UNCHANGED <<vpos, vseq, vprev>>

\* Variant: the stored MAC is not recomputed.
RowVerifies_NoMac(row, seq, prev) ==
    row.sized = Columns /\ row.seq = seq /\ row.prev = prev

\* _validate_stored_row and the three comparisons of _verify_rows.
RowVerifies(row, seq, prev) ==
    /\ row.sized = Columns
    /\ row.seq = seq
    /\ row.prev = prev
    /\ row.mac = calculate_event_mac(IntegrityKey, row.seq, row.ev, row.prev)

\* Variant: expected_sequence is not advanced.
VerifyRow_SameSequence(v) ==
    /\ vpc[v] = "scanning"
    /\ vpos[v] < Len(rows)
    /\ RowVerifies(rows[vpos[v] + 1], vseq[v], vprev[v])
    /\ vpos' = [vpos EXCEPT ![v] = @ + 1]
    /\ vprev' = [vprev EXCEPT ![v] = rows[vpos[v] + 1].mac]
    /\ VerifierGoes(v, "scanning")
    /\ UNCHANGED vseq

VerifyRow(v) ==
    /\ vpc[v] = "scanning"
    /\ vpos[v] < Len(rows)
    /\ RowVerifies(rows[vpos[v] + 1], vseq[v], vprev[v])
    /\ vpos' = [vpos EXCEPT ![v] = @ + 1]
    /\ vseq' = [vseq EXCEPT ![v] = @ + 1]
    /\ vprev' = [vprev EXCEPT ![v] = rows[vpos[v] + 1].mac]
    /\ VerifierGoes(v, "scanning")

VerifyRowFails(v) ==
    /\ vpc[v] = "scanning"
    /\ vpos[v] < Len(rows)
    /\ ~ RowVerifies(rows[vpos[v] + 1], vseq[v], vprev[v])
    /\ VerifierGoes(v, "violation")
    /\ UNCHANGED <<vpos, vseq, vprev>>

VerifySucceeds(v) ==
    /\ vpc[v] = "scanning"
    /\ vpos[v] = Len(rows)
    /\ VerifierGoes(v, "ok")
    /\ UNCHANGED <<vpos, vseq, vprev>>

\* The key cannot be loaded, SQLite fails, or the verifier is killed.
VerifyStorageFails(v) ==
    /\ VerifierGoes(v, "error")
    /\ UNCHANGED <<vpos, vseq, vprev>>

VerifierStep(v) ==
    \/ VerifyRow(v)
    \/ VerifyRowFails(v)
    \/ VerifySucceeds(v)

-----------------------------------------------------------------------------
(***************************************************************************)
(* Somebody with write access to audit.db, and without the integrity key,  *)
(* edits the table in a transaction of its own.  MACs made with the        *)
(* integrity key can only be replayed.                                     *)
(***************************************************************************)
KnownMacs == {GENESIS_MAC} \cup issued

ForgedRow(seq, ev, prev, mac) ==
    [seq |-> seq, ev |-> ev, prev |-> prev, mac |-> mac, sized |-> Columns]

\* What the table's constraints still impose on the editor.
Ordered(table) ==
    \A i, j \in DOMAIN table :
        i < j => /\ table[i].seq < table[j].seq
                 /\ table[i].ev.id # table[j].ev.id

Without(i) ==
    [j \in 1..(Len(rows) - 1) |-> IF j < i THEN rows[j] ELSE rows[j + 1]]
With(i, row) ==
    [j \in 1..(Len(rows) + 1) |->
        IF j < i THEN rows[j] ELSE IF j = i THEN row ELSE rows[j - 1]]

TamperTo(table) ==
    /\ reserved = {}
    /\ Readers = {}
    /\ tampers < MaxTampers
    /\ Ordered(table)
    /\ rows' = table
    /\ tampers' = tampers + 1
    /\ UNCHANGED <<reserved, writerVars, verifierVars, issued>>

TamperDelete == \E i \in DOMAIN rows : TamperTo(Without(i))

TamperDamage ==
    \E i \in DOMAIN rows, c \in Columns :
        TamperTo([rows EXCEPT ![i] = [rows[i] EXCEPT !.sized = @ \ {c}]])

\* Rewrite or insert one row, with replayed MACs or one made with another key.
TamperForge ==
    \E seq \in 0..(Len(rows) + 1), ev \in Events, prev \in KnownMacs :
        \E mac \in KnownMacs \cup {calculate_event_mac(ForeignKey, seq, ev, prev)} :
            LET row == ForgedRow(seq, ev, prev, mac) IN
            \/ \E i \in DOMAIN rows : TamperTo([rows EXCEPT ![i] = row])
            \/ \E i \in 1..(Len(rows) + 1) : TamperTo(With(i, row))

\* Exchange two rows, leaving the sequence numbers where they were.
TamperReorder ==
    \E i, j \in DOMAIN rows :
        /\ i < j
        /\ TamperTo([rows EXCEPT ![i] = [rows[j] EXCEPT !.seq = rows[i].seq],
                                 ![j] = [rows[i] EXCEPT !.seq = rows[j].seq]])

Tamper == TamperDelete \/ TamperDamage \/ TamperForge \/ TamperReorder

-----------------------------------------------------------------------------
Next ==
    \/ \E w \in Writers :
          \/ \E e \in Events : AppendCall(w, e)
          \/ WriterStep(w)
          \/ Crash(w)
    \/ \E v \in Verifiers :
          \/ VerifyStarts(v)
          \/ VerifyBusy(v)
          \/ VerifyStorageFails(v)
          \/ VerifierStep(v)

Spec == Init /\ [][Next]_vars

(***************************************************************************)
(* Every process that is running is scheduled; no failure is owed.  A wait *)
(* for a lock needs no stronger fairness: the busy timeout ends it.        *)
(***************************************************************************)
Fairness ==
    /\ \A w \in Writers : WF_vars(WriterProgress(w))
    /\ \A v \in Verifiers : WF_vars(VerifierStep(v))

FairSpec == Spec /\ Fairness

\* The same system on storage that others may edit.
TamperSpec == Init /\ [][Next \/ Tamper]_vars

-----------------------------------------------------------------------------
(***************************************************************************)
(* Properties without tampering.                                           *)
(***************************************************************************)

(***************************************************************************)
(* The MAC of the row before row i; GENESIS_MAC before the first row.      *)
(***************************************************************************)
MacBefore(i) == IF i = 1 THEN GENESIS_MAC ELSE rows[i - 1].mac

(***************************************************************************)
(* However appends of several processes, their failures, time-outs and     *)
(* crashes interleave, the table is one gap-free chain: row i carries      *)
(* sequence number i, points at the MAC of row i - 1, and is MACed with    *)
(* the integrity key over exactly its own fields.                          *)
(***************************************************************************)
ChainIntact ==
    \A i \in DOMAIN rows : RowVerifies(rows[i], i, MacBefore(i))

(***************************************************************************)
(* verify_integrity never reports a violation on storage nobody edited,    *)
(* whatever is being appended while it scans.                              *)
(***************************************************************************)
NoFalseAlarm == \A v \in Verifiers : vpc[v] # "violation"

(***************************************************************************)
(* "audit event id already exists" (DuplicateAuditEventError) is the truth:*)
(* the code maps every IntegrityError to it, also one of the UNIQUE        *)
(* constraint on sequence_no, which two appends racing for the same link   *)
(* would hit.                                                              *)
(***************************************************************************)
DuplicateIsTrue ==
    \A w \in Writers :
        wpc[w] = "duplicate" => \E i \in DOMAIN rows : rows[i].ev.id = wev[w].id

(***************************************************************************)
(* append behaves as one atomic, all-or-nothing addition to a shared log:  *)
(* it returns only after its event is durable, raises only when it added   *)
(* nothing, and no event is added twice, changed or removed.               *)
(***************************************************************************)
AbstractLog == INSTANCE AuditLog WITH
    log <- [i \in DOMAIN rows |-> rows[i].ev],
    phase <- [w \in Writers |-> IF wpc[w] \in InTransaction THEN "called"
                                                            ELSE wpc[w]],
    arg <- wev

ImplementsAuditLog == AbstractLog!Spec

(***************************************************************************)
(* No call hangs.  Every append is answered, although writers wait for     *)
(* RESERVED and for readers that hold up a commit (a crash also ends the   *)
(* call); every verify_integrity ends, although the table keeps growing    *)
(* between its scans.                                                      *)
(***************************************************************************)
CallsTerminate ==
    /\ \A w \in Writers : (wpc[w] = "called") ~> (wpc[w] \in Answered)
    /\ \A v \in Verifiers : (vpc[v] = "scanning") ~> (vpc[v] # "scanning")

-----------------------------------------------------------------------------
(***************************************************************************)
(* Properties on storage that is edited directly.                          *)
(***************************************************************************)
Prefixes(mac) == {SubSeq(mac, 1, n) : n \in 1..Len(mac)}

(***************************************************************************)
(* What a verifier has accepted so far, or has reported as intact, is a    *)
(* history that really happened: the n-th accepted event was signed by an  *)
(* append as number n, directly on top of the n - 1 accepted before it.    *)
(* Interior deletion, insertion, modification, reordering and replay are   *)
(* therefore all detected.                                                 *)
(***************************************************************************)
AcceptedIsGenuine ==
    \A v \in Verifiers :
        vpc[v] \in {"scanning", "ok"} =>
            /\ Prefixes(vprev[v]) \subseteq issued
            /\ \A n \in DOMAIN vprev[v] :
                   vprev[v][n].seq = n /\ vprev[v][n].key = IntegrityKey

(***************************************************************************)
(* The events a scan has accepted are the events of the rows it read, so   *)
(* at its end they are the whole table.                                    *)
(***************************************************************************)
AcceptedIsTable ==
    \A v \in Verifiers :
        vpc[v] = "scanning" =>
            /\ Len(vprev[v]) = vpos[v]
            /\ vpos[v] <= Len(rows)
            /\ \A n \in 1..vpos[v] : vprev[v][n].ev = rows[n].ev

=============================================================================
