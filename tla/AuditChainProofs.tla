-------------------------- MODULE AuditChainProofs --------------------------
(***************************************************************************)
(* Proofs about AuditChain, for every number of writers and verifiers,     *)
(* every set of events and every bound.                                    *)
(***************************************************************************)
EXTENDS AuditChain, TLAPS

-----------------------------------------------------------------------------
(***************************************************************************)
(* Types.                                                                  *)
(***************************************************************************)

\* A MAC computed from typed parts is a MAC.
LEMMA MacType ==
    ASSUME NEW key \in {IntegrityKey, ForeignKey}, NEW seq \in Nat,
           NEW ev \in Events, NEW prev \in Macs
    PROVE  calculate_event_mac(key, seq, ev, prev) \in Macs
BY DEF calculate_event_mac, Macs, Link

\* GENESIS_MAC is a MAC.
LEMMA GenesisType == GENESIS_MAC \in Macs
BY DEF GENESIS_MAC, Macs

\* A writer inside append holds an event.
WriterHasEvent ==
    \A w \in Writers :
        wpc[w] \in {"called", "persisted"} \cup InTransaction => wev[w] \in Events

Typed == TypeOK /\ WriterHasEvent

\* The initial state is typed.
LEMMA InitTyped == Init => Typed
BY DEF Init, Typed, TypeOK, WriterHasEvent, Macs, GENESIS_MAC, WriterPcs,
       VerifierPcs, Answered, InTransaction

\* Raise only moves one writer to an answer and may release its lock.
LEMMA RaiseTyped ==
    ASSUME Typed, NEW w \in Writers, NEW a \in Answered, Raise(w, a)
    PROVE  Typed'
BY DEF Typed, TypeOK, WriterHasEvent, Raise, verifierVars, WriterPcs, Answered,
       InTransaction

\* Every step of append, failures and crashes included, keeps the types.
LEMMA AppendTyped ==
    ASSUME Typed, NEW w \in Writers,
           (\E e \in Events : AppendCall(w, e)) \/ WriterStep(w) \/ Crash(w)
    PROVE  Typed'
<1> USE DEF Typed, TypeOK, WriterHasEvent, verifierVars, WriterPcs, Answered, InTransaction
<1>1. CASE \E e \in Events : AppendCall(w, e)
  BY <1>1 DEF AppendCall
<1>2. CASE BeginImmediate(w)
  BY <1>2 DEF BeginImmediate
<1>3. CASE NextChainLink(w)
  <2>1. rows # << >> => rows[Len(rows)] \in Row
    OBVIOUS
  <2>2. wseq' \in [Writers -> Nat] /\ wprev' \in [Writers -> Macs]
    BY <1>3, <2>1 DEF NextChainLink, Row, GENESIS_MAC, Macs
  <2> QED
    BY <1>3, <2>2 DEF NextChainLink
<1>4. CASE Insert(w)
  BY <1>4 DEF Insert
<1>5. CASE CommitPending(w)
  BY <1>5 DEF CommitPending
<1>6. CASE CommitDone(w)
  <2>1. NewRow(w) \in Row /\ NewRow(w).mac \in Macs
    BY <1>6, MacType DEF CommitDone, NewRow, Row
  <2>2. rows' \in Seq(Row) /\ issued' \in SUBSET Macs
    BY <1>6, <2>1 DEF CommitDone
  <2> QED
    BY <1>6, <2>2 DEF CommitDone
<1>7. CASE AppendReturns(w)
  BY <1>7 DEF AppendReturns
<1>8. CASE \E a \in Answered : Raise(w, a)
  BY <1>8, RaiseTyped
<1> QED
  BY <1>1, <1>2, <1>3, <1>4, <1>5, <1>6, <1>7, <1>8
     DEF WriterStep, WriterProgress, LoadKeyFails, BeginBusy, HeadInvalid, InsertConflict,
         CommitBusy, StorageFails, Crash

\* Every step of verify_integrity keeps the types.
LEMMA VerifyTyped ==
    ASSUME Typed, NEW v \in Verifiers,
           VerifyStarts(v) \/ VerifyBusy(v) \/ VerifyStorageFails(v) \/ VerifierStep(v)
    PROVE  Typed'
<1> USE DEF Typed, TypeOK, WriterHasEvent, writerVars, VerifierPcs
<1>1. CASE VerifyStarts(v)
  BY <1>1 DEF VerifyStarts, VerifierGoes, Macs, GENESIS_MAC
<1>2. CASE VerifyRow(v)
  <2>1. rows[vpos[v] + 1] \in Row
    BY <1>2 DEF VerifyRow
  <2> QED
    BY <1>2, <2>1 DEF VerifyRow, VerifierGoes, Row
<1>3. CASE VerifyBusy(v) \/ VerifyStorageFails(v) \/ VerifyRowFails(v) \/ VerifySucceeds(v)
  BY <1>3 DEF VerifyBusy, VerifyStorageFails, VerifyRowFails, VerifySucceeds, VerifierGoes
<1> QED
  BY <1>1, <1>2, <1>3 DEF VerifierStep

\* So does a stuttering step.
LEMMA StutterTyped == Typed /\ UNCHANGED vars => Typed'
BY DEF Typed, TypeOK, WriterHasEvent, vars, writerVars, verifierVars

-----------------------------------------------------------------------------
(***************************************************************************)
(* The chain on storage nobody edits.  ChainIntact alone is not inductive: *)
(* a writer must still hold the head it linked to when it commits, which   *)
(* the RESERVED lock guarantees, and a verifier's expectation must be the  *)
(* MAC before its next row, which its being a reader guarantees.           *)
(***************************************************************************)
LockInv ==
    /\ \A w \in Writers : w \in reserved <=> wpc[w] \in InTransaction
    /\ \A w1, w2 \in Writers : w1 \in reserved /\ w2 \in reserved => w1 = w2

LinkInv ==
    \A w \in Writers :
        wpc[w] \in {"linked", "inserted", "pending"} =>
            /\ wseq[w] = Len(rows) + 1
            /\ wprev[w] = MacBefore(Len(rows) + 1)

FreshInv ==
    \A w \in Writers :
        wpc[w] \in {"inserted", "pending"} =>
            \A i \in DOMAIN rows : rows[i].ev.id # wev[w].id

ScanInv ==
    \A v \in Verifiers :
        vpc[v] = "scanning" =>
            /\ vpos[v] <= Len(rows)
            /\ vseq[v] = vpos[v] + 1
            /\ vprev[v] = MacBefore(vpos[v] + 1)

ChainInv ==
    /\ Typed
    /\ LockInv
    /\ LinkInv
    /\ FreshInv
    /\ ChainIntact
    /\ ScanInv
    /\ NoFalseAlarm
    /\ DuplicateIsTrue

\* The empty table of a fresh database satisfies the invariant.
LEMMA InitChainInv == Init => ChainInv
<1> SUFFICES ASSUME Init PROVE ChainInv
  OBVIOUS
<1>1. Typed
  BY InitTyped
<1>2. LockInv /\ LinkInv /\ FreshInv /\ ScanInv /\ NoFalseAlarm /\ DuplicateIsTrue
  BY DEF Init, LockInv, LinkInv, FreshInv, ScanInv, NoFalseAlarm, DuplicateIsTrue,
         InTransaction
<1>3. ChainIntact
  BY DEF Init, ChainIntact
<1> QED
  BY <1>1, <1>2, <1>3 DEF ChainInv

\* In an intact chain sequence numbers are positions.
LEMMA SeqIsPosition ==
    ASSUME ChainIntact
    PROVE  \A i \in DOMAIN rows : rows[i].seq = i /\ rows[i].sized = Columns
BY DEF ChainIntact, RowVerifies

\* A raise leaves the table alone and takes one writer out of its transaction.
LEMMA RaiseChainInv ==
    ASSUME ChainInv, NEW w \in Writers, NEW a \in Answered, Raise(w, a),
           a = "duplicate" => \E i \in DOMAIN rows : rows[i].ev.id = wev[w].id
    PROVE  ChainInv'
<1> USE DEF ChainInv, Raise, verifierVars
<1>1. Typed'
  BY RaiseTyped
<1>2. LockInv'
  BY DEF LockInv, Typed, TypeOK, Answered, InTransaction
<1>3. LinkInv' /\ FreshInv' /\ DuplicateIsTrue'
  BY DEF LinkInv, FreshInv, DuplicateIsTrue, MacBefore, Typed, TypeOK, Answered
<1>4. ChainIntact' /\ ScanInv' /\ NoFalseAlarm'
  BY DEF ChainIntact, ScanInv, NoFalseAlarm, MacBefore
<1> QED
  BY <1>1, <1>2, <1>3, <1>4

\* A writer step that touches neither the table nor a verifier.
LEMMA QuietChainInv ==
    ASSUME ChainInv, Typed', LockInv', LinkInv', FreshInv', DuplicateIsTrue',
           UNCHANGED <<rows, verifierVars>>
    PROVE  ChainInv'
BY DEF ChainInv, ChainIntact, ScanInv, NoFalseAlarm, MacBefore, verifierVars

\* A completed commit extends the chain by one link and releases the lock.
LEMMA CommitChainInv ==
    ASSUME ChainInv, NEW w \in Writers, CommitDone(w)
    PROVE  ChainInv'
<1>1. Typed' /\ Typed /\ rows \in Seq(Row)
  BY AppendTyped DEF ChainInv, Typed, TypeOK, WriterStep, WriterProgress
<1> PICK n \in Nat : n = Len(rows)
  BY <1>1
<1> USE DEF ChainInv, CommitDone
<1>2. w \in reserved /\ \A u \in Writers : u # w => wpc[u] \notin InTransaction
  BY DEF LockInv, InTransaction
<1>3. LockInv'
  BY <1>1, <1>2 DEF LockInv, Typed, TypeOK, InTransaction
<1>4. LinkInv' /\ FreshInv'
  BY <1>1, <1>2 DEF LinkInv, FreshInv, Typed, TypeOK, InTransaction
<1>5. NewRow(w) \in Row
  BY <1>1, MacType DEF NewRow, Row, Typed, TypeOK, WriterHasEvent
<1>6. /\ Len(rows') = n + 1
      /\ rows'[n + 1] = NewRow(w)
      /\ \A i \in 1..n : rows'[i] = rows[i]
      /\ DOMAIN rows' = 1..(n + 1)
      /\ DOMAIN rows = 1..n
  BY <1>1, <1>5
<1>7. MacBefore(n + 1)' = MacBefore(n + 1)
  BY <1>1, <1>6 DEF MacBefore
<1>8. ChainIntact'
  <2> SUFFICES ASSUME NEW i \in 1..(n + 1)
               PROVE  RowVerifies(rows'[i], i, MacBefore(i)')
    BY <1>6 DEF ChainIntact
  <2>1. CASE i = n + 1
    <3>1. wseq[w] = n + 1 /\ wprev[w] = MacBefore(n + 1)
      BY DEF LinkInv
    <3> QED
      BY <2>1, <3>1, <1>6, <1>7 DEF RowVerifies, NewRow
  <2>2. CASE i \in 1..n
    <3>1. MacBefore(i)' = MacBefore(i)
      BY <1>1, <1>6, <2>2 DEF MacBefore
    <3> QED
      BY <2>2, <3>1, <1>6 DEF ChainIntact
  <2> QED
    BY <2>1, <2>2, <1>1
<1>9. ScanInv' /\ NoFalseAlarm'
  BY DEF ScanInv, Readers, NoFalseAlarm, verifierVars
<1>10. DuplicateIsTrue'
  BY <1>1, <1>6 DEF DuplicateIsTrue, Typed, TypeOK
<1> QED
  BY <1>1, <1>3, <1>4, <1>8, <1>9, <1>10

\* Every step of append preserves the invariant.
LEMMA AppendChainInv ==
    ASSUME ChainInv, NEW w \in Writers,
           (\E e \in Events : AppendCall(w, e)) \/ WriterStep(w) \/ Crash(w)
    PROVE  ChainInv'
<1>1. Typed /\ Typed'
  BY AppendTyped DEF ChainInv
<1> DEFINE Parts == LockInv' /\ LinkInv' /\ FreshInv' /\ DuplicateIsTrue'
<1> USE DEF LockInv, LinkInv, FreshInv, DuplicateIsTrue, MacBefore, InTransaction,
            Answered
<1>2. CASE \E e \in Events : AppendCall(w, e)
  <2>1. Parts /\ UNCHANGED <<rows, verifierVars>>
    BY <1>1, <1>2 DEF AppendCall, ChainInv, Typed, TypeOK
  <2> QED
    BY <1>1, <2>1, QuietChainInv
<1>3. CASE BeginImmediate(w)
  <2>1. Parts /\ UNCHANGED <<rows, verifierVars>>
    BY <1>1, <1>3 DEF BeginImmediate, ChainInv, Typed, TypeOK
  <2> QED
    BY <1>1, <2>1, QuietChainInv
<1>4. CASE NextChainLink(w)
  <2>1. rows # << >> => rows[Len(rows)].seq = Len(rows)
    BY <1>1, SeqIsPosition DEF ChainInv, Typed, TypeOK
  <2>2. LinkInv'
    BY <1>1, <1>4, <2>1 DEF NextChainLink, ChainInv, Typed, TypeOK
  <2>3. LockInv' /\ FreshInv' /\ DuplicateIsTrue' /\ UNCHANGED <<rows, verifierVars>>
    BY <1>1, <1>4 DEF NextChainLink, ChainInv, Typed, TypeOK
  <2> QED
    BY <1>1, <2>2, <2>3, QuietChainInv
<1>5. CASE Insert(w)
  <2>1. Parts /\ UNCHANGED <<rows, verifierVars>>
    BY <1>1, <1>5 DEF Insert, Conflicts, ChainInv, Typed, TypeOK
  <2> QED
    BY <1>1, <2>1, QuietChainInv
<1>6. CASE CommitPending(w)
  <2>1. Parts /\ UNCHANGED <<rows, verifierVars>>
    BY <1>1, <1>6 DEF CommitPending, ChainInv, Typed, TypeOK
  <2> QED
    BY <1>1, <2>1, QuietChainInv
<1>7. CASE CommitDone(w)
  BY <1>7, CommitChainInv
<1>8. CASE AppendReturns(w)
  <2>1. Parts /\ UNCHANGED <<rows, verifierVars>>
    BY <1>1, <1>8 DEF AppendReturns, ChainInv, Typed, TypeOK
  <2> QED
    BY <1>1, <2>1, QuietChainInv
<1>9. CASE InsertConflict(w)
  <2>1. wseq[w] = Len(rows) + 1
    BY <1>9 DEF InsertConflict, ChainInv
  <2>2. \E i \in DOMAIN rows : rows[i].ev.id = wev[w].id
    BY <1>1, <1>9, <2>1, SeqIsPosition
       DEF InsertConflict, Conflicts, ChainInv, Typed, TypeOK
  <2> QED
    BY <1>9, <2>2, RaiseChainInv DEF InsertConflict
<1>10. CASE \E a \in Answered \ {"duplicate"} : Raise(w, a)
  BY <1>10, RaiseChainInv
<1> QED
  BY <1>2, <1>3, <1>4, <1>5, <1>6, <1>7, <1>8, <1>9, <1>10
     DEF WriterStep, WriterProgress, LoadKeyFails, BeginBusy, HeadInvalid, CommitBusy,
         StorageFails, Crash

\* Every step of verify_integrity preserves the invariant.
LEMMA VerifyChainInv ==
    ASSUME ChainInv, NEW v \in Verifiers,
           VerifyStarts(v) \/ VerifyBusy(v) \/ VerifyStorageFails(v) \/ VerifierStep(v)
    PROVE  ChainInv'
<1>1. Typed /\ Typed' /\ UNCHANGED <<rows, reserved, writerVars>>
  BY VerifyTyped DEF ChainInv, VerifyStarts, VerifyBusy, VerifyStorageFails,
     VerifierStep, VerifyRow, VerifyRowFails, VerifySucceeds, VerifierGoes
<1>2. LockInv' /\ LinkInv' /\ FreshInv' /\ DuplicateIsTrue' /\ ChainIntact'
  BY <1>1 DEF ChainInv, LockInv, LinkInv, FreshInv, DuplicateIsTrue, ChainIntact,
     MacBefore, writerVars
<1>3. ScanInv'
  <2> USE <1>1 DEF ChainInv, ScanInv, MacBefore, Typed, TypeOK, VerifierGoes
  <2>1. CASE VerifyStarts(v)
    BY <2>1 DEF VerifyStarts
  <2>2. CASE VerifyRow(v)
    BY <2>2 DEF VerifyRow
  <2>3. CASE VerifyBusy(v) \/ VerifyStorageFails(v) \/ VerifyRowFails(v) \/ VerifySucceeds(v)
    BY <2>3 DEF VerifyBusy, VerifyStorageFails, VerifyRowFails, VerifySucceeds
  <2> QED
    BY <2>1, <2>2, <2>3 DEF VerifierStep
<1>4. ~ VerifyRowFails(v)
  <2>1. ASSUME vpc[v] = "scanning", vpos[v] < Len(rows)
        PROVE  RowVerifies(rows[vpos[v] + 1], vseq[v], vprev[v])
    BY <1>1, <2>1 DEF ChainInv, ScanInv, ChainIntact, Typed, TypeOK
  <2> QED
    BY <2>1 DEF VerifyRowFails
<1>5. NoFalseAlarm'
  BY <1>1, <1>4 DEF ChainInv, NoFalseAlarm, Typed, TypeOK, VerifyStarts, VerifyBusy,
     VerifyStorageFails, VerifierStep, VerifyRow, VerifySucceeds, VerifierGoes
<1> QED
  BY <1>1, <1>2, <1>3, <1>5 DEF ChainInv

\* The invariant is inductive.
LEMMA StepChainInv == ChainInv /\ [Next]_vars => ChainInv'
<1>1. ChainInv /\ UNCHANGED vars => ChainInv'
  BY StutterTyped DEF ChainInv, LockInv, LinkInv, FreshInv, ChainIntact, ScanInv,
     NoFalseAlarm, DuplicateIsTrue, MacBefore, vars, writerVars, verifierVars
<1> QED
  BY <1>1, AppendChainInv, VerifyChainInv DEF Next

\* The invariant holds of every reachable state.
LEMMA ChainInvHolds == Spec => []ChainInv
BY InitChainInv, StepChainInv, PTL DEF Spec

(***************************************************************************)
(* For any number of concurrent appends, failures and crashes, the stored  *)
(* table is one gap-free chain under the integrity key.                    *)
(***************************************************************************)
THEOREM ChainStaysIntact == Spec => []ChainIntact
BY ChainInvHolds, PTL DEF ChainInv

(***************************************************************************)
(* verify_integrity never rejects a table that only append has written.    *)
(***************************************************************************)
THEOREM VerifierNeverCriesWolf == Spec => []NoFalseAlarm
BY ChainInvHolds, PTL DEF ChainInv

(***************************************************************************)
(* DuplicateAuditEventError always means that the id is in the table.      *)
(***************************************************************************)
THEOREM DuplicateReportsAreTrue == Spec => []DuplicateIsTrue
BY ChainInvHolds, PTL DEF ChainInv

-----------------------------------------------------------------------------
(***************************************************************************)
(* The chain on storage that others edit.  The key stays secret, so a MAC  *)
(* that ends in a link under the integrity key was issued by an append;    *)
(* this is the invariant that a scan turns into a genuine history.         *)
(***************************************************************************)
UnforgedMac(mac) ==
    mac # << >> /\ mac[Len(mac)].key = IntegrityKey => mac \in issued

GoodRows == {r \in Row : UnforgedMac(r.mac)}

Unforged == rows \in Seq(GoodRows)

ScanCounts ==
    \A v \in Verifiers : vpc[v] = "scanning" => vseq[v] = vpos[v] + 1

TamperInv ==
    /\ Typed
    /\ Unforged
    /\ ScanCounts
    /\ AcceptedIsTable
    /\ AcceptedIsGenuine

\* An edit of the file leaves rows with replayed or foreign MACs only.
LEMMA TamperTable ==
    ASSUME Unforged, issued \in SUBSET Macs, Tamper
    PROVE  \E table \in Seq(GoodRows) : TamperTo(table)
<1> USE DEF Unforged
<1>2. CASE TamperDelete
  <2>1. PICK i \in DOMAIN rows : TamperTo(Without(i))
    BY <1>2 DEF TamperDelete
  <2>2. Without(i) \in Seq(GoodRows)
    <3>1. Len(rows) - 1 \in Nat /\ i \in 1..Len(rows)
      OBVIOUS
    <3>2. \A j \in 1..(Len(rows) - 1) :
              (IF j < i THEN rows[j] ELSE rows[j + 1]) \in GoodRows
      BY <3>1
    <3> QED
      BY <3>1, <3>2 DEF Without
  <2> QED
    BY <2>1, <2>2
<1>3. CASE TamperDamage
  <2>1. PICK i \in DOMAIN rows, c \in Columns :
            TamperTo([rows EXCEPT ![i] = [rows[i] EXCEPT !.sized = @ \ {c}]])
    BY <1>3 DEF TamperDamage
  <2>2. [rows[i] EXCEPT !.sized = @ \ {c}] \in GoodRows
    <3>1. rows[i] \in GoodRows
      OBVIOUS
    <3> QED
      BY <3>1 DEF GoodRows, Row
  <2>3. [rows EXCEPT ![i] = [rows[i] EXCEPT !.sized = @ \ {c}]] \in Seq(GoodRows)
    BY <2>2
  <2> QED
    BY <2>1, <2>3
<1>4. CASE TamperForge
  <2>1. PICK seq \in 0..(Len(rows) + 1), ev \in Events, prev \in KnownMacs :
            \E mac \in KnownMacs \cup {calculate_event_mac(ForeignKey, seq, ev, prev)} :
                LET row == ForgedRow(seq, ev, prev, mac) IN
                \/ \E i \in DOMAIN rows : TamperTo([rows EXCEPT ![i] = row])
                \/ \E i \in 1..(Len(rows) + 1) : TamperTo(With(i, row))
    BY <1>4 DEF TamperForge
  <2>2. PICK mac \in KnownMacs \cup {calculate_event_mac(ForeignKey, seq, ev, prev)} :
            \/ \E i \in DOMAIN rows :
                  TamperTo([rows EXCEPT ![i] = ForgedRow(seq, ev, prev, mac)])
            \/ \E i \in 1..(Len(rows) + 1) :
                  TamperTo(With(i, ForgedRow(seq, ev, prev, mac)))
    BY <2>1
  <2> DEFINE row == ForgedRow(seq, ev, prev, mac)
  <2>3. KnownMacs \subseteq Macs /\ seq \in Nat
    BY GenesisType DEF KnownMacs
  <2>4. row \in Row
    BY <2>3, MacType DEF Row, ForgedRow
  <2>5. UnforgedMac(mac)
    <3>1. CASE mac \in KnownMacs
      BY <3>1 DEF KnownMacs, UnforgedMac, GENESIS_MAC
    <3>2. CASE mac = calculate_event_mac(ForeignKey, seq, ev, prev)
      <4>1. mac[Len(mac)] = [key |-> ForeignKey, seq |-> seq, ev |-> ev]
        BY <2>3, <3>2 DEF calculate_event_mac, Macs
      <4> QED
        BY <4>1 DEF UnforgedMac, IntegrityKey, ForeignKey
    <3> QED
      BY <3>1, <3>2
  <2>6. row \in GoodRows
    BY <2>4, <2>5 DEF GoodRows, ForgedRow
  <2> HIDE DEF row
  <2>7. ASSUME NEW i \in DOMAIN rows
        PROVE  [rows EXCEPT ![i] = row] \in Seq(GoodRows)
    BY <2>6
  <2>8. ASSUME NEW i \in 1..(Len(rows) + 1)
        PROVE  With(i, row) \in Seq(GoodRows)
    <3>1. \A j \in 1..(Len(rows) + 1) :
              (IF j < i THEN rows[j] ELSE IF j = i THEN row ELSE rows[j - 1]) \in GoodRows
      BY <2>6
    <3> QED
      BY <3>1 DEF With
  <2> QED
    BY <2>2, <2>7, <2>8 DEF row
<1>5. CASE TamperReorder
  <2>1. PICK i \in DOMAIN rows, j \in DOMAIN rows :
            TamperTo([rows EXCEPT ![i] = [rows[j] EXCEPT !.seq = rows[i].seq],
                                  ![j] = [rows[i] EXCEPT !.seq = rows[j].seq]])
    BY <1>5 DEF TamperReorder
  <2>2. /\ [rows[j] EXCEPT !.seq = rows[i].seq] \in GoodRows
        /\ [rows[i] EXCEPT !.seq = rows[j].seq] \in GoodRows
    <3>1. rows[i] \in GoodRows /\ rows[j] \in GoodRows
      OBVIOUS
    <3> QED
      BY <3>1 DEF GoodRows, Row
  <2>3. [rows EXCEPT ![i] = [rows[j] EXCEPT !.seq = rows[i].seq],
                     ![j] = [rows[i] EXCEPT !.seq = rows[j].seq]] \in Seq(GoodRows)
    BY <2>2
  <2> QED
    BY <2>1, <2>3
<1> QED
  BY <1>2, <1>3, <1>4, <1>5 DEF Tamper


\* The initial state satisfies the invariant of edited storage.
LEMMA InitTamperInv == Init => TamperInv
<1> SUFFICES ASSUME Init PROVE TamperInv
  OBVIOUS
<1>1. Unforged
  BY DEF Init, Unforged
<1>2. ScanCounts /\ AcceptedIsTable /\ AcceptedIsGenuine
  BY DEF Init, ScanCounts, AcceptedIsTable, AcceptedIsGenuine
<1> QED
  BY <1>1, <1>2, InitTyped DEF TamperInv

\* An edit happens while nobody scans, and changes no verdict.
LEMMA EditTamperInv ==
    ASSUME TamperInv, Tamper
    PROVE  TamperInv'
<1>1. PICK table \in Seq(GoodRows) : TamperTo(table)
  BY TamperTable DEF TamperInv, Typed, TypeOK
<1>2. table \in Seq(Row)
  BY DEF GoodRows
<1> USE <1>1 DEF TamperInv, TamperTo, writerVars, verifierVars
<1>3. Typed'
  BY <1>2 DEF Typed, TypeOK, WriterHasEvent
<1>4. Unforged'
  BY DEF Unforged, GoodRows, UnforgedMac
<1>5. ScanCounts' /\ AcceptedIsTable' /\ AcceptedIsGenuine'
  BY DEF ScanCounts, AcceptedIsTable, AcceptedIsGenuine, Readers
<1> QED
  BY <1>3, <1>4, <1>5

\* append preserves it: only a commit issues a MAC.
LEMMA AppendTamperInv ==
    ASSUME TamperInv, NEW w \in Writers,
           (\E e \in Events : AppendCall(w, e)) \/ WriterStep(w) \/ Crash(w)
    PROVE  TamperInv'
<1>1. Typed /\ Typed'
  BY AppendTyped DEF TamperInv
<1>2. CASE CommitDone(w)
  <2>1. NewRow(w) \in Row
    BY <1>1, <1>2, MacType DEF CommitDone, NewRow, Row, Typed, TypeOK, WriterHasEvent,
       InTransaction
  <2>2. Unforged'
    <3>1. rows \in Seq(GoodRows')
      BY <1>2 DEF TamperInv, Unforged, GoodRows, UnforgedMac, CommitDone
    <3>2. NewRow(w) \in GoodRows'
      BY <1>2, <2>1 DEF GoodRows, UnforgedMac, CommitDone
    <3> QED
      BY <1>2, <3>1, <3>2 DEF Unforged, CommitDone
  <2>3. ScanCounts' /\ AcceptedIsTable' /\ AcceptedIsGenuine'
    BY <1>2 DEF TamperInv, CommitDone, ScanCounts, AcceptedIsTable, AcceptedIsGenuine,
       Readers, verifierVars
  <2> QED
    BY <1>1, <2>2, <2>3 DEF TamperInv
<1>3. CASE UNCHANGED <<rows, issued, verifierVars>>
  <2>1. Unforged' /\ ScanCounts' /\ AcceptedIsTable' /\ AcceptedIsGenuine'
    BY <1>3 DEF TamperInv, Unforged, GoodRows, UnforgedMac, ScanCounts, AcceptedIsTable,
       AcceptedIsGenuine, verifierVars
  <2> QED
    BY <1>1, <2>1 DEF TamperInv
<1>4. CASE \E a \in Answered : Raise(w, a)
  BY <1>3, <1>4 DEF Raise
<1> QED
  BY <1>2, <1>3, <1>4
     DEF AppendCall, WriterStep, WriterProgress, LoadKeyFails, BeginImmediate, BeginBusy, NextChainLink,
         HeadInvalid, Insert, InsertConflict, CommitPending, CommitBusy, StorageFails,
         AppendReturns, Crash, Raise, Answered

\* The prefixes of an extended MAC.
LEMMA PrefixesOfAppend ==
    ASSUME NEW S, NEW p \in Seq(S), NEW x \in S
    PROVE  Prefixes(Append(p, x)) \subseteq Prefixes(p) \cup {Append(p, x)}
<1> DEFINE q == Append(p, x)
<1>1. q \in Seq(S) /\ Len(q) = Len(p) + 1
  OBVIOUS
<1> SUFFICES ASSUME NEW n \in 1..(Len(p) + 1)
             PROVE  SubSeq(q, 1, n) \in Prefixes(p) \cup {q}
  BY <1>1 DEF Prefixes
<1>2. CASE n = Len(p) + 1
  <2>1. SubSeq(q, 1, Len(q)) = q
    BY <1>1
  <2> QED
    BY <1>1, <1>2, <2>1
<1>3. CASE n \in 1..Len(p)
  <2>1. SubSeq(q, 1, n) = SubSeq(p, 1, n)
    BY <1>1, <1>3
  <2> QED
    BY <1>3, <2>1 DEF Prefixes
<1> QED
  BY <1>2, <1>3

\* verify_integrity preserves it: an accepted row extends an issued MAC.
LEMMA VerifyTamperInv ==
    ASSUME TamperInv, NEW v \in Verifiers,
           VerifyStarts(v) \/ VerifyBusy(v) \/ VerifyStorageFails(v) \/ VerifierStep(v)
    PROVE  TamperInv'
<1>1. Typed /\ Typed' /\ UNCHANGED <<rows, issued>>
  BY VerifyTyped DEF TamperInv, VerifyStarts, VerifyBusy, VerifyStorageFails,
     VerifierStep, VerifyRow, VerifyRowFails, VerifySucceeds, VerifierGoes
<1>2. Unforged'
  BY <1>1 DEF TamperInv, Unforged, GoodRows, UnforgedMac
<1>3. CASE VerifyStarts(v)
  <2>1. Prefixes(GENESIS_MAC) = {}
    BY DEF Prefixes, GENESIS_MAC
  <2>2. ScanCounts' /\ AcceptedIsTable'
    BY <1>1, <1>3 DEF VerifyStarts, VerifierGoes, TamperInv, ScanCounts, AcceptedIsTable,
       Typed, TypeOK, GENESIS_MAC
  <2>3. AcceptedIsGenuine'
    BY <1>1, <1>3, <2>1 DEF VerifyStarts, VerifierGoes, TamperInv, AcceptedIsGenuine,
       Typed, TypeOK, GENESIS_MAC
  <2> QED
    BY <1>1, <1>2, <2>2, <2>3 DEF TamperInv
<1>4. CASE VerifyRow(v)
  <2> PICK row \in GoodRows : row = rows[vpos[v] + 1]
    BY <1>1, <1>4 DEF VerifyRow, TamperInv, Unforged, Typed, TypeOK
  <2> PICK p \in Macs : p = vprev[v]
    BY <1>1 DEF Typed, TypeOK
  <2> DEFINE link == [key |-> IntegrityKey, seq |-> row.seq, ev |-> row.ev]
  <2>1. link \in Link
    BY DEF GoodRows, Row, Link
  <2>2. row.mac = Append(p, link) /\ row.seq = vseq[v]
    BY <1>4 DEF VerifyRow, RowVerifies, calculate_event_mac
  <2>3. Len(p) = vpos[v] /\ vseq[v] = vpos[v] + 1 /\ vpos[v] \in Nat
    BY <1>1, <1>4 DEF VerifyRow, TamperInv, AcceptedIsTable, ScanCounts, Typed, TypeOK
  <2> HIDE DEF link
  <2>4. /\ Len(row.mac) = vpos[v] + 1
        /\ row.mac[vpos[v] + 1] = link
        /\ \A n \in 1..vpos[v] : row.mac[n] = p[n]
        /\ DOMAIN row.mac = 1..(vpos[v] + 1)
        /\ DOMAIN p = 1..vpos[v]
    BY <2>1, <2>2, <2>3 DEF Macs
  <2>5. row.mac \in issued
    BY <2>3, <2>4 DEF GoodRows, UnforgedMac, link
  <2>6. Prefixes(row.mac) \subseteq issued
    <3>1. Prefixes(p) \subseteq issued
      BY <1>4 DEF VerifyRow, TamperInv, AcceptedIsGenuine
    <3>2. Prefixes(Append(p, link)) \subseteq Prefixes(p) \cup {Append(p, link)}
      BY <2>1, PrefixesOfAppend DEF Macs
    <3> QED
      BY <2>2, <2>5, <3>1, <3>2
  <2>7. \A n \in DOMAIN row.mac : row.mac[n].seq = n /\ row.mac[n].key = IntegrityKey
    <3>1. \A n \in 1..vpos[v] : p[n].seq = n /\ p[n].key = IntegrityKey
      BY <1>4, <2>4 DEF VerifyRow, TamperInv, AcceptedIsGenuine
    <3> QED
      BY <2>2, <2>3, <2>4, <3>1 DEF link
  <2>8. vprev'[v] = row.mac /\ vpos'[v] = vpos[v] + 1 /\ vseq'[v] = vseq[v] + 1
    BY <1>1, <1>4 DEF VerifyRow, Typed, TypeOK
  <2>9. \A u \in Verifiers : u # v =>
            /\ vprev'[u] = vprev[u] /\ vpos'[u] = vpos[u] /\ vseq'[u] = vseq[u]
            /\ vpc'[u] = vpc[u]
    BY <1>1, <1>4 DEF VerifyRow, VerifierGoes, Typed, TypeOK
  <2>10. AcceptedIsGenuine'
    BY <1>1, <2>6, <2>7, <2>8, <2>9 DEF TamperInv, AcceptedIsGenuine
  <2>11. ScanCounts'
    BY <2>3, <2>8, <2>9 DEF TamperInv, ScanCounts
  <2>12. \A n \in 1..vpos'[v] : vprev'[v][n].ev = rows[n].ev
    <3>1. \A n \in 1..vpos[v] : p[n].ev = rows[n].ev
      BY <1>4 DEF VerifyRow, TamperInv, AcceptedIsTable
    <3>2. link.ev = rows[vpos[v] + 1].ev
      BY DEF link
    <3>3. \A n \in 1..(vpos[v] + 1) : n \in 1..vpos[v] \/ n = vpos[v] + 1
      BY <2>3
    <3> QED
      BY <2>4, <2>8, <3>1, <3>2, <3>3
  <2>13. AcceptedIsTable'
    <3>1. Len(vprev'[v]) = vpos'[v] /\ vpos'[v] <= Len(rows)
      BY <1>1, <1>4, <2>3, <2>4, <2>8 DEF VerifyRow, Typed, TypeOK
    <3> QED
      BY <1>1, <2>9, <2>12, <3>1 DEF TamperInv, AcceptedIsTable
  <2> QED
    BY <1>1, <1>2, <2>10, <2>11, <2>13 DEF TamperInv
<1>5. CASE VerifyBusy(v) \/ VerifyStorageFails(v) \/ VerifyRowFails(v) \/ VerifySucceeds(v)
  <2>1. UNCHANGED <<vpos, vseq, vprev>>
    BY <1>5 DEF VerifyBusy, VerifyStorageFails, VerifyRowFails, VerifySucceeds
  <2>2. \A u \in Verifiers :
            /\ vpc'[u] = "scanning" => vpc[u] = "scanning"
            /\ vpc'[u] = "ok" => vpc[u] \in {"scanning", "ok"}
    BY <1>1, <1>5 DEF VerifyBusy, VerifyStorageFails, VerifyRowFails, VerifySucceeds,
       VerifierGoes, Typed, TypeOK
  <2>3. ScanCounts' /\ AcceptedIsTable' /\ AcceptedIsGenuine'
    BY <1>1, <2>1, <2>2 DEF TamperInv, ScanCounts, AcceptedIsTable, AcceptedIsGenuine
  <2> QED
    BY <1>1, <1>2, <2>3 DEF TamperInv
<1> QED
  BY <1>3, <1>4, <1>5 DEF VerifierStep

\* The invariant is inductive, edits of the file included.
LEMMA StepTamperInv == TamperInv /\ [Next \/ Tamper]_vars => TamperInv'
<1>1. TamperInv /\ UNCHANGED vars => TamperInv'
  BY StutterTyped DEF TamperInv, Unforged, GoodRows, UnforgedMac, ScanCounts,
     AcceptedIsTable, AcceptedIsGenuine, vars, verifierVars
<1> QED
  BY <1>1, AppendTamperInv, VerifyTamperInv, EditTamperInv DEF Next

\* It holds of every reachable state of TamperSpec.
LEMMA TamperInvHolds == TamperSpec => []TamperInv
BY InitTamperInv, StepTamperInv, PTL DEF TamperSpec

(***************************************************************************)
(* Every reachable state is well typed, on edited storage too.             *)
(***************************************************************************)
THEOREM TypeCorrect == TamperSpec => []TypeOK
BY TamperInvHolds, PTL DEF TamperInv, Typed

(***************************************************************************)
(* Tamper evidence: after any number of edits by somebody without the      *)
(* integrity key, what verify_integrity accepts is a history that appends  *)
(* really signed, in that order, without a gap.                            *)
(***************************************************************************)
THEOREM AcceptedHistoryIsGenuine == TamperSpec => []AcceptedIsGenuine
BY TamperInvHolds, PTL DEF TamperInv

(***************************************************************************)
(* The accepted history is the content of the table that was scanned.      *)
(***************************************************************************)
THEOREM AcceptedHistoryIsTable == TamperSpec => []AcceptedIsTable
BY TamperInvHolds, PTL DEF TamperInv

-----------------------------------------------------------------------------
(***************************************************************************)
(* append implements the atomic log.                                       *)
(***************************************************************************)
AbsPhase == [w \in Writers |-> IF wpc[w] \in InTransaction THEN "called" ELSE wpc[w]]

AbsLog == [i \in DOMAIN rows |-> rows[i].ev]

\* The ids the abstract log knows are the ids in the table.
LEMMA AbstractIds ==
    AbstractLog!Ids = {rows[i].ev.id : i \in DOMAIN rows}
BY DEF AbstractLog!Ids

\* A raise is invisible but for the answer it gives.
LEMMA RaiseAbstract ==
    ASSUME Typed, NEW w \in Writers, NEW a \in Answered, Raise(w, a)
    PROVE  /\ AbsPhase' = [AbsPhase EXCEPT ![w] = a]
           /\ AbsLog' = AbsLog
           /\ wev' = wev
<1>1. wpc' = [wpc EXCEPT ![w] = a] /\ a \notin InTransaction
  BY DEF Raise, Answered, InTransaction
<1>2. AbsPhase' = [AbsPhase EXCEPT ![w] = a]
  BY <1>1 DEF AbsPhase, Typed, TypeOK
<1> QED
  BY <1>2 DEF Raise, AbsLog

\* Every step of append is a step of AuditLog or changes nothing it can see.
LEMMA AppendAbstract ==
    ASSUME ChainInv, NEW w \in Writers,
           (\E e \in Events : AppendCall(w, e)) \/ WriterStep(w) \/ Crash(w)
    PROVE  [AbstractLog!Next]_(AbstractLog!vars)
<1> USE DEF AbstractLog!Answers
<1>1. Typed /\ AbsPhase \in [Writers -> AbstractLog!Phases]
  BY DEF ChainInv, Typed, TypeOK, AbsPhase, AbstractLog!Phases, WriterPcs, InTransaction, Answered
<1>2. CASE \E e \in Events : AppendCall(w, e)
  <2>1. PICK e \in Events : AppendCall(w, e)
    BY <1>2
  <2>2. AbsPhase' = [AbsPhase EXCEPT ![w] = "called"]
    BY <1>1, <2>1 DEF AppendCall, AbsPhase, Typed, TypeOK, InTransaction
  <2>3. AbsPhase[w] \in AbstractLog!Answers \cup {"idle"}
    BY <2>1 DEF AppendCall, AbsPhase, Answered, InTransaction
  <2>4. AbstractLog!Call(w, e)
    BY <2>1, <2>2, <2>3 DEF AbstractLog!Call, AbsPhase, AppendCall
  <2> QED
    BY <2>4 DEF AbstractLog!Next
<1>3. CASE BeginImmediate(w) \/ NextChainLink(w) \/ Insert(w) \/ CommitPending(w)
  <2>1. /\ AbsPhase' = AbsPhase
        /\ wev' = wev
        /\ rows' = rows
    BY <1>1, <1>3 DEF BeginImmediate, NextChainLink, Insert, CommitPending, AbsPhase,
       Typed, TypeOK, InTransaction
  <2> QED
    BY <2>1 DEF AbstractLog!vars, AbsPhase
<1>4. CASE CommitDone(w)
  <2>1. AbsPhase' = [AbsPhase EXCEPT ![w] = "persisted"]
    BY <1>1, <1>4 DEF CommitDone, AbsPhase, Typed, TypeOK, InTransaction
  <2>2. AbsPhase[w] = "called"
    BY <1>4 DEF CommitDone, AbsPhase, InTransaction
  <2>3. wev[w].id \notin AbstractLog!Ids
    BY <1>4, AbstractIds DEF CommitDone, ChainInv, FreshInv
  <2>4. AbsLog' = Append(AbsLog, wev[w])
    <3>1. rows \in Seq(Row) /\ AbsLog \in Seq(Events)
      <4>1. rows \in Seq(Row)
        BY <1>1 DEF Typed, TypeOK
      <4>2. \A i \in DOMAIN rows : rows[i].ev \in Events
        <5>1. \A i \in DOMAIN rows : rows[i] \in Row
          BY <4>1
        <5> QED
          BY <5>1 DEF Row
      <4>3. DOMAIN rows = 1..Len(rows) /\ Len(rows) \in Nat
        BY <4>1
      <4> QED
        BY <4>1, <4>2, <4>3 DEF AbsLog
    <3>2. Len(AbsLog) = Len(rows)
      BY <3>1 DEF AbsLog
    <3>3. /\ rows' = Append(rows, NewRow(w))
          /\ NewRow(w).ev = wev[w]
      BY <1>4 DEF CommitDone, NewRow
    <3>4. DOMAIN rows' = 1..(Len(rows) + 1)
      BY <3>1, <3>3
    <3>5. /\ rows'[Len(rows) + 1] = NewRow(w)
          /\ \A i \in 1..Len(rows) : rows'[i] = rows[i]
      BY <3>1, <3>3
    <3>6. wev[w] \in Events
      BY <1>1, <1>4 DEF CommitDone, Typed, WriterHasEvent, InTransaction
    <3>7. AbsLog' = [i \in 1..(Len(rows) + 1) |-> rows'[i].ev]
      BY <3>4 DEF AbsLog
    <3>8. Append(AbsLog, wev[w]) = [i \in 1..(Len(rows) + 1) |->
                                      IF i = Len(rows) + 1 THEN wev[w] ELSE AbsLog[i]]
      BY <3>1, <3>2, <3>6
    <3>9. \A i \in 1..(Len(rows) + 1) :
              rows'[i].ev = IF i = Len(rows) + 1 THEN wev[w] ELSE AbsLog[i]
      BY <3>1, <3>3, <3>5 DEF AbsLog
    <3> QED
      BY <3>7, <3>8, <3>9
  <2>5. AbstractLog!Persist(w)
    BY <1>4, <2>1, <2>2, <2>3, <2>4 DEF AbstractLog!Persist, AbsPhase, AbsLog, CommitDone
  <2> QED
    BY <2>5 DEF AbstractLog!Next
<1>5. CASE AppendReturns(w)
  <2>1. AbsPhase' = [AbsPhase EXCEPT ![w] = "ok"]
    BY <1>1, <1>5 DEF AppendReturns, AbsPhase, Typed, TypeOK, InTransaction
  <2>2. AbsPhase[w] = "persisted"
    BY <1>5 DEF AppendReturns, AbsPhase, InTransaction
  <2>3. AbstractLog!Acknowledge(w)
    BY <1>5, <2>1, <2>2 DEF AbstractLog!Acknowledge, AbsPhase, AppendReturns
  <2> QED
    BY <2>3 DEF AbstractLog!Next
<1>6. CASE InsertConflict(w)
  <2>1. wseq[w] = Len(rows) + 1
    BY <1>6 DEF InsertConflict, ChainInv, LinkInv
  <2>2. wev[w].id \in AbstractLog!Ids
    BY <1>1, <1>6, <2>1, SeqIsPosition, AbstractIds
       DEF InsertConflict, Conflicts, ChainInv, Typed, TypeOK
  <2>3. AbsPhase[w] = "called"
    BY <1>6 DEF InsertConflict, AbsPhase, InTransaction
  <2>4. AbstractLog!Duplicate(w)
    BY <1>1, <1>6, <2>2, <2>3, RaiseAbstract
       DEF InsertConflict, Answered, AbstractLog!Duplicate, AbsPhase, AbsLog
  <2> QED
    BY <2>4 DEF AbstractLog!Next
<1>7. CASE /\ wpc[w] \in InTransaction \cup {"called"}
           /\ Raise(w, "error")
  <2>1. AbsPhase[w] = "called"
    BY <1>7 DEF AbsPhase, InTransaction
  <2>2. AbstractLog!Fail(w)
    BY <1>1, <1>7, <2>1, RaiseAbstract DEF Answered, AbstractLog!Fail, AbsPhase, AbsLog
  <2> QED
    BY <2>2 DEF AbstractLog!Next
<1>8. CASE Crash(w)
  <2>1. AbsPhase[w] \in {"called", "persisted"}
    BY <1>1, <1>8 DEF Crash, AbsPhase, InTransaction, Answered, Typed, TypeOK, WriterPcs
  <2>2. AbstractLog!Die(w)
    BY <1>1, <1>8, <2>1, RaiseAbstract
       DEF Crash, Answered, AbstractLog!Die, AbsPhase, AbsLog
  <2> QED
    BY <2>2 DEF AbstractLog!Next
<1> QED
  BY <1>2, <1>3, <1>4, <1>5, <1>6, <1>7, <1>8
     DEF WriterStep, WriterProgress, LoadKeyFails, BeginBusy, HeadInvalid, CommitBusy, StorageFails,
         InTransaction

\* Every step of AuditChain is a step of AuditLog or a stutter.
LEMMA StepAbstract ==
    ChainInv /\ [Next]_vars => [AbstractLog!Next]_(AbstractLog!vars)
<1>1. ASSUME NEW v \in Verifiers,
             VerifyStarts(v) \/ VerifyBusy(v) \/ VerifyStorageFails(v) \/ VerifierStep(v)
      PROVE  UNCHANGED AbstractLog!vars
  BY <1>1 DEF VerifyStarts, VerifyBusy, VerifyStorageFails, VerifierStep, VerifyRow,
     VerifyRowFails, VerifySucceeds, VerifierGoes, writerVars, AbstractLog!vars
<1>2. UNCHANGED vars => UNCHANGED AbstractLog!vars
  BY DEF vars, writerVars, AbstractLog!vars
<1> QED
  BY <1>1, <1>2, AppendAbstract DEF Next

\* The initial state maps to an initial state of AuditLog.
LEMMA InitAbstract == Init => AbstractLog!Init
BY DEF Init, AbstractLog!Init, InTransaction

(***************************************************************************)
(* append on SQLite, with its locks, constraints, rollbacks and crashes,   *)
(* implements the atomic all-or-nothing log its callers rely on.           *)
(***************************************************************************)
THEOREM ChainImplementsLog == Spec => ImplementsAuditLog
<1>1. Spec => [][AbstractLog!Next]_(AbstractLog!vars)
  BY ChainInvHolds, StepAbstract, PTL DEF Spec
<1> QED
  BY <1>1, InitAbstract, PTL DEF Spec, ImplementsAuditLog, AbstractLog!Spec

=============================================================================
