--------------------------- MODULE StartupProofs ---------------------------
(***************************************************************************)
(* Creating and opening the databases, for any number of processes, any    *)
(* files they find, any assignment of files to roles, and failures and     *)
(* kills between any two statements.                                       *)
(***************************************************************************)
EXTENDS Startup, TLAPS

InTransaction == {"inspect", "create", "stamp", "commit"}
Labels == {"start", "file", "lock", "declare", "compare"} \cup InTransaction \cup Ended

Order(p) == Constructors[set[p].command]

\* The state is well formed.
StartupShape ==
    /\ set \in [Procs -> Settings]
    /\ pc \in [Procs -> Labels]
    /\ DOMAIN step = Procs /\ \A p \in Procs : step[p] \in 1..Len(Order(p))
    /\ draft \in [Procs -> Disk]
    /\ lock \in [Files -> Procs \cup {NoProc}]
    /\ disk \in [Files -> Disk] /\ origin \in [Files -> Disk]

\* The write lock of a file is held by the process whose transaction is open
\* on it, and by nobody else.
LockInv ==
    /\ \A p \in Procs : pc[p] \in InTransaction => lock[File(p)] = p
    /\ \A f \in Files : lock[f] # NoProc => pc[lock[f]] \in InTransaction /\ File(lock[f]) = f

\* A table the constructor of r accepts; r's table is created, or was there.
Known(r, table) == table = "ours" \/ (r = "audit" /\ table = "lookalike")
Completed(r, before, after) ==
    before[r] \in {"missing", "ours"} /\ after = [before EXCEPT ![r] = "ours"]

\* An open transaction differs from its file by the table and the version its
\* repository adds, and no other process writes that file meanwhile.
DraftAt(p) ==
    LET r == Repository(p)
        d == disk[File(p)] IN
    /\ pc[p] \in InTransaction =>
          /\ r \in Versioned /\ d.kind = "database" /\ draft[p].kind = "database"
          /\ pc[p] \in {"inspect", "create"} =>
                draft[p].tables = d.tables /\ draft[p].version = d.version
          /\ pc[p] = "create" => MayCreate(r, d)
          /\ pc[p] = "stamp" =>
                /\ d.version = 0 /\ draft[p].version = 0
                /\ Completed(r, d.tables, draft[p].tables)
          /\ pc[p] = "commit" =>
                /\ draft[p].version = Current[r]
                /\ \/ d.version = 0 /\ Completed(r, d.tables, draft[p].tables)
                   \/ /\ d.version = Current[r] /\ Known(r, d.tables[r])
                      /\ draft[p].tables = d.tables
    /\ pc[p] = "lock" => r \in Versioned
    /\ pc[p] \in {"declare", "compare"} => r \notin Versioned
    /\ pc[p] = "compare" => d.kind = "database" /\ d.tables[r] # "missing"
    /\ pc[p] \in {"lock", "declare", "compare"} \cup InTransaction =>
          d.kind # "absent" /\ d.kind \notin Links /\ d.mode = "owner"

\* What the constructor of r leaves behind.
Built(r, d) ==
    /\ d.kind = "database" /\ d.mode = "owner" /\ Known(r, d.tables[r])
    /\ r \in Versioned => d.version = Current[r]

DoneAt(p) ==
    \A i \in 1..Len(Order(p)) :
        i < step[p] \/ pc[p] = "ready" =>
            Built(Order(p)[i], disk[set[p].path[RoleOf[Order(p)[i]]]])

\* A file only repository r's role uses, and that was blank or r's own at
\* first, never holds anything r's constructor would refuse.
Own(f, r) ==
    Dedicated(f, RoleOf[r]) /\ (Blank(origin[f]) \/ OwnSchema(r, origin[f]))

OwnInv ==
    \A f \in Files : \A r \in Repositories : Own(f, r) =>
        /\ disk[f].tables[r] \in {"missing", "ours"}
        /\ r \in Versioned =>
              IF disk[f].tables[r] = "missing" THEN disk[f].version = 0
                                               ELSE disk[f].version \in Accepted[r]

StartupInv ==
    /\ StartupShape /\ LockInv /\ OwnInv
    /\ \A p \in Procs : DraftAt(p) /\ DoneAt(p)
    /\ OwnDatabaseIsAccepted

-----------------------------------------------------------------------------
(***************************************************************************)
(* Constants.                                                              *)
(***************************************************************************)

\* The constructors of a command are repositories, and there is at least one.
LEMMA ConstructorsShape ==
    ASSUME NEW c \in DOMAIN Constructors
    PROVE  /\ Len(Constructors[c]) \in Nat \ {0}
           /\ DOMAIN Constructors[c] = 1..Len(Constructors[c])
           /\ \A i \in 1..Len(Constructors[c]) : Constructors[c][i] \in Repositories
<1>1. CASE c \in {"access", "validate"}
  <2>1. Constructors[c] = Application
    BY <1>1 DEF Constructors
  <2>2. Len(Application) = 6 /\ DOMAIN Application = 1..6
    BY DEF Application
  <2>3. \A i \in 1..6 : Application[i] \in Repositories
    BY DEF Application, Repositories
  <2> QED
    BY <2>1, <2>2, <2>3
<1>2. CASE c = "provision"
  BY <1>2 DEF Constructors, Repositories
<1>3. CASE c = "verify"
  BY <1>3 DEF Constructors, Repositories
<1> QED
  BY <1>1, <1>2, <1>3 DEF Constructors

\* A versioned repository has its role to itself, and a version it accepts.
LEMMA VersionedAlone ==
    /\ Versioned \subseteq Repositories
    /\ \A r \in Repositories : RoleOf[r] \in Roles
    /\ \A r \in Versioned, s \in Repositories : RoleOf[r] = RoleOf[s] => r = s
    /\ \A r \in Versioned :
          /\ Current[r] \in 1..2 /\ Current[r] \in Accepted[r]
          /\ \A v \in Accepted[r] : v = 0 \/ v = Current[r]
BY DEF Versioned, Repositories, RoleOf, Roles, Current, Accepted

\* Where a process is, it is in a constructor of a repository, on a file.
LEMMA Position ==
    ASSUME StartupShape, NEW p \in Procs
    PROVE  /\ set[p].command \in DOMAIN Constructors
           /\ Len(Order(p)) \in Nat \ {0}
           /\ DOMAIN Order(p) = 1..Len(Order(p))
           /\ \A i \in 1..Len(Order(p)) :
                 /\ Order(p)[i] \in Repositories
                 /\ set[p].path[RoleOf[Order(p)[i]]] \in Files
           /\ Repository(p) \in Repositories /\ File(p) \in Files
<1>1. set[p] \in Setting
  BY SettingsAssumption DEF StartupShape
<1>2. /\ set[p].command \in DOMAIN Constructors
      /\ set[p].path \in [Roles -> Files]
  BY <1>1 DEF Setting
<1>3. /\ Len(Order(p)) \in Nat \ {0}
      /\ DOMAIN Order(p) = 1..Len(Order(p))
      /\ \A i \in 1..Len(Order(p)) : Order(p)[i] \in Repositories
  BY <1>2, ConstructorsShape DEF Order
<1>4. \A i \in 1..Len(Order(p)) : set[p].path[RoleOf[Order(p)[i]]] \in Files
  BY <1>2, <1>3, VersionedAlone
<1>5. step[p] \in 1..Len(Order(p))
  BY DEF StartupShape
<1> QED
  BY <1>2, <1>3, <1>4, <1>5 DEF Repository, File, Order

\* The blank file is a file.
LEMMA EmptyIsDisk == Empty \in Disk /\ Empty.kind = "database" /\ Empty.mode = "owner"
BY DEF Empty, Disk, Content, NoTables, Tables

LEMMA InitStartup == Init => StartupInv
<1> SUFFICES ASSUME Init PROVE StartupInv
  OBVIOUS
<1>1. StartupShape
  <2>1. \A p \in Procs : Len(Order(p)) \in Nat \ {0}
    <3>1. \A p \in Procs : set[p] \in Setting
      BY SettingsAssumption DEF Init
    <3> QED
      BY <3>1, ConstructorsShape DEF Order, Setting
  <2> QED
    BY <2>1, EmptyIsDisk, DisksAssumption, NoProcAssumption
       DEF Init, StartupShape, Labels
<1>2. LockInv
  BY DEF Init, LockInv, InTransaction
<1>3. \A p \in Procs : DraftAt(p) /\ DoneAt(p)
  <2>1. \A p \in Procs : \A i \in 1..Len(Order(p)) : ~ (i < step[p])
    BY <1>1, Position DEF Init
  <2> QED
    BY <2>1 DEF Init, DraftAt, DoneAt, InTransaction
<1>4. OwnInv
  BY VersionedAlone DEF Init, OwnInv, Own, Blank, OwnSchema, NoTables
<1>5. OwnDatabaseIsAccepted
  BY DEF Init, OwnDatabaseIsAccepted
<1> QED
  BY <1>1, <1>2, <1>3, <1>4, <1>5 DEF StartupInv

-----------------------------------------------------------------------------
(***************************************************************************)
(* What a step of one process can do to the others and to the files.       *)
(***************************************************************************)
ProcNext(p) ==
    \/ Begin(p) \/ Rejected(p)
    \/ EnsureFile(p) \/ FileIsLink(p)
    \/ BeginImmediate(p) \/ DatabaseFails(p)
    \/ Inspect(p) \/ CreateTable(p) \/ StampVersion(p) \/ Commit(p)
    \/ DeclareTable(p) \/ DefinitionMatches(p) \/ DefinitionDiffers(p)
    \/ CallFails(p) \/ Kill(p)

OthersUnchanged(q) ==
    /\ UNCHANGED <<set, origin>>
    /\ \A p \in Procs \ {q} : pc'[p] = pc[p] /\ step'[p] = step[p] /\ draft'[p] = draft[p]

\* The ways in which a file changes: it is created or made private, a
\* transaction is committed, or a table of config.db is declared.
Ensured(d, e) ==
    /\ d.kind \notin Links /\ e.kind = (IF d.kind = "absent" THEN "database" ELSE d.kind)
    /\ e.mode = "owner" /\ e.tables = d.tables /\ e.version = d.version

Committed(r, d, e) ==
    /\ r \in Versioned
    /\ d.kind = "database" /\ e.kind = d.kind /\ e.mode = d.mode
    /\ e.version = Current[r]
    /\ \/ d.version = 0 /\ Completed(r, d.tables, e.tables)
       \/ d.version = Current[r] /\ Known(r, d.tables[r]) /\ e.tables = d.tables

Declared(r, d, e) ==
    /\ r \notin Versioned
    /\ d.kind = "database" /\ e.kind = d.kind /\ e.mode = d.mode /\ e.version = d.version
    /\ d.tables[r] = "missing" /\ e.tables = [d.tables EXCEPT ![r] = "ours"]

Effect(q) ==
    /\ \A g \in Files \ {File(q)} : disk'[g] = disk[g]
    /\ LET r == Repository(q)
           d == disk[File(q)]
           e == disk'[File(q)] IN
       \/ e = d
       \/ Ensured(d, e)
       \/ lock[File(q)] = q /\ Committed(r, d, e)
       \/ lock[File(q)] = NoProc /\ Declared(r, d, e)

\* A file is only ever completed.
LEMMA EffectGrows ==
    ASSUME StartupShape, StartupShape', NEW q \in Procs, Effect(q), NEW f \in Files
    PROVE  /\ disk[f].kind # "absent" => disk'[f].kind = disk[f].kind
           /\ disk[f].kind # "absent" /\ disk[f].mode = "owner" => disk'[f].mode = "owner"
           /\ \A r \in Repositories :
                 disk[f].tables[r] # "missing" => disk'[f].tables[r] = disk[f].tables[r]
           /\ disk[f].version # 0 => disk'[f].version = disk[f].version
           /\ lock[f] \notin {q, NoProc} =>
                 disk'[f].tables = disk[f].tables /\ disk'[f].version = disk[f].version
<1>1. disk[f] \in Content /\ disk'[f] \in Content
  BY DEF StartupShape, Disk
<1>2. CASE f # File(q)
  BY <1>2 DEF Effect
<1>3. CASE f = File(q)
  BY <1>1, <1>3 DEF Effect, Ensured, Committed, Completed, Declared, Content
<1> QED
  BY <1>2, <1>3

\* What a constructor built stays built.
LEMMA BuiltStays ==
    ASSUME StartupShape, StartupShape', NEW q \in Procs, Effect(q),
           NEW f \in Files, NEW r \in Repositories, Built(r, disk[f])
    PROVE  Built(r, disk'[f])
<1>1. r \in Versioned => Current[r] # 0
  BY VersionedAlone
<1> QED
  BY <1>1, EffectGrows DEF Built, Known

\* Another process finds its transaction, and what it built, as it left them.
LEMMA OthersKeep ==
    ASSUME StartupInv, StartupShape', NEW q \in Procs, OthersUnchanged(q), Effect(q),
           NEW p \in Procs \ {q}
    PROVE  DraftAt(p)' /\ DoneAt(p)' /\ File(p)' = File(p)
<1>1. /\ set'[p] = set[p] /\ pc'[p] = pc[p] /\ step'[p] = step[p] /\ draft'[p] = draft[p]
      /\ Order(p)' = Order(p) /\ Repository(p)' = Repository(p) /\ File(p)' = File(p)
  BY DEF OthersUnchanged, Order, Repository, File
<1>2. Repository(p) \in Repositories /\ File(p) \in Files
  BY Position DEF StartupInv
<1>3. DraftAt(p)'
  <2>1. pc[p] \in InTransaction => lock[File(p)] \notin {q, NoProc}
    BY NoProcAssumption DEF StartupInv, LockInv
  <2>2. pc[p] \in InTransaction =>
           disk'[File(p)].tables = disk[File(p)].tables
             /\ disk'[File(p)].version = disk[File(p)].version
    BY <1>2, <2>1, EffectGrows DEF StartupInv
  <2>3. /\ disk[File(p)].kind # "absent" => disk'[File(p)].kind = disk[File(p)].kind
        /\ disk[File(p)].kind # "absent" /\ disk[File(p)].mode = "owner" =>
              disk'[File(p)].mode = "owner"
        /\ disk[File(p)].tables[Repository(p)] # "missing" =>
              disk'[File(p)].tables[Repository(p)] = disk[File(p)].tables[Repository(p)]
    BY <1>2, EffectGrows DEF StartupInv
  <2>4. DraftAt(p)
    BY DEF StartupInv
  <2> QED
    BY <1>1, <2>2, <2>3, <2>4 DEF DraftAt, MayCreate, InTransaction
<1>4. DoneAt(p)'
  <2>1. DoneAt(p)
    BY DEF StartupInv
  <2>2. ASSUME NEW i \in 1..Len(Order(p)),
               Built(Order(p)[i], disk[set[p].path[RoleOf[Order(p)[i]]]])
        PROVE  Built(Order(p)[i], disk[set[p].path[RoleOf[Order(p)[i]]]])'
    <3>1. Order(p)[i] \in Repositories /\ set[p].path[RoleOf[Order(p)[i]]] \in Files
      BY Position DEF StartupInv
    <3> QED
      BY <1>1, <2>2, <3>1, BuiltStays DEF StartupInv
  <2> QED
    BY <1>1, <2>1, <2>2 DEF DoneAt
<1> QED
  BY <1>1, <1>3, <1>4

\* A file of one's own stays one's own.
LEMMA OwnKeeps ==
    ASSUME StartupInv, StartupShape', NEW q \in Procs, OthersUnchanged(q), Effect(q)
    PROVE  OwnInv'
<1> SUFFICES ASSUME NEW f \in Files, NEW r \in Repositories, Own(f, r)'
             PROVE  /\ disk'[f].tables[r] \in {"missing", "ours"}
                    /\ r \in Versioned =>
                          IF disk'[f].tables[r] = "missing" THEN disk'[f].version = 0
                                                        ELSE disk'[f].version \in Accepted[r]
  BY DEF OwnInv
<1>1. Own(f, r)
  BY DEF Own, Dedicated, OthersUnchanged
<1>2. /\ disk[f].tables[r] \in {"missing", "ours"}
      /\ r \in Versioned => IF disk[f].tables[r] = "missing" THEN disk[f].version = 0
                                                             ELSE disk[f].version \in Accepted[r]
  BY <1>1 DEF StartupInv, OwnInv
<1>3. CASE f # File(q)
  BY <1>2, <1>3 DEF Effect
<1>4. CASE f = File(q)
  <2>1. Repository(q) \in Repositories /\ RoleOf[Repository(q)] \in Roles
    BY Position, VersionedAlone DEF StartupInv
  <2>2. RoleOf[Repository(q)] = RoleOf[r]
    BY <1>1, <1>4, <2>1 DEF Own, Dedicated, File
  <2>3. r \in Versioned \/ Repository(q) \in Versioned => r = Repository(q)
    BY <2>1, <2>2, VersionedAlone
  <2>4. disk[f] \in Content /\ disk'[f] \in Content
    BY DEF StartupShape, StartupInv, Disk
  <2>5. r \in Versioned => Current[r] \in Accepted[r]
    BY VersionedAlone
  <2> QED
    BY <1>2, <1>4, <2>1, <2>3, <2>4, <2>5 DEF Effect, Ensured, Committed, Completed, Declared, Content
<1> QED
  BY <1>3, <1>4

\* What is left to show of a step of q: that q itself is where it should be,
\* that the locks are, and that q was refused for a reason.
LEMMA Assemble ==
    ASSUME StartupInv, StartupShape', NEW q \in Procs, OthersUnchanged(q), Effect(q),
           LockInv', DraftAt(q)', DoneAt(q)',
           pc'[q] = "refused" =>
               File(q)' = File(q) /\ Repository(q)' = Repository(q) /\ ~ Own(File(q), Repository(q))
    PROVE  StartupInv'
<1>1. \A p \in Procs : DraftAt(p)' /\ DoneAt(p)'
  BY OthersKeep
<1>2. OwnDatabaseIsAccepted'
  <2> SUFFICES ASSUME NEW p \in Procs, pc'[p] = "refused"
               PROVE  ~ Own(File(p), Repository(p))'
    BY DEF OwnDatabaseIsAccepted, Own
  <2>1. \A f, r : Own(f, r)' <=> Own(f, r)
    BY DEF Own, Dedicated, OthersUnchanged
  <2>2. CASE p = q
    BY <2>1, <2>2
  <2>3. CASE p # q
    BY <2>1, <2>3 DEF StartupInv, OwnDatabaseIsAccepted, Own, OthersUnchanged, File, Repository
  <2> QED
    BY <2>2, <2>3
<1> QED
  BY <1>1, <1>2, OwnKeeps DEF StartupInv

\* q stays in its constructor, or leaves it having built what it had to.
LEMMA DoneKeeps ==
    ASSUME StartupInv, StartupShape', NEW q \in Procs, OthersUnchanged(q), Effect(q),
           \/ step'[q] = step[q] /\ pc'[q] # "ready"
           \/ /\ Built(Repository(q), disk'[File(q)])
              /\ \/ step'[q] = step[q] + 1 /\ pc'[q] # "ready"
                 \/ step'[q] = step[q] /\ step[q] = Len(Order(q))
    PROVE  DoneAt(q)'
<1>1. set'[q] = set[q] /\ Order(q)' = Order(q)
  BY DEF OthersUnchanged, Order
<1>2. /\ step[q] \in 1..Len(Order(q)) /\ step'[q] \in Nat /\ Len(Order(q)) \in Nat
      /\ \A i \in 1..Len(Order(q)) :
            Order(q)[i] \in Repositories /\ set[q].path[RoleOf[Order(q)[i]]] \in Files
  BY Position DEF StartupInv, StartupShape
<1>3. ASSUME NEW i \in 1..Len(Order(q)), i < step'[q] \/ pc'[q] = "ready"
      PROVE  Built(Order(q)[i], disk'[set[q].path[RoleOf[Order(q)[i]]]])
  <2>1. CASE i < step[q]
    <3>1. Built(Order(q)[i], disk[set[q].path[RoleOf[Order(q)[i]]]])
      BY <2>1 DEF StartupInv, DoneAt
    <3> QED
      BY <1>2, <3>1, BuiltStays DEF StartupInv
  <2>2. CASE ~ (i < step[q])
    <3>1. i = step[q] /\ Built(Repository(q), disk'[File(q)])
      BY <1>2, <1>3, <2>2
    <3> QED
      BY <3>1 DEF Repository, File, Order
  <2> QED
    BY <2>1, <2>2
<1> QED
  BY <1>1, <1>3 DEF DoneAt

\* A step inside a constructor that takes no lock and writes no file.
LEMMA QuietKeeps ==
    ASSUME StartupInv, NEW q \in Procs,
           Begin(q) \/ CreateTable(q) \/ StampVersion(q)
             \/ (Inspect(q) /\ pc'[q] \in {"create", "stamp", "commit"})
    PROVE  StartupInv' /\ Effect(q)
<1>1. pc[q] \in Labels /\ DraftAt(q) /\ DoneAt(q) /\ draft[q] \in Disk
  BY DEF StartupInv, StartupShape
<1>2. Repository(q) \in Repositories /\ File(q) \in Files
  BY Position DEF StartupInv
<1>3. UNCHANGED <<set, step, lock, disk, origin>>
  BY DEF Begin, CreateTable, StampVersion, Inspect, Leave, Goto, StartupInv, StartupShape
<1>4. /\ pc' = [pc EXCEPT ![q] = pc'[q]] /\ pc'[q] \in {"file"} \cup InTransaction
      /\ pc'[q] \in InTransaction <=> pc[q] \in InTransaction
  BY DEF Begin, CreateTable, StampVersion, Inspect, Leave, Goto, StartupInv, StartupShape,
     InTransaction
<1>5. \E b \in Disk : draft' = [draft EXCEPT ![q] = b]
  <2>1. CASE CreateTable(q)
    <3>1. [draft[q] EXCEPT !.tables[Repository(q)] = "ours"] \in Content
      BY <1>1, <1>2 DEF Disk, Content, Tables
    <3>2. draft[q].kind = "database"
      BY <1>1, <2>1 DEF DraftAt, CreateTable, InTransaction
    <3> QED
      BY <1>1, <2>1, <3>1, <3>2 DEF CreateTable, Disk, Content, StartupInv, StartupShape
  <2>2. CASE StampVersion(q)
    <3>1. Current[Repository(q)] \in 0..2 /\ draft[q].kind = "database"
      BY <1>1, <2>2, VersionedAlone DEF DraftAt, StampVersion, InTransaction
    <3> QED
      BY <1>1, <2>2, <3>1 DEF StampVersion, Disk, Content, StartupInv, StartupShape
  <2> QED
    BY <2>1, <2>2, <1>1 DEF Begin, Inspect, Leave, Goto, StartupInv, StartupShape, Disk
<1>6. StartupShape'
  BY <1>3, <1>4, <1>5 DEF StartupInv, StartupShape, Labels, Order
<1>7. OthersUnchanged(q) /\ Effect(q)
  BY <1>3, <1>4, <1>5 DEF OthersUnchanged, Effect, StartupInv, StartupShape
<1>8. \A p \in Procs : File(p)' = File(p) /\ Repository(p)' = Repository(p)
  BY <1>3 DEF File, Repository
<1>9. LockInv'
  <2>1. \A p \in Procs : pc'[p] \in InTransaction <=> pc[p] \in InTransaction
    BY <1>4, <1>7 DEF OthersUnchanged
  <2> QED
    BY <1>3, <1>8, <2>1 DEF StartupInv, StartupShape, LockInv
<1>10. DraftAt(q)'
  <2>1. CASE Begin(q)
    BY <2>1, <1>3, <1>8 DEF Begin, Goto, DraftAt, InTransaction, StartupInv, StartupShape
  <2>2. CASE CreateTable(q)
    <3>1. pc'[q] = "stamp"
      BY <2>2 DEF CreateTable, Goto, StartupInv, StartupShape
    <3>2. /\ draft'[q].tables = [draft[q].tables EXCEPT ![Repository(q)] = "ours"]
          /\ draft'[q].version = draft[q].version /\ draft'[q].kind = draft[q].kind
      BY <1>1, <2>2 DEF CreateTable, Disk, Content, StartupInv, StartupShape
    <3>3. pc[q] = "create"
      BY <2>2 DEF CreateTable
    <3> QED
      BY <1>1, <1>3, <1>8, <3>1, <3>2, <3>3 DEF DraftAt, InTransaction, MayCreate, Completed
  <2>3. CASE StampVersion(q)
    <3>1. pc'[q] = "commit" /\ pc[q] = "stamp"
      BY <2>3 DEF StampVersion, Goto, StartupInv, StartupShape
    <3>2. /\ draft'[q].tables = draft[q].tables /\ draft'[q].version = Current[Repository(q)]
          /\ draft'[q].kind = draft[q].kind
      BY <1>1, <2>3 DEF StampVersion, Disk, Content, StartupInv, StartupShape
    <3> QED
      BY <1>1, <1>3, <1>8, <3>1, <3>2 DEF DraftAt, InTransaction
  <2>4. CASE Inspect(q) /\ pc'[q] \in {"create", "stamp", "commit"}
    <3>1. pc[q] = "inspect" /\ draft' = draft
      BY <2>4 DEF Inspect, Leave, Goto, StartupInv, StartupShape
    <3>2. /\ Repository(q) \in Versioned
          /\ draft[q].tables = disk[File(q)].tables /\ draft[q].version = disk[File(q)].version
      BY <1>1, <3>1 DEF DraftAt, InTransaction
    <3>3. \/ pc'[q] = "create" /\ MayCreate(Repository(q), draft[q])
          \/ pc'[q] = "stamp" /\ ValidSchema(Repository(q), draft[q]) /\ draft[q].version = 0
          \/ pc'[q] = "commit" /\ ValidSchema(Repository(q), draft[q]) /\ draft[q].version # 0
      BY <2>4 DEF Inspect, Leave, Goto, StartupInv, StartupShape
    <3>4. draft[q].tables \in [Repositories -> Tables]
      BY <1>1 DEF Disk, Content
    <3>5. draft[q].tables[Repository(q)] = "ours" =>
             draft[q].tables = [draft[q].tables EXCEPT ![Repository(q)] = "ours"]
      BY <1>2, <3>4
    <3> QED
      BY <1>1, <1>3, <1>8, <3>1, <3>2, <3>3, <3>5, VersionedAlone
         DEF DraftAt, InTransaction, MayCreate, ValidSchema, Completed, Known, Accepted
  <2> QED
    BY <2>1, <2>2, <2>3, <2>4
<1>11. DoneAt(q)'
  BY <1>3, <1>4, <1>6, <1>7, DoneKeeps DEF InTransaction
<1> QED
  BY <1>4, <1>6, <1>7, <1>9, <1>10, <1>11, Assemble DEF InTransaction

\* An exception or a kill: the transaction and its lock are gone.
LEMMA LeaveKeeps ==
    ASSUME StartupInv, NEW q \in Procs, NEW label \in {"refused", "failed", "killed"},
           Leave(q, label), label = "refused" => ~ Own(File(q), Repository(q))
    PROVE  StartupInv' /\ Effect(q)
<1>1. /\ UNCHANGED <<set, step, disk, origin>>
      /\ pc' = [pc EXCEPT ![q] = label] /\ draft' = [draft EXCEPT ![q] = Empty]
      /\ lock' = [f \in Files |-> IF lock[f] = q THEN NoProc ELSE lock[f]]
  BY DEF Leave, Goto, Unlock
<1>2. StartupShape'
  BY <1>1, EmptyIsDisk DEF StartupInv, StartupShape, Labels, Ended, Order
<1>3. OthersUnchanged(q) /\ Effect(q)
  BY <1>1 DEF OthersUnchanged, Effect, StartupInv, StartupShape
<1>4. \A p \in Procs : File(p)' = File(p) /\ Repository(p)' = Repository(p) /\ File(p) \in Files
  BY <1>1, Position DEF File, Repository, StartupInv
<1>5. pc'[q] = label /\ \A p \in Procs \ {q} : pc'[p] = pc[p]
  BY <1>1 DEF StartupInv, StartupShape
<1>6. LockInv'
  BY <1>1, <1>4, <1>5, NoProcAssumption
     DEF StartupInv, StartupShape, LockInv, InTransaction
<1>7. DraftAt(q)'
  BY <1>5 DEF DraftAt, InTransaction
<1>8. DoneAt(q)'
  <2>1. DoneAt(q)
    BY DEF StartupInv
  <2> QED
    BY <1>1, <1>5, <2>1 DEF DoneAt, Order, Built
<1> QED
  BY <1>2, <1>3, <1>4, <1>5, <1>6, <1>7, <1>8, Assemble

\* ensure_owner_only_database_file.
LEMMA EnsureKeeps ==
    ASSUME StartupInv, NEW q \in Procs, EnsureFile(q)
    PROVE  StartupInv' /\ Effect(q)
<1> DEFINE d == disk[File(q)]
<1> DEFINE e == IF d.kind = "absent" THEN Empty ELSE [d EXCEPT !.mode = "owner"]
<1> DEFINE label == IF Repository(q) \in Versioned THEN "lock" ELSE "declare"
<1>1. /\ UNCHANGED <<set, step, draft, lock, origin>> /\ pc[q] = "file" /\ d.kind \notin Links
      /\ pc' = [pc EXCEPT ![q] = label] /\ disk' = [disk EXCEPT ![File(q)] = e]
  BY DEF EnsureFile, Goto
<1>2. File(q) \in Files /\ Repository(q) \in Repositories /\ d \in Disk
  BY Position DEF StartupInv, StartupShape
<1>3. e \in Disk /\ Ensured(d, e)
  BY <1>1, <1>2 DEF Ensured, Disk, Content, Empty, NoTables
<1> HIDE DEF e, label
<1>4. label \in Labels \ InTransaction /\ label # "refused" /\ label # "ready" /\ label # "compare"
  BY DEF label, Labels, InTransaction
<1>5. StartupShape'
  BY <1>1, <1>2, <1>3, <1>4 DEF StartupInv, StartupShape, Order
<1>6. disk'[File(q)] = e /\ OthersUnchanged(q) /\ Effect(q)
  BY <1>1, <1>2, <1>3 DEF OthersUnchanged, Effect, StartupInv, StartupShape
<1>7. \A p \in Procs : File(p)' = File(p) /\ Repository(p)' = Repository(p)
  BY <1>1 DEF File, Repository
<1>8. pc'[q] = label /\ \A p \in Procs \ {q} : pc'[p] = pc[p]
  BY <1>1 DEF StartupInv, StartupShape
<1>9. LockInv'
  BY <1>1, <1>4, <1>7, <1>8 DEF StartupInv, StartupShape, LockInv, InTransaction
<1>10. DraftAt(q)'
  BY <1>1, <1>3, <1>4, <1>6, <1>7, <1>8 DEF DraftAt, Ensured, InTransaction, label, Links
<1>11. DoneAt(q)'
  BY <1>1, <1>4, <1>5, <1>6, <1>8, DoneKeeps
<1> QED
  BY <1>4, <1>5, <1>6, <1>8, <1>9, <1>10, <1>11, Assemble

\* BEGIN IMMEDIATE: the draft starts as the file is.
LEMMA BeginImmediateKeeps ==
    ASSUME StartupInv, NEW q \in Procs, BeginImmediate(q)
    PROVE  StartupInv' /\ Effect(q)
<1>1. /\ UNCHANGED <<set, step, disk, origin>> /\ pc[q] = "lock"
      /\ disk[File(q)].kind = "database" /\ lock[File(q)] = NoProc
      /\ pc' = [pc EXCEPT ![q] = "inspect"] /\ lock' = [lock EXCEPT ![File(q)] = q]
      /\ draft' = [draft EXCEPT ![q] = disk[File(q)]]
  BY DEF BeginImmediate, Goto
<1>2. File(q) \in Files /\ disk[File(q)] \in Disk /\ DraftAt(q) /\ DoneAt(q)
  BY Position DEF StartupInv, StartupShape
<1>3. StartupShape'
  BY <1>1, <1>2 DEF StartupInv, StartupShape, Labels, InTransaction, Order
<1>4. OthersUnchanged(q) /\ Effect(q)
  BY <1>1 DEF OthersUnchanged, Effect, StartupInv, StartupShape
<1>5. \A p \in Procs : File(p)' = File(p) /\ Repository(p)' = Repository(p)
  BY <1>1 DEF File, Repository
<1>6. pc'[q] = "inspect" /\ \A p \in Procs \ {q} : pc'[p] = pc[p]
  BY <1>1 DEF StartupInv, StartupShape
<1>7. LockInv'
  BY <1>1, <1>2, <1>5, <1>6, NoProcAssumption
     DEF StartupInv, StartupShape, LockInv, InTransaction
<1>8. DraftAt(q)'
  BY <1>1, <1>2, <1>5, <1>6 DEF DraftAt, InTransaction, StartupInv, StartupShape
<1>9. DoneAt(q)'
  BY <1>1, <1>2, <1>3, <1>4, <1>6, DoneKeeps DEF DoneAt
<1> QED
  BY <1>3, <1>4, <1>6, <1>7, <1>8, <1>9, Assemble

\* Going to the next constructor, or being ready.
LEMMA Advancing ==
    ASSUME StartupShape, NEW q \in Procs, NextConstructor(q), UNCHANGED set
    PROVE  /\ pc' \in [Procs -> Labels] /\ pc'[q] \in {"file", "ready"}
           /\ \A p \in Procs \ {q} : pc'[p] = pc[p] /\ step'[p] = step[p]
           /\ DOMAIN step' = Procs /\ \A p \in Procs : step'[p] \in 1..Len(Order(p))'
           /\ \/ step'[q] = step[q] + 1 /\ pc'[q] # "ready"
              \/ step'[q] = step[q] /\ step[q] = Len(Order(q))
<1>1. Len(Order(q)) \in Nat /\ step[q] \in 1..Len(Order(q)) /\ \A p \in Procs : Order(p)' = Order(p)
  BY Position DEF StartupShape, Order
<1>2. CASE step[q] < Len(Order(q))
  <2>1. pc' = [pc EXCEPT ![q] = "file"] /\ step' = [step EXCEPT ![q] = step[q] + 1]
    BY <1>2 DEF NextConstructor, Goto, Order
  <2> QED
    BY <1>1, <1>2, <2>1 DEF StartupShape, Labels
<1>3. CASE ~ (step[q] < Len(Order(q)))
  <2>1. pc' = [pc EXCEPT ![q] = "ready"] /\ step' = step /\ step[q] = Len(Order(q))
    BY <1>1, <1>3 DEF NextConstructor, Goto, Order
  <2> QED
    BY <1>1, <2>1 DEF StartupShape, Labels, Ended
<1> QED
  BY <1>2, <1>3

\* The definition of a table of config.db is as it should be.
LEMMA MatchesKeeps ==
    ASSUME StartupInv, NEW q \in Procs, DefinitionMatches(q)
    PROVE  StartupInv' /\ Effect(q)
<1>1. /\ UNCHANGED <<set, draft, lock, disk, origin>> /\ pc[q] = "compare"
      /\ ValidSchema(Repository(q), disk[File(q)]) /\ NextConstructor(q)
  BY DEF DefinitionMatches
<1>2. /\ pc' \in [Procs -> Labels] /\ pc'[q] \in {"file", "ready"}
      /\ \A p \in Procs \ {q} : pc'[p] = pc[p] /\ step'[p] = step[p]
      /\ DOMAIN step' = Procs /\ \A p \in Procs : step'[p] \in 1..Len(Order(p))'
      /\ \/ step'[q] = step[q] + 1 /\ pc'[q] # "ready"
         \/ step'[q] = step[q] /\ step[q] = Len(Order(q))
  BY <1>1, Advancing DEF StartupInv
<1>3. DraftAt(q) /\ DoneAt(q)
  BY DEF StartupInv
<1>4. StartupShape'
  BY <1>1, <1>2 DEF StartupInv, StartupShape
<1>5. OthersUnchanged(q) /\ Effect(q)
  BY <1>1, <1>2 DEF OthersUnchanged, Effect
<1>6. LockInv'
  <2>1. \A p \in Procs : pc'[p] \in InTransaction => p # q
    BY <1>2 DEF InTransaction
  <2>2. \A f \in Files : lock[f] # q
    BY <1>1, NoProcAssumption DEF StartupInv, LockInv, InTransaction
  <2>3. \A p \in Procs \ {q} : File(p)' = File(p)
    BY <1>1, <1>2 DEF File, Repository
  <2>4. \A p \in Procs : pc'[p] \in InTransaction => lock'[File(p)'] = p
    BY <1>1, <1>2, <2>1, <2>3 DEF StartupInv, LockInv
  <2>5. \A f \in Files : lock'[f] # NoProc =>
           lock'[f] \in Procs \ {q} /\ pc'[lock'[f]] \in InTransaction /\ File(lock[f])' = f
    BY <1>1, <1>2, <2>2, <2>3 DEF StartupInv, StartupShape, LockInv
  <2> QED
    BY <1>1, <2>4, <2>5 DEF LockInv
<1>7. DraftAt(q)'
  BY <1>2 DEF DraftAt, InTransaction
<1>8. Built(Repository(q), disk'[File(q)])
  BY <1>1, <1>3 DEF DraftAt, Built, Known, ValidSchema
<1>9. DoneAt(q)'
  BY <1>1, <1>2, <1>3, <1>4, <1>5, <1>8, DoneKeeps DEF DoneAt
<1> QED
  BY <1>2, <1>4, <1>5, <1>6, <1>7, <1>9, Assemble

\* The commit: the file takes the draft, the lock is released.
LEMMA CommitKeeps ==
    ASSUME StartupInv, NEW q \in Procs, Commit(q)
    PROVE  StartupInv' /\ Effect(q)
<1> DEFINE d == disk[File(q)]
<1> DEFINE e == [draft[q] EXCEPT !.mode = d.mode]
<1>1. /\ UNCHANGED <<set, origin>> /\ pc[q] = "commit" /\ NextConstructor(q)
      /\ disk' = [disk EXCEPT ![File(q)] = e]
      /\ lock' = [f \in Files |-> IF lock[f] = q THEN NoProc ELSE lock[f]]
      /\ draft' = [draft EXCEPT ![q] = Empty]
  BY DEF Commit, Unlock
<1>2. /\ pc' \in [Procs -> Labels] /\ pc'[q] \in {"file", "ready"}
      /\ \A p \in Procs \ {q} : pc'[p] = pc[p] /\ step'[p] = step[p]
      /\ DOMAIN step' = Procs /\ \A p \in Procs : step'[p] \in 1..Len(Order(p))'
      /\ \/ step'[q] = step[q] + 1 /\ pc'[q] # "ready"
         \/ step'[q] = step[q] /\ step[q] = Len(Order(q))
  BY <1>1, Advancing DEF StartupInv
<1>3. /\ DraftAt(q) /\ DoneAt(q) /\ File(q) \in Files /\ Repository(q) \in Repositories
      /\ d \in Disk /\ draft[q] \in Disk
  BY Position DEF StartupInv, StartupShape
<1>4. lock[File(q)] = q
  BY <1>1 DEF StartupInv, LockInv, InTransaction
<1>5. e \in Disk /\ Committed(Repository(q), d, e)
  BY <1>1, <1>3 DEF DraftAt, InTransaction, Committed, Disk, Content
<1> HIDE DEF e
<1>6. StartupShape'
  <2>1. disk' \in [Files -> Disk]
    BY <1>1, <1>5 DEF StartupInv, StartupShape
  <2>2. lock' \in [Files -> Procs \cup {NoProc}]
    BY <1>1 DEF StartupInv, StartupShape
  <2>3. draft' \in [Procs -> Disk]
    BY <1>1, EmptyIsDisk DEF StartupInv, StartupShape
  <2> QED
    BY <1>1, <1>2, <2>1, <2>2, <2>3 DEF StartupInv, StartupShape
<1>7. disk'[File(q)] = e
  BY <1>1, <1>3 DEF StartupInv, StartupShape
<1>8. OthersUnchanged(q) /\ Effect(q)
  BY <1>1, <1>2, <1>4, <1>5, <1>7 DEF OthersUnchanged, Effect, StartupInv, StartupShape
<1>9. LockInv'
  <2>1. \A p \in Procs : pc'[p] \in InTransaction => p # q
    BY <1>2 DEF InTransaction
  <2>2. \A p \in Procs \ {q} : File(p)' = File(p) /\ File(p) \in Files
    BY <1>1, <1>2, Position DEF File, Repository, StartupInv
  <2>3. \A p \in Procs : pc'[p] \in InTransaction => lock'[File(p)'] = p
    BY <1>1, <1>2, <2>1, <2>2 DEF StartupInv, LockInv
  <2>4. \A f \in Files : lock'[f] # NoProc =>
           /\ lock'[f] = lock[f] /\ lock[f] \in Procs \ {q}
           /\ pc[lock[f]] \in InTransaction /\ File(lock[f]) = f
    BY <1>1, NoProcAssumption DEF StartupInv, StartupShape, LockInv
  <2>5. \A f \in Files : lock'[f] # NoProc => pc'[lock'[f]] \in InTransaction
    BY <1>2, <2>4
  <2>6. ASSUME NEW f \in Files, lock'[f] # NoProc PROVE File(lock[f])' = f
    <3>1. PICK p \in Procs \ {q} : lock[f] = p /\ lock'[f] = p /\ File(p) = f
      BY <2>4, <2>6
    <3> QED
      BY <2>2, <3>1
  <2> QED
    BY <2>3, <2>4, <2>5, <2>6 DEF LockInv
<1>10. DraftAt(q)'
  BY <1>2 DEF DraftAt, InTransaction
<1>11. Built(Repository(q), disk'[File(q)])
  <2>1. d.mode = "owner" /\ d.tables \in [Repositories -> Tables]
    BY <1>1, <1>3 DEF DraftAt, InTransaction, Disk, Content
  <2> QED
    BY <1>3, <1>5, <1>7, <2>1 DEF Committed, Completed, Built, Known
<1>12. DoneAt(q)'
  BY <1>1, <1>2, <1>3, <1>6, <1>8, <1>11, DoneKeeps DEF DoneAt
<1> QED
  BY <1>2, <1>6, <1>8, <1>9, <1>10, <1>12, Assemble

\* CREATE TABLE IF NOT EXISTS.
LEMMA DeclareKeeps ==
    ASSUME StartupInv, NEW q \in Procs, DeclareTable(q)
    PROVE  StartupInv' /\ Effect(q)
<1> DEFINE d == disk[File(q)]
<1> DEFINE r == Repository(q)
<1> DEFINE e == [d EXCEPT !.tables[r] = IF @ = "missing" THEN "ours" ELSE @]
<1>1. /\ UNCHANGED <<set, step, draft, lock, origin>> /\ pc[q] = "declare"
      /\ d.kind = "database" /\ (lock[File(q)] = NoProc \/ d.tables[r] # "missing")
      /\ disk' = [disk EXCEPT ![File(q)].tables[Repository(q)] =
                     IF @ = "missing" THEN "ours" ELSE @]
      /\ pc' = [pc EXCEPT ![q] = "compare"]
  BY DEF DeclareTable, Goto
<1>2. /\ DraftAt(q) /\ DoneAt(q) /\ File(q) \in Files /\ r \in Repositories /\ d \in Disk
  BY Position DEF StartupInv, StartupShape
<1>3. r \notin Versioned /\ d.mode = "owner"
  BY <1>1, <1>2 DEF DraftAt
<1>4. e \in Disk /\ e.kind = "database" /\ e.mode = "owner" /\ e.tables[r] # "missing"
  BY <1>1, <1>2, <1>3 DEF Disk, Content, Tables
<1>5. e = d \/ (lock[File(q)] = NoProc /\ Declared(r, d, e))
  <2>1. CASE d.tables[r] = "missing"
    BY <1>1, <1>2, <1>3, <2>1 DEF Declared, Disk, Content
  <2>2. CASE d.tables[r] # "missing"
    BY <1>2, <2>2 DEF Disk, Content
  <2> QED
    BY <2>1, <2>2
<1>6. disk' = [disk EXCEPT ![File(q)] = e]
  BY <1>1, <1>2 DEF StartupInv, StartupShape
<1> HIDE DEF e
<1>7. StartupShape'
  BY <1>1, <1>2, <1>4, <1>6 DEF StartupInv, StartupShape, Labels, Order
<1>8. disk'[File(q)] = e /\ OthersUnchanged(q) /\ Effect(q)
  BY <1>1, <1>2, <1>5, <1>6 DEF OthersUnchanged, Effect, StartupInv, StartupShape
<1>9. \A p \in Procs : File(p)' = File(p) /\ Repository(p)' = Repository(p)
  BY <1>1 DEF File, Repository
<1>10. pc'[q] = "compare" /\ \A p \in Procs \ {q} : pc'[p] = pc[p]
  BY <1>1 DEF StartupInv, StartupShape
<1>11. LockInv'
  BY <1>1, <1>9, <1>10, NoProcAssumption DEF StartupInv, StartupShape, LockInv, InTransaction
<1>12. DraftAt(q)'
  BY <1>3, <1>4, <1>8, <1>9, <1>10 DEF DraftAt, InTransaction, Links
<1>13. DoneAt(q)'
  BY <1>1, <1>2, <1>7, <1>8, <1>10, DoneKeeps DEF DoneAt
<1> QED
  BY <1>7, <1>8, <1>10, <1>11, <1>12, <1>13, Assemble

\* Nobody is refused a database of its own.
LEMMA RefusalKeeps ==
    ASSUME StartupInv, NEW q \in Procs,
           (Inspect(q) /\ pc'[q] \notin {"create", "stamp", "commit"}) \/ DefinitionDiffers(q)
    PROVE  StartupInv' /\ Effect(q)
<1>1. DraftAt(q) /\ File(q) \in Files /\ Repository(q) \in Repositories
  BY Position DEF StartupInv
<1>2. Leave(q, "refused")
  BY DEF Inspect, DefinitionDiffers, Goto, StartupInv, StartupShape
<1>3. ~ Own(File(q), Repository(q))
  <2>1. CASE Inspect(q) /\ pc'[q] \notin {"create", "stamp", "commit"}
    <3>1. /\ pc[q] = "inspect"
          /\ ~ ValidSchema(Repository(q), draft[q]) /\ ~ MayCreate(Repository(q), draft[q])
      BY <2>1 DEF Inspect, Goto, StartupInv, StartupShape
    <3>2. disk[File(q)] \in Content
      BY <1>1 DEF StartupInv, StartupShape, Disk
    <3> QED
      BY <1>1, <3>1, <3>2
         DEF DraftAt, InTransaction, ValidSchema, MayCreate, StartupInv, OwnInv, Content
  <2>2. CASE DefinitionDiffers(q)
    <3>1. pc[q] = "compare" /\ ~ ValidSchema(Repository(q), disk[File(q)])
      BY <2>2 DEF DefinitionDiffers
    <3>2. disk[File(q)] \in Content
      BY <1>1 DEF StartupInv, StartupShape, Disk
    <3> QED
      BY <1>1, <3>1, <3>2 DEF DraftAt, ValidSchema, StartupInv, OwnInv, Content
  <2> QED
    BY <2>1, <2>2
<1> QED
  BY <1>2, <1>3, LeaveKeeps

LEMMA ProcStep ==
    ASSUME StartupInv, NEW q \in Procs, ProcNext(q)
    PROVE  StartupInv' /\ Effect(q)
<1>1. CASE Rejected(q) \/ FileIsLink(q) \/ DatabaseFails(q) \/ CallFails(q) \/ Kill(q)
  BY <1>1, LeaveKeeps DEF Rejected, FileIsLink, DatabaseFails, CallFails, Kill
<1> QED
  BY <1>1, QuietKeeps, EnsureKeeps, BeginImmediateKeeps, MatchesKeeps, CommitKeeps,
     DeclareKeeps, RefusalKeeps DEF ProcNext

LEMMA StepStartup == StartupInv /\ [Next]_vars => StartupInv'
<1> SUFFICES ASSUME StartupInv, [Next]_vars PROVE StartupInv'
  OBVIOUS
<1>1. CASE UNCHANGED vars
  <2>1. /\ UNCHANGED <<set, pc, step, draft, lock, disk, origin>>
        /\ \A p : File(p)' = File(p) /\ Repository(p)' = Repository(p) /\ Order(p)' = Order(p)
        /\ \A f, r : Own(f, r)' <=> Own(f, r)
    BY <1>1 DEF vars, File, Repository, Order, Own, Dedicated
  <2>2. StartupShape' /\ LockInv' /\ OwnInv'
    BY <2>1 DEF StartupInv, StartupShape, LockInv, OwnInv
  <2>3. \A p \in Procs : DraftAt(p)'
    BY <2>1 DEF StartupInv, DraftAt
  <2>4. \A p \in Procs : DoneAt(p)'
    BY <2>1 DEF StartupInv, DoneAt
  <2>5. OwnDatabaseIsAccepted'
    BY <2>1 DEF StartupInv, OwnDatabaseIsAccepted, Own
  <2> QED
    BY <2>2, <2>3, <2>4, <2>5 DEF StartupInv
<1>2. CASE Next
  BY <1>2, ProcStep DEF Next, ProcNext
<1> QED
  BY <1>1, <1>2

LEMMA StartupInvHolds == Spec => []StartupInv
BY InitStartup, StepStartup, PTL DEF Spec

(***************************************************************************)
(* No database that only this program has written is refused as an         *)
(* unsupported schema by _initialize_schema, however many processes create *)
(* it at the same time and wherever they fail or are killed.               *)
(***************************************************************************)
THEOREM OwnDatabasesAreAccepted == Spec => []OwnDatabaseIsAccepted
BY StartupInvHolds, PTL DEF StartupInv

(***************************************************************************)
(* A process whose constructors all returned has, and keeps while others   *)
(* start, databases that are what it takes them for.                       *)
(***************************************************************************)
THEOREM ReadyStaysUsable == Spec => []ReadyIsUsable
<1>1. StartupInv => ReadyIsUsable
  <2> SUFFICES ASSUME StartupInv, NEW p \in Procs, pc[p] = "ready",
                      NEW i \in DOMAIN Constructors[set[p].command]
               PROVE  LET r == Constructors[set[p].command][i]
                          d == disk[set[p].path[RoleOf[r]]] IN
                      /\ d.kind = "database" /\ d.mode = "owner"
                      /\ d.tables[r] = "ours" \/ (r = "audit" /\ d.tables[r] = "lookalike")
                      /\ r \in Versioned => d.version = Current[r]
    BY DEF ReadyIsUsable
  <2>1. DoneAt(p) /\ i \in 1..Len(Order(p))
    BY Position DEF StartupInv, Order
  <2>2. Built(Order(p)[i], disk[set[p].path[RoleOf[Order(p)[i]]]])
    BY <2>1 DEF DoneAt
  <2> QED
    BY <2>2 DEF Built, Known, Order
<1> QED
  BY <1>1, StartupInvHolds, PTL

(***************************************************************************)
(* Nothing is migrated by guesswork: whichever file a repository is given, *)
(* it adds its own missing table or the first version, or nothing.         *)
(***************************************************************************)
THEOREM ForeignStaysUntouched == Spec => ForeignIsUntouched
<1> DEFINE Respected(f) ==
        /\ disk[f].kind # "absent" => disk'[f].kind = disk[f].kind
        /\ \A r \in Repositories :
              \/ disk'[f].tables[r] = disk[f].tables[r]
              \/ disk[f].tables[r] = "missing" /\ (r \in Versioned => disk[f].version = 0)
        /\ disk'[f].version # disk[f].version =>
              /\ disk[f].version = 0
              /\ \A r \in Versioned : Dedicated(f, RoleOf[r]) => disk'[f].tables[r] = "ours"
<1>1. StartupInv /\ StartupInv' /\ [Next]_vars => [\A f \in Files : Respected(f)]_disk
  <2> SUFFICES ASSUME StartupInv, StartupInv', NEW q \in Procs, ProcNext(q), NEW f \in Files
               PROVE  Respected(f)
    BY DEF Next, ProcNext, vars
  <2>1. Effect(q)
    BY ProcStep
  <2>2. CASE f # File(q)
    BY <2>1, <2>2 DEF Effect
  <2>3. CASE f = File(q)
    <3>1. disk[f] \in Content /\ disk'[f] \in Content
      BY DEF StartupInv, StartupShape, Disk
    <3>2. Repository(q) \in Repositories /\ RoleOf[Repository(q)] \in Roles
      BY Position, VersionedAlone DEF StartupInv
    <3>3. \A r \in Versioned :
             Dedicated(f, RoleOf[r]) /\ Repository(q) \in Versioned => r = Repository(q)
      BY <2>3, <3>2, VersionedAlone DEF Dedicated, File
    <3>4. CASE Ensured(disk[f], disk'[f]) \/ Declared(Repository(q), disk[f], disk'[f])
      BY <3>1, <3>2, <3>4 DEF Ensured, Declared, Content
    <3>5. CASE Committed(Repository(q), disk[f], disk'[f])
      BY <3>1, <3>2, <3>3, <3>5 DEF Committed, Completed, Content
    <3> QED
      BY <2>1, <2>3, <3>4, <3>5 DEF Effect
  <2> QED
    BY <2>2, <2>3
<1>2. Spec => [][\A f \in Files : Respected(f)]_disk
  BY <1>1, StartupInvHolds, PTL DEF Spec
<1> QED
  BY <1>2 DEF ForeignIsUntouched

=============================================================================
