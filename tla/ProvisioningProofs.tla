------------------------- MODULE ProvisioningProofs -------------------------
(***************************************************************************)
(* provision_lab keeps its promises for any number of runs on one          *)
(* directory, at the same time or one after the other, any configurations, *)
(* and failures and kills between any two of its calls.                    *)
(***************************************************************************)
EXTENDS Provisioning, TLAPS

Rows == [id : Ids, owner : Runs, key : KeyContents \cup {NoKey}]

\* The state is well formed.
ProvisioningShape ==
    /\ TypeOK
    /\ rows \in [Tables -> SUBSET Rows]
    /\ \A p \in Runs : pc[p][1] = "store" => pc[p][2] \in 1..5

(***************************************************************************)
(* The keys.  A key file that is being written has one writer, and a key   *)
(* some run has loaded is the content of its file for good.                *)
(***************************************************************************)
Keyed == {"compare", "file", "schema", "store", "complete"}

KeyInv ==
    /\ \A p \in Runs, n \in 1..2 : pc[p] = At("write", n) => keyfile[KeyOf(n)] = Short
    /\ \A p, q \in Runs, n \in 1..2 : pc[p] = At("write", n) /\ pc[q] = At("write", n) => p = q
    /\ \A p \in Runs, k \in KeyNames :
          held[p][k] # NoKey => KeyValid(held[p][k]) /\ keyfile[k] = held[p][k]
    /\ \A p \in Runs :
          /\ pc[p] \in {At("key", 2), At("write", 2), At("load", 2)} => held[p]["vault"] # NoKey
          /\ pc[p][1] \in Keyed => held[p]["vault"] # NoKey /\ held[p]["audit"] # NoKey
          /\ pc[p][1] \in Keyed \ {"compare"} => held[p]["vault"] # held[p]["audit"]

(***************************************************************************)
(* The records.  A run stores its five in order, with the id its           *)
(* configuration gives and no other row has.                               *)
(***************************************************************************)
Stored(p, n) == \A l \in 1..n : Record(p, Repositories[l]) \in rows[Repositories[l]]

RowInv ==
    /\ \A t \in Tables : \A row \in rows[t] :
          /\ row = Record(row.owner, t)
          /\ pc[row.owner][1] \in {"store", "complete", "failed"}
          /\ held[row.owner]["vault"] # NoKey /\ held[row.owner]["audit"] # NoKey
          /\ held[row.owner]["vault"] # held[row.owner]["audit"]
    /\ \A t \in Tables : \A r, s \in rows[t] : r.id = s.id => r = s
    /\ \A n \in 1..5 : \A row \in rows[Repositories[n]] : Stored(row.owner, n)
    /\ \A p \in Runs, n \in 1..5 : pc[p] = At("store", n) => Stored(p, n - 1)
    /\ \A p \in Runs : pc[p][1] = "complete" => Stored(p, 5)

ProvisioningInv == ProvisioningShape /\ KeyInv /\ RowInv

-----------------------------------------------------------------------------
(***************************************************************************)
(* Constants.                                                              *)
(***************************************************************************)
LEMMA RepositoryFacts ==
    /\ Len(Repositories) = 5 /\ DOMAIN Repositories = 1..5
    /\ \A n \in 1..5 : Repositories[n] \in Tables
    /\ \A t \in Tables : \E n \in 1..5 : t = Repositories[n]
    /\ \A m, n \in 1..5 : Repositories[m] = Repositories[n] => m = n
    /\ Repositories[2] = "targets" /\ Repositories[3] = "privileged_accounts"
    /\ Repositories[5] = "vault_credentials"
<1>1. Len(Repositories) = 5 /\ DOMAIN Repositories = 1..5
  BY DEF Repositories
<1>2. /\ Repositories[1] = "pam_users" /\ Repositories[2] = "targets"
      /\ Repositories[3] = "privileged_accounts" /\ Repositories[4] = "access_policies"
      /\ Repositories[5] = "vault_credentials"
  BY DEF Repositories
<1>3. \A n \in 1..5 : n = 1 \/ n = 2 \/ n = 3 \/ n = 4 \/ n = 5
  OBVIOUS
<1>4. \A n \in 1..5 : Repositories[n] \in Tables
  BY <1>2, <1>3 DEF Tables
<1>5. \A t \in Tables : \E n \in 1..5 : t = Repositories[n]
  BY <1>2 DEF Tables
<1>6. \A m, n \in 1..5 : Repositories[m] = Repositories[n] => m = n
  BY <1>2, <1>3
<1> QED
  BY <1>1, <1>2, <1>4, <1>5, <1>6

\* Positions are pairs.
LEMMA PositionFacts ==
    ASSUME NEW x, NEW m, NEW y, NEW n
    PROVE  /\ At(x, m)[1] = x /\ At(x, m)[2] = m
           /\ At(x, m) = At(y, n) => x = y /\ m = n
BY DEF At

\* A fresh key is told apart from everything a key file holds otherwise.
LEMMA KeyFacts ==
    /\ Short # Absent /\ ~ KeyValid(Short) /\ ~ KeyValid(Absent)
    /\ Short \in KeyContents /\ NoKey \notin KeyContents
    /\ \A p \in Runs, k \in KeyNames : FreshKey(p, k) \in KeyContents /\ KeyValid(FreshKey(p, k))
    /\ \A n \in 1..2 : KeyOf(n) \in KeyNames
    /\ KeyOf(1) = "vault" /\ KeyOf(2) = "audit"
BY DEF Short, Absent, KeyValid, KeyContents, NoKey, OperatorKeys, KeyNames, FreshKey, KeyOf

LEMMA InitProvisioning == Init => ProvisioningInv
<1> SUFFICES ASSUME Init PROVE ProvisioningInv
  OBVIOUS
<1>1. \A p \in Runs : pc[p] = At("start", 0) /\ pc[p][1] = "start"
  BY PositionFacts DEF Init
<1>2. TypeOK
  <2>1. pc \in [Runs -> Phases \X (0..Len(Repositories))]
    BY RepositoryFacts DEF Init, At, Phases
  <2>2. keyfile \in [KeyNames -> KeyContents]
    BY DEF Init, KeyContents
  <2> QED
    BY <2>1, <2>2 DEF Init, TypeOK
<1>3. ProvisioningShape
  BY <1>1, <1>2 DEF Init, ProvisioningShape
<1>4. KeyInv
  BY <1>1, PositionFacts DEF Init, KeyInv, Keyed, KeyNames
<1>5. RowInv
  BY <1>1, PositionFacts, RepositoryFacts DEF Init, RowInv
<1> QED
  BY <1>3, <1>4, <1>5 DEF ProvisioningInv

-----------------------------------------------------------------------------
(***************************************************************************)
(* A step of p that stores nothing: the records stay what they were, also  *)
(* when p has only just loaded a key, for then none of them is its own.    *)
(***************************************************************************)
LEMMA RowsKeep ==
    ASSUME ProvisioningInv, NEW p \in Runs, UNCHANGED <<config, rows>>,
           \A q \in Runs \ {p} : pc'[q] = pc[q] /\ held'[q] = held[q],
           held'[p] = held[p] \/ pc[p][1] \notin {"store", "complete", "failed"},
           pc'[p][1] = "failed" \/ pc[p][1] \notin {"store", "complete", "failed"},
           \A n \in 1..5 : pc'[p] = At("store", n) => n = 1,
           pc'[p][1] # "complete"
    PROVE  RowInv'
<1> USE DEF ProvisioningInv
<1>1. \A t \in Tables : \A row \in rows[t] :
         /\ row.owner \in Runs
         /\ held'[row.owner] = held[row.owner]
         /\ pc'[row.owner][1] \in {"store", "complete", "failed"}
  BY DEF RowInv, ProvisioningShape, TypeOK
<1>2. \A q, t : held'[q] = held[q] => Record(q, t)' = Record(q, t)
  BY DEF Record
<1>3. \A q, n : held'[q] = held[q] /\ Stored(q, n) => Stored(q, n)'
  BY <1>2 DEF Stored
<1>4. \A t \in Tables : \A row \in rows'[t] :
        /\ row = Record(row.owner, t)'
        /\ pc'[row.owner][1] \in {"store", "complete", "failed"}
        /\ held'[row.owner]["vault"] # NoKey /\ held'[row.owner]["audit"] # NoKey
        /\ held'[row.owner]["vault"] # held'[row.owner]["audit"]
  BY <1>1, <1>2 DEF RowInv
<1>5. \A n \in 1..5 : \A row \in rows'[Repositories[n]] : Stored(row.owner, n)'
  BY <1>1, <1>3, RepositoryFacts DEF RowInv
<1>6. \A q \in Runs, n \in 1..5 : pc'[q] = At("store", n) => Stored(q, n - 1)'
  <2>1. ASSUME NEW n \in 1..5, pc'[p] = At("store", n) PROVE Stored(p, n - 1)'
    <3>1. n = 1
      BY <2>1
    <3> QED
      BY <3>1 DEF Stored
  <2> QED
    BY <1>3, <2>1 DEF RowInv
<1>7. \A q \in Runs : pc'[q][1] = "complete" => Stored(q, 5)'
  BY <1>3 DEF RowInv
<1> QED
  BY <1>4, <1>5, <1>6, <1>7 DEF RowInv

(***************************************************************************)
(* A step that changes neither the key files nor the records.              *)
(***************************************************************************)
LEMMA MoveKeeps ==
    ASSUME ProvisioningInv, NEW p \in Runs, NEW x \in Phases, NEW m \in 0..5,
           pc' = [pc EXCEPT ![p] = At(x, m)], UNCHANGED <<config, held, keyfile, rows>>,
           found' \in [Runs -> SUBSET KeyNames], dir' \in {"absent", "private", "broad"},
           files' \subseteq Databases, tables' \subseteq Tables,
           x \notin {"write", "complete"}, x = "store" => m = 1,
           x = "failed" \/ pc[p][1] \notin {"store", "complete", "failed"},
           x \in {"key", "load"} /\ m = 2 => held[p]["vault"] # NoKey,
           x \in Keyed => held[p]["vault"] # NoKey /\ held[p]["audit"] # NoKey,
           x \in Keyed \ {"compare"} => held[p]["vault"] # held[p]["audit"]
    PROVE  ProvisioningInv'
<1> USE DEF ProvisioningInv
<1>1. /\ pc'[p] = At(x, m) /\ pc'[p][1] = x /\ pc'[p][2] = m
      /\ \A q \in Runs \ {p} : pc'[q] = pc[q]
  BY PositionFacts DEF ProvisioningShape, TypeOK
<1>2. ProvisioningShape'
  <2>1. pc' \in [Runs -> Phases \X (0..Len(Repositories))]
    BY RepositoryFacts DEF ProvisioningShape, TypeOK, At
  <2>2. TypeOK'
    BY <2>1 DEF ProvisioningShape, TypeOK
  <2> QED
    BY <1>1, <2>2 DEF ProvisioningShape
<1>3. KeyInv'
  <2>1. \A q \in Runs, n \in 1..2 : pc'[q] = At("write", n) => q # p /\ pc[q] = At("write", n)
    BY <1>1, PositionFacts
  <2>2. \A q \in Runs, n \in 1..2 : pc'[q] = At("write", n) => keyfile'[KeyOf(n)] = Short
    BY <2>1 DEF KeyInv
  <2>3. \A q, r \in Runs, n \in 1..2 :
           pc'[q] = At("write", n) /\ pc'[r] = At("write", n) => q = r
    BY <2>1 DEF KeyInv
  <2>4. pc'[p] \in {At("key", 2), At("write", 2), At("load", 2)} => x \in {"key", "load"} /\ m = 2
    BY <1>1, PositionFacts
  <2>5. \A q \in Runs :
           /\ pc'[q] \in {At("key", 2), At("write", 2), At("load", 2)} => held[q]["vault"] # NoKey
           /\ pc'[q][1] \in Keyed => held[q]["vault"] # NoKey /\ held[q]["audit"] # NoKey
           /\ pc'[q][1] \in Keyed \ {"compare"} => held[q]["vault"] # held[q]["audit"]
    BY <1>1, <2>4 DEF KeyInv
  <2> QED
    BY <2>2, <2>3, <2>5 DEF KeyInv
<1>4. RowInv'
  BY <1>1, PositionFacts, RowsKeep
<1> QED
  BY <1>2, <1>3, <1>4

LEMMA AbortKeeps ==
    ASSUME ProvisioningInv, NEW p \in Runs, Abort(p)
    PROVE  ProvisioningInv'
<1>1. /\ pc' = [pc EXCEPT ![p] = At("failed", 0)] /\ UNCHANGED <<config, held, keyfile, rows>>
      /\ UNCHANGED <<found, dir, files, tables>>
  BY DEF Abort, Goto, disk
<1>2. /\ found' \in [Runs -> SUBSET KeyNames] /\ dir' \in {"absent", "private", "broad"}
      /\ files' \subseteq Databases /\ tables' \subseteq Tables
  BY <1>1 DEF ProvisioningInv, ProvisioningShape, TypeOK
<1>3. "failed" \in Phases /\ 0 \in 0..5 /\ "failed" \notin Keyed
  BY DEF Phases, Keyed
<1> QED
  BY <1>1, <1>2, <1>3, MoveKeeps

\* The steps before the first key.
LEMMA PrepareKeeps ==
    ASSUME ProvisioningInv, NEW p \in Runs, EnsureDirectory(p) \/ NoDatabases(p)
    PROVE  ProvisioningInv'
<1> DEFINE x == IF EnsureDirectory(p) THEN "reject" ELSE "key"
           m == IF EnsureDirectory(p) THEN 0 ELSE 1
<1>1. /\ pc' = [pc EXCEPT ![p] = At(x, m)] /\ UNCHANGED <<config, held, keyfile, rows>>
      /\ UNCHANGED <<found, files, tables>> /\ dir' \in {"private", dir}
  BY DEF EnsureDirectory, NoDatabases, Goto, disk
<1>2. /\ found' \in [Runs -> SUBSET KeyNames] /\ dir' \in {"absent", "private", "broad"}
      /\ files' \subseteq Databases /\ tables' \subseteq Tables
  BY <1>1 DEF ProvisioningInv, ProvisioningShape, TypeOK
<1>3. pc[p][1] \in {"start", "reject"}
  BY PositionFacts DEF EnsureDirectory, NoDatabases
<1>4. x \in {"reject", "key"} /\ m \in 0..5 /\ m # 2
  OBVIOUS
<1> HIDE DEF x, m
<1>5. x \in Phases /\ x \notin Keyed
  BY <1>4 DEF Phases, Keyed
<1> QED
  BY <1>1, <1>2, <1>3, <1>4, <1>5, MoveKeeps

\* Another run's key, or an operator's, is found.
LEMMA FoundKeeps ==
    ASSUME ProvisioningInv, NEW p \in Runs, NEW n \in 1..2, KeyFileExists(p, n)
    PROVE  ProvisioningInv'
<1>1. /\ pc' = [pc EXCEPT ![p] = At("load", n)] /\ UNCHANGED <<config, held, keyfile, rows>>
      /\ UNCHANGED <<dir, files, tables>> /\ found' = [found EXCEPT ![p] = @ \cup {KeyOf(n)}]
      /\ pc[p] = At("key", n)
  BY DEF KeyFileExists, Goto, disk
<1>2. /\ found' \in [Runs -> SUBSET KeyNames] /\ dir' \in {"absent", "private", "broad"}
      /\ files' \subseteq Databases /\ tables' \subseteq Tables
  BY <1>1, KeyFacts DEF ProvisioningInv, ProvisioningShape, TypeOK
<1>3. pc[p][1] = "key" /\ (n = 2 => held[p]["vault"] # NoKey)
  BY <1>1, PositionFacts DEF ProvisioningInv, KeyInv
<1>4. "load" \in Phases /\ n \in 0..5 /\ "load" \notin Keyed
  BY DEF Phases, Keyed
<1> QED
  BY <1>1, <1>2, <1>3, <1>4, MoveKeeps

\* The steps between the keys and the records.
LEMMA SchemaKeeps ==
    ASSUME ProvisioningInv, NEW p \in Runs, NEW n \in 1..5,
           KeysDiffer(p) \/ EnsureFile(p, n) \/ InitializeSchema(p, n)
    PROVE  ProvisioningInv'
<1>1. PICK x \in {"file", "schema", "store"}, m \in 1..5 :
         /\ pc' = [pc EXCEPT ![p] = At(x, m)]
         /\ x = "store" => m = 1
  BY RepositoryFacts DEF KeysDiffer, EnsureFile, InitializeSchema, Goto
<1>2. /\ UNCHANGED <<config, held, keyfile, rows, found, dir>>
      /\ pc[p][1] \in {"compare", "file", "schema"}
  BY PositionFacts DEF KeysDiffer, EnsureFile, InitializeSchema, disk
<1>3. files' \subseteq Databases
  <2>1. \A t \in Tables : File[t] \in Databases
    BY DEF Tables, File, Databases
  <2>2. files \subseteq Databases
    BY DEF ProvisioningInv, ProvisioningShape, TypeOK
  <2>3. files' = files \/ files' = files \cup {File[Repositories[n]]}
    BY DEF KeysDiffer, EnsureFile, InitializeSchema, disk
  <2>4. File[Repositories[n]] \in Databases
    BY <2>1, RepositoryFacts
  <2> QED
    BY <2>2, <2>3, <2>4
<1>4. tables' \subseteq Tables
  BY RepositoryFacts
     DEF KeysDiffer, EnsureFile, InitializeSchema, disk, ProvisioningInv, ProvisioningShape, TypeOK
<1>5. found' \in [Runs -> SUBSET KeyNames] /\ dir' \in {"absent", "private", "broad"}
  BY <1>2 DEF ProvisioningInv, ProvisioningShape, TypeOK
<1>6. held[p]["vault"] # NoKey /\ held[p]["audit"] # NoKey
  BY <1>2 DEF ProvisioningInv, KeyInv, Keyed
<1>7. held[p]["vault"] # held[p]["audit"]
  <2>1. CASE KeysDiffer(p)
    BY <2>1 DEF KeysDiffer
  <2>2. CASE EnsureFile(p, n) \/ InitializeSchema(p, n)
    <3>1. pc[p][1] \in {"file", "schema"}
      BY <2>2, PositionFacts DEF EnsureFile, InitializeSchema
    <3> QED
      BY <3>1 DEF ProvisioningInv, KeyInv, Keyed
  <2> QED
    BY <2>1, <2>2
<1>8. x \in Phases /\ m \in 0..5 /\ x \notin {"write", "complete", "key", "load"}
  BY DEF Phases
<1> QED
  BY <1>1, <1>2, <1>3, <1>4, <1>5, <1>6, <1>7, <1>8, MoveKeeps

-----------------------------------------------------------------------------
(***************************************************************************)
(* The steps on the key files.                                             *)
(***************************************************************************)

\* O_EXCL: the file was not there, so nobody holds its key or writes it.
LEMMA CreateKeyKeeps ==
    ASSUME ProvisioningInv, NEW p \in Runs, NEW n \in 1..2, CreateKey(p, n)
    PROVE  ProvisioningInv'
<1> USE DEF ProvisioningInv
<1>1. /\ pc' = [pc EXCEPT ![p] = At("write", n)] /\ UNCHANGED <<config, held, rows>>
      /\ UNCHANGED <<found, dir, files, tables>> /\ keyfile[KeyOf(n)] = Absent
      /\ keyfile' = [keyfile EXCEPT ![KeyOf(n)] = Short] /\ pc[p] = At("key", n)
  BY DEF CreateKey, Goto
<1>2. /\ pc'[p] = At("write", n) /\ pc'[p][1] = "write" /\ pc'[p][2] = n /\ pc[p][1] = "key"
      /\ \A q \in Runs \ {p} : pc'[q] = pc[q]
  BY <1>1, PositionFacts DEF ProvisioningShape, TypeOK
<1>3. \A k \in KeyNames : keyfile'[k] = IF k = KeyOf(n) THEN Short ELSE keyfile[k]
  BY <1>1, KeyFacts DEF ProvisioningShape, TypeOK
<1>4. \A l \in 1..2 : KeyOf(l) = KeyOf(n) => l = n
  BY DEF KeyOf
<1>5. ProvisioningShape'
  <2>1. pc' \in [Runs -> Phases \X (0..Len(Repositories))]
    BY <1>1, RepositoryFacts DEF ProvisioningShape, TypeOK, At, Phases
  <2>2. keyfile' \in [KeyNames -> KeyContents]
    BY <1>1, KeyFacts DEF ProvisioningShape, TypeOK
  <2>3. TypeOK'
    BY <1>1, <2>1, <2>2 DEF ProvisioningShape, TypeOK
  <2> QED
    BY <1>1, <1>2, <2>3 DEF ProvisioningShape
<1>6. KeyInv'
  <2>1. \A q \in Runs, l \in 1..2 :
           pc'[q] = At("write", l) => \/ q = p /\ l = n
                                      \/ q # p /\ l # n /\ pc[q] = At("write", l)
    <3>1. \A q \in Runs : pc[q] # At("write", n)
      BY <1>1, KeyFacts DEF KeyInv
    <3> QED
      BY <1>2, <3>1, PositionFacts
  <2>2. \A q \in Runs, l \in 1..2 : pc'[q] = At("write", l) => keyfile'[KeyOf(l)] = Short
    BY <1>3, <1>4, <2>1, KeyFacts DEF KeyInv
  <2>3. \A q, r \in Runs, l \in 1..2 :
           pc'[q] = At("write", l) /\ pc'[r] = At("write", l) => q = r
    BY <2>1 DEF KeyInv
  <2>4. \A q \in Runs, k \in KeyNames :
           held'[q][k] # NoKey => KeyValid(held'[q][k]) /\ keyfile'[k] = held'[q][k]
    BY <1>1, <1>3, KeyFacts DEF KeyInv
  <2>5. n = 2 => held[p]["vault"] # NoKey
    BY <1>1 DEF KeyInv
  <2>6. \A q \in Runs :
           /\ pc'[q] \in {At("key", 2), At("write", 2), At("load", 2)} => held[q]["vault"] # NoKey
           /\ pc'[q][1] \in Keyed => held[q]["vault"] # NoKey /\ held[q]["audit"] # NoKey
           /\ pc'[q][1] \in Keyed \ {"compare"} => held[q]["vault"] # held[q]["audit"]
    <3>1. "write" \notin Keyed
      BY DEF Keyed
    <3>2. pc'[p] \in {At("key", 2), At("write", 2), At("load", 2)} => n = 2
      BY <1>2, PositionFacts
    <3> QED
      BY <1>2, <2>5, <3>1, <3>2 DEF KeyInv
  <2> QED
    BY <1>1, <2>2, <2>3, <2>4, <2>6 DEF KeyInv
<1>7. RowInv'
  BY <1>1, <1>2, PositionFacts, RowsKeep
<1> QED
  BY <1>5, <1>6, <1>7

\* The writer of a file ends with a key that nobody held.
LEMMA WriteKeyKeeps ==
    ASSUME ProvisioningInv, NEW p \in Runs, NEW n \in 1..2, WriteKey(p, n)
    PROVE  ProvisioningInv'
<1> USE DEF ProvisioningInv
<1>1. /\ pc' = [pc EXCEPT ![p] = At("load", n)] /\ UNCHANGED <<config, held, rows>>
      /\ UNCHANGED <<found, dir, files, tables>> /\ pc[p] = At("write", n)
      /\ keyfile' = [keyfile EXCEPT ![KeyOf(n)] = FreshKey(p, KeyOf(n))]
  BY DEF WriteKey, Goto
<1>2. /\ pc'[p] = At("load", n) /\ pc'[p][1] = "load" /\ pc'[p][2] = n /\ pc[p][1] = "write"
      /\ \A q \in Runs \ {p} : pc'[q] = pc[q]
  BY <1>1, PositionFacts DEF ProvisioningShape, TypeOK
<1>3. \A k \in KeyNames : keyfile'[k] = IF k = KeyOf(n) THEN FreshKey(p, k) ELSE keyfile[k]
  BY <1>1, KeyFacts DEF ProvisioningShape, TypeOK
<1>4. \A l \in 1..2 : KeyOf(l) = KeyOf(n) => l = n
  BY DEF KeyOf
<1>5. ProvisioningShape'
  <2>1. pc' \in [Runs -> Phases \X (0..Len(Repositories))]
    BY <1>1, RepositoryFacts DEF ProvisioningShape, TypeOK, At, Phases
  <2>2. keyfile' \in [KeyNames -> KeyContents]
    BY <1>1, KeyFacts DEF ProvisioningShape, TypeOK
  <2>3. TypeOK'
    BY <1>1, <2>1, <2>2 DEF ProvisioningShape, TypeOK
  <2> QED
    BY <1>1, <1>2, <2>3 DEF ProvisioningShape
<1>6. KeyInv'
  <2>1. \A q \in Runs, l \in 1..2 :
           pc'[q] = At("write", l) => q # p /\ l # n /\ pc[q] = At("write", l)
    <3>1. \A q \in Runs : pc[q] = At("write", n) => q = p
      BY <1>1 DEF KeyInv
    <3> QED
      BY <1>2, <3>1, PositionFacts
  <2>2. \A q \in Runs, l \in 1..2 : pc'[q] = At("write", l) => keyfile'[KeyOf(l)] = Short
    BY <1>3, <1>4, <2>1, KeyFacts DEF KeyInv
  <2>3. \A q, r \in Runs, l \in 1..2 :
           pc'[q] = At("write", l) /\ pc'[r] = At("write", l) => q = r
    BY <2>1 DEF KeyInv
  <2>4. \A q \in Runs, k \in KeyNames :
           held'[q][k] # NoKey => KeyValid(held'[q][k]) /\ keyfile'[k] = held'[q][k]
    <3>1. keyfile[KeyOf(n)] = Short
      BY <1>1 DEF KeyInv
    <3> QED
      BY <1>1, <1>3, <3>1, KeyFacts DEF KeyInv
  <2>5. n = 2 => held[p]["vault"] # NoKey
    BY <1>1 DEF KeyInv
  <2>6. \A q \in Runs :
           /\ pc'[q] \in {At("key", 2), At("write", 2), At("load", 2)} => held[q]["vault"] # NoKey
           /\ pc'[q][1] \in Keyed => held[q]["vault"] # NoKey /\ held[q]["audit"] # NoKey
           /\ pc'[q][1] \in Keyed \ {"compare"} => held[q]["vault"] # held[q]["audit"]
    <3>1. "load" \notin Keyed
      BY DEF Keyed
    <3>2. pc'[p] \in {At("key", 2), At("write", 2), At("load", 2)} => n = 2
      BY <1>2, PositionFacts
    <3> QED
      BY <1>2, <2>5, <3>1, <3>2 DEF KeyInv
  <2> QED
    BY <1>1, <2>2, <2>3, <2>4, <2>6 DEF KeyInv
<1>7. RowInv'
  BY <1>1, <1>2, PositionFacts, RowsKeep
<1> QED
  BY <1>5, <1>6, <1>7

LEMMA LoadKeyKeeps ==
    ASSUME ProvisioningInv, NEW p \in Runs, NEW n \in 1..2, LoadKey(p, n)
    PROVE  ProvisioningInv'
<1> USE DEF ProvisioningInv
<1> DEFINE x == IF n = 1 THEN "key" ELSE "compare"
           m == IF n = 1 THEN 2 ELSE 0
           k0 == KeyOf(n)
<1>1. /\ pc' = [pc EXCEPT ![p] = At(x, m)] /\ UNCHANGED <<config, rows, keyfile>>
      /\ UNCHANGED <<found, dir, files, tables>> /\ pc[p] = At("load", n)
      /\ KeyValid(keyfile[k0]) /\ held' = [held EXCEPT ![p][k0] = keyfile[k0]]
  BY DEF LoadKey, Goto, disk
<1>2. /\ x \in {"key", "compare"} /\ m \in 0..5 /\ (x = "key" => k0 = "vault" /\ n = 1)
      /\ (x = "compare" => k0 = "audit" /\ n = 2) /\ k0 \in KeyNames
  BY KeyFacts
<1> HIDE DEF x, m, k0
<1>3. /\ pc'[p] = At(x, m) /\ pc'[p][1] = x /\ pc[p][1] = "load"
      /\ \A q \in Runs \ {p} : pc'[q] = pc[q]
  BY <1>1, PositionFacts DEF ProvisioningShape, TypeOK
<1>4. /\ held' \in [Runs -> [KeyNames -> KeyContents \cup {NoKey}]]
      /\ held'[p][k0] = keyfile[k0] /\ \A k \in KeyNames \ {k0} : held'[p][k] = held[p][k]
      /\ \A q \in Runs \ {p} : held'[q] = held[q]
  BY <1>1, <1>2 DEF ProvisioningShape, TypeOK
<1>5. keyfile[k0] # NoKey
  BY <1>2, KeyFacts DEF ProvisioningShape, TypeOK
<1>6. ProvisioningShape'
  <2>1. pc' \in [Runs -> Phases \X (0..Len(Repositories))]
    BY <1>1, <1>2, RepositoryFacts DEF ProvisioningShape, TypeOK, At, Phases
  <2>2. TypeOK'
    BY <1>1, <1>4, <2>1 DEF ProvisioningShape, TypeOK
  <2> QED
    BY <1>1, <1>2, <1>3, <2>2 DEF ProvisioningShape
<1>7. KeyInv'
  <2>1. \A q \in Runs, l \in 1..2 :
           pc'[q] = At("write", l) => q # p /\ pc[q] = At("write", l)
    BY <1>2, <1>3, PositionFacts
  <2>2. \A q \in Runs, l \in 1..2 : pc'[q] = At("write", l) => keyfile'[KeyOf(l)] = Short
    BY <1>1, <2>1 DEF KeyInv
  <2>3. \A q, r \in Runs, l \in 1..2 :
           pc'[q] = At("write", l) /\ pc'[r] = At("write", l) => q = r
    BY <2>1 DEF KeyInv
  <2>4. \A q \in Runs, k \in KeyNames :
           held'[q][k] # NoKey => KeyValid(held'[q][k]) /\ keyfile'[k] = held'[q][k]
    BY <1>1, <1>4 DEF KeyInv
  <2>5. held'[p]["vault"] # NoKey /\ (x = "compare" => held'[p]["audit"] # NoKey)
    <3>1. CASE x = "key"
      BY <3>1, <1>2, <1>4, <1>5
    <3>2. CASE x = "compare"
      <4>1. held[p]["vault"] # NoKey
        BY <3>2, <1>1, <1>2 DEF KeyInv
      <4> QED
        BY <3>2, <4>1, <1>2, <1>4, <1>5 DEF KeyNames
    <3> QED
      BY <1>2, <3>1, <3>2
  <2>6. \A q \in Runs :
           /\ pc'[q] \in {At("key", 2), At("write", 2), At("load", 2)} => held'[q]["vault"] # NoKey
           /\ pc'[q][1] \in Keyed => held'[q]["vault"] # NoKey /\ held'[q]["audit"] # NoKey
           /\ pc'[q][1] \in Keyed \ {"compare"} => held'[q]["vault"] # held'[q]["audit"]
    <3>1. "key" \notin Keyed
      BY DEF Keyed
    <3> QED
      BY <1>2, <1>3, <1>4, <2>5, <3>1 DEF KeyInv
  <2> QED
    BY <2>2, <2>3, <2>4, <2>6 DEF KeyInv
<1>8. RowInv'
  BY <1>1, <1>2, <1>3, <1>4, PositionFacts, RowsKeep
<1> QED
  BY <1>6, <1>7, <1>8

-----------------------------------------------------------------------------
(***************************************************************************)
(* The steps on the records.  The primary key keeps ids apart.             *)
(***************************************************************************)
LEMMA StoreKeeps ==
    ASSUME ProvisioningInv, NEW p \in Runs, NEW n \in 1..5, Store(p, n)
    PROVE  ProvisioningInv'
<1> USE DEF ProvisioningInv
<1> DEFINE t0 == Repositories[n]
           new == Record(p, t0)
           x == IF n < 5 THEN "store" ELSE "complete"
           m == IF n < 5 THEN n + 1 ELSE 0
<1>1. /\ pc' = [pc EXCEPT ![p] = At(x, m)] /\ UNCHANGED <<config, held, keyfile>>
      /\ UNCHANGED <<found, dir, files, tables>> /\ pc[p] = At("store", n)
      /\ rows' = [rows EXCEPT ![t0] = @ \cup {new}] /\ ~ IdTaken(p, t0)
  BY RepositoryFacts DEF Store, Goto
<1>2. /\ new.id = config[p][t0] /\ new.owner = p /\ new = Record(p, t0)
  BY DEF Record
<1>3. \A q, t : Record(q, t)' = Record(q, t)
  BY <1>1 DEF Record
<1>4. new \in Rows
  <2>1. config[p][t0] \in Ids
    BY RepositoryFacts, ConfigsAssumption DEF ProvisioningShape, TypeOK
  <2>2. held[p]["vault"] \in KeyContents \cup {NoKey}
    BY DEF ProvisioningShape, TypeOK, KeyNames
  <2> QED
    BY <2>1, <2>2 DEF Rows, Record
<1>5. /\ x \in {"store", "complete"} /\ m \in 0..5 /\ (x = "store" => m \in 1..5 /\ m = n + 1)
      /\ (x = "complete" => n = 5)
  OBVIOUS
<1>6. t0 \in Tables
  BY RepositoryFacts
<1> HIDE DEF x, m, new, t0
<1>7. /\ pc'[p] = At(x, m) /\ pc'[p][1] = x /\ pc'[p][2] = m /\ pc[p][1] = "store"
      /\ \A q \in Runs \ {p} : pc'[q] = pc[q]
  BY <1>1, PositionFacts DEF ProvisioningShape, TypeOK
<1>8. /\ rows' \in [Tables -> SUBSET Rows]
      /\ \A t \in Tables : rows'[t] = IF t = t0 THEN rows[t] \cup {new} ELSE rows[t]
  BY <1>1, <1>4, <1>6 DEF ProvisioningShape
<1>9. ProvisioningShape'
  <2>1. pc' \in [Runs -> Phases \X (0..Len(Repositories))]
    BY <1>1, <1>5, RepositoryFacts DEF ProvisioningShape, TypeOK, At, Phases
  <2>2. \A t \in Tables : \A row \in rows'[t] : row.id \in Ids /\ row.owner \in Runs
    BY <1>8 DEF Rows
  <2>3. TypeOK'
    BY <1>1, <2>1, <2>2 DEF ProvisioningShape, TypeOK
  <2> QED
    BY <1>5, <1>7, <1>8, <2>3 DEF ProvisioningShape
<1>10. /\ held[p]["vault"] # NoKey /\ held[p]["audit"] # NoKey
       /\ held[p]["vault"] # held[p]["audit"]
  BY <1>7 DEF KeyInv, Keyed
<1>11. KeyInv'
  <2>1. \A q \in Runs, l \in 1..2 : pc'[q] = At("write", l) => q # p /\ pc[q] = At("write", l)
    BY <1>5, <1>7, PositionFacts
  <2>2. pc'[p] \notin {At("key", 2), At("write", 2), At("load", 2)}
    BY <1>5, <1>7, PositionFacts
  <2>3. \A q \in Runs :
           /\ pc'[q] \in {At("key", 2), At("write", 2), At("load", 2)} => held[q]["vault"] # NoKey
           /\ pc'[q][1] \in Keyed => held[q]["vault"] # NoKey /\ held[q]["audit"] # NoKey
           /\ pc'[q][1] \in Keyed \ {"compare"} => held[q]["vault"] # held[q]["audit"]
    BY <1>7, <1>10, <2>2 DEF KeyInv
  <2> QED
    BY <1>1, <2>1, <2>3 DEF KeyInv
<1>12. \A q : \A l \in 0..5 : Stored(q, l) => Stored(q, l)'
  BY <1>3, <1>8, RepositoryFacts DEF Stored
<1>13. Stored(p, n)'
  <2>1. Stored(p, n - 1)
    BY <1>1 DEF RowInv
  <2>2. new \in rows'[t0]
    BY <1>6, <1>8
  <2>3. \A l \in 1..n : l = n \/ l \in 1..(n - 1)
    OBVIOUS
  <2>4. Record(p, Repositories[n])' \in rows'[Repositories[n]]
    BY <1>2, <1>3, <2>2 DEF t0
  <2>5. \A l \in 1..(n - 1) : Record(p, Repositories[l])' \in rows'[Repositories[l]]
    BY <1>3, <1>8, <2>1, RepositoryFacts DEF Stored
  <2> QED
    BY <2>3, <2>4, <2>5 DEF Stored
<1>14. \A t \in Tables : \A row \in rows'[t] :
          /\ row = Record(row.owner, t)'
          /\ pc'[row.owner][1] \in {"store", "complete", "failed"}
          /\ held'[row.owner]["vault"] # NoKey /\ held'[row.owner]["audit"] # NoKey
          /\ held'[row.owner]["vault"] # held'[row.owner]["audit"]
  <2> TAKE t \in Tables
  <2> TAKE row \in rows'[t]
  <2>1. CASE row \in rows[t]
    <3>1. row.owner \in Runs
      BY <2>1 DEF ProvisioningShape, TypeOK
    <3> QED
      BY <1>1, <1>3, <1>5, <1>7, <2>1, <3>1 DEF RowInv
  <2>2. CASE row = new /\ t = t0
    BY <1>1, <1>2, <1>3, <1>5, <1>7, <1>10, <2>2
  <2> QED
    BY <1>8, <2>1, <2>2
<1>15. \A t \in Tables : \A r, s \in rows'[t] : r.id = s.id => r = s
  <2>1. \A r \in rows[t0] : r.id # new.id
    BY <1>1, <1>2 DEF IdTaken
  <2> QED
    BY <1>8, <2>1 DEF RowInv
<1>16. \A l \in 1..5 : \A row \in rows'[Repositories[l]] : Stored(row.owner, l)'
  <2> TAKE l \in 1..5
  <2> TAKE row \in rows'[Repositories[l]]
  <2>1. CASE row \in rows[Repositories[l]]
    BY <1>12, <2>1 DEF RowInv
  <2>2. CASE row = new /\ Repositories[l] = t0
    <3>1. l = n
      BY <2>2, RepositoryFacts DEF t0
    <3> QED
      BY <1>2, <1>13, <2>2, <3>1
  <2> QED
    BY <1>8, <2>1, <2>2, RepositoryFacts
<1>17. \A q \in Runs, l \in 1..5 : pc'[q] = At("store", l) => Stored(q, l - 1)'
  <2>1. ASSUME NEW l \in 1..5, pc'[p] = At("store", l) PROVE Stored(p, l - 1)'
    <3>1. l - 1 = n
      BY <1>5, <1>7, <2>1, PositionFacts
    <3> QED
      BY <1>13, <3>1
  <2>2. ASSUME NEW q \in Runs \ {p}, NEW l \in 1..5, pc'[q] = At("store", l)
        PROVE  Stored(q, l - 1)'
    <3>1. l - 1 \in 0..5 /\ Stored(q, l - 1)
      BY <1>7, <2>2 DEF RowInv
    <3> QED
      BY <1>12, <3>1
  <2> QED
    BY <2>1, <2>2
<1>18. \A q \in Runs : pc'[q][1] = "complete" => Stored(q, 5)'
  <2>1. pc'[p][1] = "complete" => Stored(p, 5)'
    BY <1>5, <1>7, <1>13
  <2> QED
    BY <1>7, <1>12, <2>1 DEF RowInv
<1>19. RowInv'
  BY <1>14, <1>15, <1>16, <1>17, <1>18 DEF RowInv
<1> QED
  BY <1>9, <1>11, <1>19

LEMMA ProvisioningStep == ProvisioningInv /\ [Next]_vars => ProvisioningInv'
<1> SUFFICES ASSUME ProvisioningInv, [Next]_vars PROVE ProvisioningInv'
  OBVIOUS
<1>1. CASE UNCHANGED vars
  <2>1. \A p, t : Record(p, t)' = Record(p, t)
    BY <1>1 DEF vars, Record
  <2>2. \A p, n : Stored(p, n)' <=> Stored(p, n)
    BY <1>1, <2>1 DEF vars, disk, Stored
  <2>3. ProvisioningShape'
    BY <1>1 DEF ProvisioningInv, vars, disk, ProvisioningShape, TypeOK
  <2>4. KeyInv'
    BY <1>1 DEF ProvisioningInv, vars, disk, KeyInv
  <2>5. RowInv'
    BY <1>1, <2>1, <2>2 DEF ProvisioningInv, vars, disk, RowInv
  <2> QED
    BY <2>3, <2>4, <2>5 DEF ProvisioningInv
<1>2. ASSUME NEW p \in Runs,
             \/ EnsureDirectory(p) \/ NoDatabases(p) \/ KeysDiffer(p)
             \/ DirectoryIsBroad(p) \/ DatabaseExists(p) \/ KeysEqual(p) \/ Fails(p)
      PROVE  ProvisioningInv'
  <2>1. CASE EnsureDirectory(p) \/ NoDatabases(p)
    BY <2>1, PrepareKeeps
  <2>2. CASE KeysDiffer(p)
    BY <2>2, SchemaKeeps
  <2>3. CASE DirectoryIsBroad(p) \/ DatabaseExists(p) \/ KeysEqual(p) \/ Fails(p)
    BY <2>3, AbortKeeps DEF DirectoryIsBroad, DatabaseExists, KeysEqual, Fails
  <2> QED
    BY <1>2, <2>1, <2>2, <2>3
<1>3. ASSUME NEW p \in Runs, NEW n \in 1..2,
             \/ CreateKey(p, n) \/ KeyFileExists(p, n) \/ WriteKey(p, n)
             \/ LoadKey(p, n) \/ KeyInvalid(p, n)
      PROVE  ProvisioningInv'
  <2>1. CASE KeyInvalid(p, n)
    BY <2>1, AbortKeeps DEF KeyInvalid
  <2> QED
    BY <1>3, <2>1, CreateKeyKeeps, FoundKeeps, WriteKeyKeeps, LoadKeyKeeps
<1>4. ASSUME NEW p \in Runs, NEW n \in 1..5,
             \/ EnsureFile(p, n) \/ InitializeSchema(p, n) \/ Store(p, n) \/ StoreConflicts(p, n)
      PROVE  ProvisioningInv'
  <2>1. CASE StoreConflicts(p, n)
    BY <2>1, AbortKeeps DEF StoreConflicts
  <2> QED
    BY <1>4, <2>1, SchemaKeeps, StoreKeeps
<1> QED
  BY <1>1, <1>2, <1>3, <1>4, RepositoryFacts DEF Next

LEMMA ProvisioningInvHolds == Spec => []ProvisioningInv
BY InitProvisioning, ProvisioningStep, PTL DEF Spec

-----------------------------------------------------------------------------
(***************************************************************************)
(* Every variable has its type, whatever the runs of provision_lab do.     *)
(***************************************************************************)
THEOREM ProvisioningTypeCorrect == Spec => []TypeOK
<1>1. ProvisioningInv => TypeOK
  BY DEF ProvisioningInv, ProvisioningShape
<1> QED
  BY <1>1, ProvisioningInvHolds, PTL

(***************************************************************************)
(* Whoever stored a credential had stored its four other records before:   *)
(* a row of the last table has all earlier ones of its owner beside it,    *)
(* and rows are never removed.                                             *)
(***************************************************************************)
THEOREM CredentialsComeLast == Spec => []CredentialComesLast
<1>1. ProvisioningInv => CredentialComesLast
  <2> SUFFICES ASSUME ProvisioningInv, NEW p \in Runs, Own(p, "vault_credentials"),
                      NEW t \in Tables
               PROVE  Own(p, t)
    BY DEF CredentialComesLast
  <2>1. Stored(p, 5)
    BY RepositoryFacts DEF Own, ProvisioningInv, RowInv
  <2>2. Record(p, t) \in rows[t]
    BY <2>1, RepositoryFacts DEF Stored
  <2> QED
    BY <2>2 DEF Own, Record
<1> QED
  BY <1>1, ProvisioningInvHolds, PTL

(***************************************************************************)
(* Every stored credential is encrypted under what vault.key holds, now    *)
(* and ever after, and that is not the audit key: the owner loaded both,   *)
(* compared them, and nobody writes a file that holds a loaded key.        *)
(***************************************************************************)
THEOREM CredentialsStayReadable == Spec => []CredentialIsReadable
<1>1. ProvisioningInv => CredentialIsReadable
  <2> SUFFICES ASSUME ProvisioningInv, NEW row \in rows["vault_credentials"]
               PROVE  row.key = keyfile["vault"] /\ keyfile["vault"] # keyfile["audit"]
    BY DEF CredentialIsReadable
  <2> DEFINE q == row.owner
  <2>1. "vault_credentials" \in Tables
    BY DEF Tables
  <2>2. /\ q \in Runs /\ row = Record(q, "vault_credentials")
        /\ held[q]["vault"] # NoKey /\ held[q]["audit"] # NoKey
        /\ held[q]["vault"] # held[q]["audit"]
    BY <2>1 DEF ProvisioningInv, RowInv, ProvisioningShape, TypeOK
  <2>3. row.key = held[q]["vault"]
    BY <2>2 DEF Record
  <2>4. keyfile["vault"] = held[q]["vault"] /\ keyfile["audit"] = held[q]["audit"]
    BY <2>2 DEF ProvisioningInv, KeyInv, KeyNames
  <2> QED
    BY <2>2, <2>3, <2>4
<1> QED
  BY <1>1, ProvisioningInvHolds, PTL

(***************************************************************************)
(* A completed run has left a lab that works: its five records are there,  *)
(* and its account is the only one of its target, because an account's     *)
(* owner stored the target first and target ids are unique.                *)
(***************************************************************************)
THEOREM CompletedLabsWork == Spec => []CompleteIsUsable
<1>1. ProvisioningInv => CompleteIsUsable
  <2> SUFFICES ASSUME ProvisioningInv, NEW p \in Runs, pc[p][1] = "complete"
               PROVE  /\ \A t \in Tables : Record(p, t) \in rows[t]
                      /\ {row \in rows["privileged_accounts"] :
                            config[row.owner]["targets"] = config[p]["targets"]}
                           = {Record(p, "privileged_accounts")}
    BY DEF CompleteIsUsable
  <2>1. \A t \in Tables : Record(p, t) \in rows[t]
    BY RepositoryFacts DEF ProvisioningInv, RowInv, Stored
  <2>2. "privileged_accounts" \in Tables /\ "targets" \in Tables
    BY DEF Tables
  <2>3. ASSUME NEW row \in rows["privileged_accounts"],
               config[row.owner]["targets"] = config[p]["targets"]
        PROVE  row = Record(p, "privileged_accounts")
    <3>1. Stored(row.owner, 3)
      BY RepositoryFacts DEF ProvisioningInv, RowInv
    <3>2. Record(row.owner, "targets") \in rows["targets"]
      BY <3>1, RepositoryFacts DEF Stored
    <3>3. Record(row.owner, "targets").id = Record(p, "targets").id
      BY <2>3 DEF Record
    <3>4. Record(row.owner, "targets") = Record(p, "targets")
      BY <2>1, <2>2, <3>2, <3>3 DEF ProvisioningInv, RowInv
    <3>5. row.owner = p
      BY <3>4 DEF Record
    <3> QED
      BY <2>2, <3>5 DEF ProvisioningInv, RowInv
  <2>4. Record(p, "privileged_accounts").owner = p
    BY DEF Record
  <2> QED
    BY <2>1, <2>2, <2>3, <2>4
<1> QED
  BY <1>1, ProvisioningInvHolds, PTL

(***************************************************************************)
(* No run ever changes a complete key file or a stored record, and no two  *)
(* records share an id: O_EXCL and the primary keys hold what the race     *)
(* past _reject_existing_databases lets through.                           *)
(***************************************************************************)
THEOREM ArtifactsAreKept == Spec => NothingIsOverwritten
<1> DEFINE Kept ==
      /\ \A k \in KeyNames : KeyValid(keyfile[k]) => keyfile'[k] = keyfile[k]
      /\ \A t \in Tables :
            /\ rows[t] \subseteq rows'[t]
            /\ \A r, s \in rows'[t] : r.id = s.id => r = s
<1>1. ASSUME ProvisioningInv, ProvisioningInv', [Next]_vars PROVE [Kept]_disk
  <2> SUFFICES ASSUME Next PROVE Kept
    BY <1>1 DEF vars
  <2>1. \A t \in Tables : \A r, s \in rows'[t] : r.id = s.id => r = s
    BY <1>1 DEF ProvisioningInv, RowInv
  <2>2. PICK p \in Runs :
           \/ UNCHANGED <<keyfile, rows>>
           \/ \E n \in 1..2 : CreateKey(p, n) \/ WriteKey(p, n)
           \/ \E n \in 1..5 : Store(p, n)
    BY RepositoryFacts
       DEF Next, EnsureDirectory, DirectoryIsBroad, NoDatabases, DatabaseExists, KeyFileExists,
           LoadKey, KeyInvalid, KeysDiffer, KeysEqual, EnsureFile, InitializeSchema,
           StoreConflicts, Fails, Abort, disk
  <2>3. CASE UNCHANGED <<keyfile, rows>>
    BY <2>1, <2>3
  <2>4. CASE \E n \in 1..2 : CreateKey(p, n) \/ WriteKey(p, n)
    <3>1. PICK n \in 1..2 : CreateKey(p, n) \/ WriteKey(p, n)
      BY <2>4
    <3>2. UNCHANGED rows /\ ~ KeyValid(keyfile[KeyOf(n)])
      BY <1>1, <3>1, KeyFacts DEF CreateKey, WriteKey, ProvisioningInv, KeyInv
    <3>3. \A k \in KeyNames : k # KeyOf(n) => keyfile'[k] = keyfile[k]
      BY <1>1, <3>1, KeyFacts DEF CreateKey, WriteKey, ProvisioningInv, ProvisioningShape, TypeOK
    <3> QED
      BY <2>1, <3>2, <3>3
  <2>5. CASE \E n \in 1..5 : Store(p, n)
    <3>1. PICK n \in 1..5 : Store(p, n)
      BY <2>5
    <3>2. UNCHANGED keyfile /\ \A t \in Tables : rows[t] \subseteq rows'[t]
      BY <1>1, <3>1, RepositoryFacts DEF Store, ProvisioningInv, ProvisioningShape
    <3> QED
      BY <2>1, <3>2
  <2> QED
    BY <2>2, <2>3, <2>4, <2>5
<1>2. NothingIsOverwritten <=> [][Kept]_disk
  BY DEF NothingIsOverwritten
<1> QED
  BY <1>1, <1>2, ProvisioningInvHolds, PTL DEF Spec

=============================================================================
