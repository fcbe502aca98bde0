---------------------------- MODULE Provisioning ----------------------------
(***************************************************************************)
(* provision_lab (src/tools/provision_lab.py) over the runtime directory:  *)
(* two key files, the databases and, in them, the records of one lab.      *)
(*                                                                         *)
(* Several operators may run the tool on the same directory, one after the *)
(* other or at the same time; every call may fail and the process may be   *)
(* killed between any two of them.  A SQLite transaction is one step: the  *)
(* locks behind it are AuditChain's subject.                               *)
(***************************************************************************)
EXTENDS Naturals, Sequences

CONSTANTS
    Runs,       \* executions of the tool
    Ids,        \* identifiers of records
    Configs     \* configurations: the id each record would get

Tables == {"pam_users", "targets", "privileged_accounts", "access_policies",
           "vault_credentials"}

ASSUME ConfigsAssumption == Configs \subseteq [Tables -> Ids]

VARIABLES
    pc,         \* position of each run
    config,     \* its LabProvisioningConfig
    held,       \* the vault and audit keys it has loaded
    found,      \* history: artifacts that existed when it looked
    dir,        \* the runtime directory
    keyfile,    \* content of vault.key and audit.key
    files,      \* database files that exist
    tables,     \* tables that exist
    rows        \* rows of the tables

disk == <<dir, keyfile, files, tables, rows>>
vars == <<pc, config, held, found, disk>>

KeyNames == {"vault", "audit"}

\* Keys: what token_bytes gave a run, and what an operator may have put there
\* beforehand; Short stands for every content FileKeyProvider refuses.
NoKey == <<"none", "none">>
Absent == <<"file", "absent">>
Short == <<"file", "short">>
OperatorKeys == {<<"operator", "a">>, <<"operator", "b">>}
FreshKey(p, k) == <<p, k>>
KeyValid(content) == content \notin {Absent, Short}

\* Variant: the credential is stored first.
Repositories_VaultFirst ==
    <<"vault_credentials", "pam_users", "targets", "privileged_accounts", "access_policies">>

\* The order of the repositories' constructors, and of the stores.
Repositories == <<"pam_users", "targets", "privileged_accounts", "access_policies",
                  "vault_credentials">>

File == [pam_users |-> "auth", targets |-> "config", privileged_accounts |-> "config",
         access_policies |-> "config", vault_credentials |-> "vault"]

\* The four files _reject_existing_databases looks for; the tool itself creates
\* no audit.db.
Databases == {"auth", "config", "vault", "audit"}

\* Positions: phases of provision_lab, and steps of its two sequences.
At(phase, n) == <<phase, n>>

Init ==
    /\ pc = [p \in Runs |-> At("start", 0)]
    /\ config \in [Runs -> Configs]
    /\ held = [p \in Runs |-> [k \in KeyNames |-> NoKey]]
    /\ found = [p \in Runs |-> {}]
    /\ dir \in {"absent", "private", "broad"}
    /\ keyfile \in [KeyNames -> {Absent, Short} \cup OperatorKeys]
    /\ files \in SUBSET Databases
    /\ dir = "absent" => keyfile = [k \in KeyNames |-> Absent] /\ files = {}
    /\ tables = {}      \* what files of another origin hold is never looked at
    /\ rows = [t \in Tables |-> {}]

Goto(p, phase, n) == pc' = [pc EXCEPT ![p] = At(phase, n)]

\* LabProvisioningError; what is on disk stays there.
Abort(p) ==
    /\ Goto(p, "failed", 0)
    /\ UNCHANGED <<config, held, found, disk>>

-----------------------------------------------------------------------------
(***************************************************************************)
(* The directory and the keys.                                             *)
(***************************************************************************)

\* _build_records accepts, then _ensure_private_runtime_directory.
EnsureDirectory(p) ==
    /\ pc[p] = At("start", 0)
    /\ dir # "broad"
    /\ dir' = "private"
    /\ Goto(p, "reject", 0)
    /\ UNCHANGED <<config, held, found, keyfile, files, tables, rows>>

DirectoryIsBroad(p) ==
    /\ pc[p] = At("start", 0)
    /\ dir = "broad"
    /\ Abort(p)

\* _reject_existing_databases.
NoDatabases(p) ==
    /\ pc[p] = At("reject", 0)
    /\ files = {}
    /\ Goto(p, "key", 1)
    /\ UNCHANGED <<config, held, found, disk>>

DatabaseExists(p) ==
    /\ pc[p] = At("reject", 0)
    /\ files # {}
    /\ Abort(p)

\* _load_or_create_key, once for each key: O_EXCL decides who writes it.
KeyOf(n) == IF n = 1 THEN "vault" ELSE "audit"

\* Variant: the file is opened without O_EXCL and truncated.
CreateKey_Truncates(p, n) ==
    /\ pc[p] = At("key", n)
    /\ keyfile' = [keyfile EXCEPT ![KeyOf(n)] = Short]
    /\ Goto(p, "write", n)
    /\ UNCHANGED <<config, held, found, dir, files, tables, rows>>

CreateKey(p, n) ==
    /\ pc[p] = At("key", n)
    /\ keyfile[KeyOf(n)] = Absent
    /\ keyfile' = [keyfile EXCEPT ![KeyOf(n)] = Short]
    /\ Goto(p, "write", n)
    /\ UNCHANGED <<config, held, found, dir, files, tables, rows>>

KeyFileExists(p, n) ==
    /\ pc[p] = At("key", n)
    /\ keyfile[KeyOf(n)] # Absent
    /\ found' = [found EXCEPT ![p] = @ \cup {KeyOf(n)}]
    /\ Goto(p, "load", n)
    /\ UNCHANGED <<config, held, disk>>

WriteKey(p, n) ==
    /\ pc[p] = At("write", n)
    /\ keyfile' = [keyfile EXCEPT ![KeyOf(n)] = FreshKey(p, KeyOf(n))]
    /\ Goto(p, "load", n)
    /\ UNCHANGED <<config, held, found, dir, files, tables, rows>>

\* FileKeyProvider.get_key.
LoadKey(p, n) ==
    /\ pc[p] = At("load", n)
    /\ KeyValid(keyfile[KeyOf(n)])
    /\ held' = [held EXCEPT ![p][KeyOf(n)] = keyfile[KeyOf(n)]]
    /\ IF n = 1 THEN Goto(p, "key", 2) ELSE Goto(p, "compare", 0)
    /\ UNCHANGED <<config, found, disk>>

KeyInvalid(p, n) ==
    /\ pc[p] = At("load", n)
    /\ ~ KeyValid(keyfile[KeyOf(n)])
    /\ Abort(p)

\* Variant: the keys are not compared.
KeysDiffer_Unchecked(p) ==
    /\ pc[p] = At("compare", 0)
    /\ Goto(p, "file", 1)
    /\ UNCHANGED <<config, held, found, disk>>

\* hmac.compare_digest on the two keys, then both passwords are read.
KeysDiffer(p) ==
    /\ pc[p] = At("compare", 0)
    /\ held[p]["vault"] # held[p]["audit"]
    /\ Goto(p, "file", 1)
    /\ UNCHANGED <<config, held, found, disk>>

KeysEqual(p) ==
    /\ pc[p] = At("compare", 0)
    /\ held[p]["vault"] = held[p]["audit"]
    /\ Abort(p)

-----------------------------------------------------------------------------
(***************************************************************************)
(* The databases and their records.                                        *)
(***************************************************************************)

\* ensure_owner_only_database_file: an existing file is taken as it is.
EnsureFile(p, n) ==
    /\ pc[p] = At("file", n)
    /\ files' = files \cup {File[Repositories[n]]}
    /\ Goto(p, "schema", n)
    /\ UNCHANGED <<config, held, found, dir, keyfile, tables, rows>>

\* Variant: one repository too many.
InitializeSchema_OffByOne(p, n) ==
    /\ pc[p] = At("schema", n)
    /\ tables' = tables \cup {Repositories[n]}
    /\ Goto(p, "file", n + 1)
    /\ UNCHANGED <<config, held, found, dir, keyfile, files, rows>>

\* _initialize_schema: create the table, or accept the one that is there.
InitializeSchema(p, n) ==
    /\ pc[p] = At("schema", n)
    /\ tables' = tables \cup {Repositories[n]}
    /\ IF n < Len(Repositories) THEN Goto(p, "file", n + 1) ELSE Goto(p, "store", 1)
    /\ UNCHANGED <<config, held, found, dir, keyfile, files, rows>>

\* A row: its id, whose it is, and the key its content is encrypted under
\* (the credential) or NoKey.
Record(p, t) ==
    [id |-> config[p][t], owner |-> p,
     key |-> IF t = "vault_credentials" THEN held[p]["vault"] ELSE NoKey]

\* Variant: no primary keys.
IdTaken_Never(p, t) == FALSE

IdTaken(p, t) == \E row \in rows[t] : row.id = config[p][t]

\* create_user, the three stores of the configuration, and vault.store last.
Store(p, n) ==
    /\ pc[p] = At("store", n)
    /\ Repositories[n] \in tables
    /\ ~ IdTaken(p, Repositories[n])
    /\ rows' = [rows EXCEPT ![Repositories[n]] = @ \cup {Record(p, Repositories[n])}]
    /\ IF n < Len(Repositories) THEN Goto(p, "store", n + 1) ELSE Goto(p, "complete", 0)
    /\ UNCHANGED <<config, held, found, dir, keyfile, files, tables>>

\* The Duplicate...Error of the repository.
StoreConflicts(p, n) ==
    /\ pc[p] = At("store", n)
    /\ IdTaken(p, Repositories[n])
    /\ Abort(p)

\* Any other error: invalid values, a cancelled prompt, the file system, SQLite,
\* the cipher; or the process is killed.
Fails(p) ==
    /\ pc[p][1] \notin {"complete", "failed"}
    /\ Abort(p)

Next ==
    \E p \in Runs :
        \/ EnsureDirectory(p) \/ DirectoryIsBroad(p)
        \/ NoDatabases(p) \/ DatabaseExists(p)
        \/ \E n \in 1..2 :
              \/ CreateKey(p, n) \/ KeyFileExists(p, n) \/ WriteKey(p, n)
              \/ LoadKey(p, n) \/ KeyInvalid(p, n)
        \/ KeysDiffer(p) \/ KeysEqual(p)
        \/ \E n \in DOMAIN Repositories :
              EnsureFile(p, n) \/ InitializeSchema(p, n) \/ Store(p, n) \/ StoreConflicts(p, n)
        \/ Fails(p)

Spec == Init /\ [][Next]_vars

-----------------------------------------------------------------------------
Phases == {"start", "reject", "key", "write", "load", "compare", "file", "schema", "store",
           "complete", "failed"}
KeyContents == {Absent, Short} \cup OperatorKeys \cup (Runs \X KeyNames)

\* Every variable has its type.
TypeOK ==
    /\ pc \in [Runs -> Phases \X (0..Len(Repositories))]
    /\ config \in [Runs -> Configs]
    /\ held \in [Runs -> [KeyNames -> KeyContents \cup {NoKey}]]
    /\ found \in [Runs -> SUBSET KeyNames]
    /\ dir \in {"absent", "private", "broad"}
    /\ keyfile \in [KeyNames -> KeyContents]
    /\ files \subseteq Databases
    /\ tables \subseteq Tables
    /\ \A t \in Tables : \A row \in rows[t] : row.id \in Ids /\ row.owner \in Runs

Own(p, t) == \E row \in rows[t] : row.owner = p

(***************************************************************************)
(* A runtime that holds a credential is complete: whoever stored it had    *)
(* stored its user, target, account and policy before, whatever failed,    *)
(* was killed or ran at the same time.  A half-provisioned runtime         *)
(* therefore never lets anybody reach a target.                            *)
(***************************************************************************)
CredentialComesLast ==
    \A p \in Runs : Own(p, "vault_credentials") => \A t \in Tables : Own(p, t)

(***************************************************************************)
(* Every stored credential can be decrypted by the program: it is          *)
(* encrypted under the key that vault.key holds, and that key is not the   *)
(* audit key.                                                              *)
(***************************************************************************)
CredentialIsReadable ==
    \A row \in rows["vault_credentials"] :
        /\ row.key = keyfile["vault"]
        /\ keyfile["vault"] # keyfile["audit"]

(***************************************************************************)
(* Security data is never overwritten or removed: a complete key file and  *)
(* a stored record stay what they are, also when two runs race past        *)
(* _reject_existing_databases.                                             *)
(***************************************************************************)
NothingIsOverwritten ==
    [][/\ \A k \in KeyNames : KeyValid(keyfile[k]) => keyfile'[k] = keyfile[k]
       /\ \A t \in Tables :
             /\ rows[t] \subseteq rows'[t]
             /\ \A r, s \in rows'[t] : r.id = s.id => r = s]_disk

(***************************************************************************)
(* A run that ends with "Provisioning complete" has left a lab that works: *)
(* its five records are there, and find_for_target finds its account and   *)
(* no other (two accounts for one target would be refused as ambiguous),   *)
(* although account ids do not exclude that and another run may have been  *)
(* storing the same target.                                                *)
(***************************************************************************)
CompleteIsUsable ==
    \A p \in Runs : pc[p][1] = "complete" =>
        /\ \A t \in Tables : Record(p, t) \in rows[t]
        /\ {row \in rows["privileged_accounts"] :
              config[row.owner]["targets"] = config[p]["targets"]}
             = {Record(p, "privileged_accounts")}

(***************************************************************************)
(* docs/LAB_SETUP.md says: if an expected artifact already exists, the     *)
(* tool aborts.  vault.key and audit.key are in its list of artifacts.     *)
(***************************************************************************)
ExistingArtifactAborts ==
    \A p \in Runs : found[p] # {} => pc[p][1] # "complete"

=============================================================================
