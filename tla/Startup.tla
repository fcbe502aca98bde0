------------------------------- MODULE Startup -------------------------------
(***************************************************************************)
(* How a process opens its databases: build_application                    *)
(* (src/bootstrap/application.py) for the access and validate commands,    *)
(* the constructors provision_lab calls, and verify_audit, with            *)
(* _initialize_schema of the six repositories and                          *)
(* ensure_owner_only_database_file.                                        *)
(*                                                                         *)
(* Every constructor creates what it does not find, so several processes   *)
(* may be creating the same schema at once, be refused SQLite's write      *)
(* lock, fail, or be killed between two statements.                        *)
(***************************************************************************)
EXTENDS Naturals, Sequences

CONSTANTS
    Procs,      \* processes
    Files,      \* database files on disk
    NoProc,     \* holder of a write lock nobody holds
    Disks,      \* contents of the files before anything runs
    Settings    \* commands, with the paths and keys they are given

Roles == {"vault", "audit", "config", "auth"}

\* Each repository, its file, and the user_versions its schema is accepted
\* with; the repositories of config.db never look at the version.
Repositories == {"vault", "audit", "policies", "targets", "accounts", "users"}
Versioned == {"vault", "audit", "users"}
RoleOf == [vault |-> "vault", audit |-> "audit", users |-> "auth",
           policies |-> "config", targets |-> "config", accounts |-> "config"]
Accepted == [vault |-> {0, 1}, audit |-> {2}, users |-> {1}]
Current == [vault |-> 1, audit |-> 2, users |-> 1]

\* The order in which each command calls the constructors.
Application == <<"vault", "audit", "policies", "targets", "accounts", "users">>
Constructors ==
    [access |-> Application, validate |-> Application,
     provision |-> <<"users", "targets", "accounts", "policies", "vault">>,
     verify |-> <<"audit">>]

\* What a repository can find where its table should be: no table, one with the
\* columns, types, keys and unique indexes this program declares, one that only
\* has the names of the columns, or another.
Tables == {"missing", "ours", "lookalike", "foreign"}

\* Contents of a file: what it is, its mode and, when it is a database, its
\* user_version and tables.  A symbolic link leads to a file with bytes in it,
\* or to nothing.
Links == {"link", "dangling"}
NoTables == [r \in Repositories |-> "missing"]
Content == [kind : {"absent", "database", "garbage"} \cup Links, mode : {"owner", "broad"},
            version : 0..2, tables : [Repositories -> Tables]]
Disk == {d \in Content : d.kind = "database" \/ (d.version = 0 /\ d.tables = NoTables)}
Empty == [kind |-> "database", mode |-> "owner", version |-> 0, tables |-> NoTables]
HasBytes(d) ==
    d.kind \in {"garbage", "link"} \/ (d.kind = "database" /\ (d.version # 0 \/ d.tables # NoTables))

Setting == [command : DOMAIN Constructors, path : [Roles -> Files],
            keys : [{"vault", "audit"} -> {"k1", "k2", "invalid"}]]

ASSUME DisksAssumption == Disks \subseteq [Files -> Disk]
ASSUME SettingsAssumption == Settings \subseteq Setting

\* provision_lab names its four files itself.
ASSUME ProvisionAssumption ==
    \A s \in Settings : s.command = "provision" =>
        \A q, r \in Roles : s.path[q] = s.path[r] => q = r

ASSUME NoProcAssumption == NoProc \notin Procs

VARIABLES
    set,    \* each process's command, paths and keys
    pc,     \* its position
    step,   \* the constructor it is in
    draft,  \* what its open transaction would leave in the file
    lock,   \* who holds the write lock of each file
    disk,   \* the files
    origin  \* history: the files before anything ran

vars == <<set, pc, step, draft, lock, disk, origin>>

Init ==
    /\ set \in [Procs -> Settings]
    /\ pc = [p \in Procs |-> "start"]
    /\ step = [p \in Procs |-> 1]
    /\ draft = [p \in Procs |-> Empty]
    /\ lock = [f \in Files |-> NoProc]
    /\ disk \in Disks
    /\ origin = disk

Repository(p) == Constructors[set[p].command][step[p]]
File(p) == set[p].path[RoleOf[Repository(p)]]
Ended == {"ready", "refused", "failed", "killed"}

Goto(p, label) == pc' = [pc EXCEPT ![p] = label]

Unlock(p) == lock' = [f \in Files |-> IF lock[f] = p THEN NoProc ELSE lock[f]]

\* An exception leaves the command: connection.rollback, then the close.
Leave(p, label) ==
    /\ Goto(p, label)
    /\ Unlock(p)
    /\ draft' = [draft EXCEPT ![p] = Empty]
    /\ UNCHANGED <<set, step, disk, origin>>

NextConstructor(p) ==
    IF step[p] < Len(Constructors[set[p].command])
      THEN Goto(p, "file") /\ step' = [step EXCEPT ![p] = @ + 1]
      ELSE Goto(p, "ready") /\ UNCHANGED step

-----------------------------------------------------------------------------
(***************************************************************************)
(* Before the first constructor.                                           *)
(***************************************************************************)

\* The size checks of _runtime_is_provisioned and of verify_audit, the absence
\* _reject_existing_databases asks for; all of them follow links.
Preconditions(p) ==
    LET At(role) == disk[set[p].path[role]] IN
    CASE set[p].command = "access" -> \A role \in {"vault", "config", "auth"} : HasBytes(At(role))
      [] set[p].command = "provision" ->
            \A role \in Roles : At(role).kind \in {"absent", "dangling"}
      [] set[p].command = "verify" -> HasBytes(At("audit"))
      [] set[p].command = "validate" -> TRUE

\* _validate_distinct_paths, after path.resolve; verify_audit has one path, and
\* those of provision_lab are distinct names.
PathsDistinct(p) ==
    set[p].command \in {"access", "validate"} =>
        \A r, s \in Roles : set[p].path[r] = set[p].path[s] => r = s

\* Both keys, and different ones; verify_audit has the audit key alone, which
\* the constructor loads before it opens the file.
KeysUsable(p) ==
    /\ set[p].keys["audit"] # "invalid"
    /\ set[p].command # "verify" =>
          set[p].keys["vault"] \notin {"invalid", set[p].keys["audit"]}

Begin(p) ==
    /\ pc[p] = "start"
    /\ Preconditions(p) /\ PathsDistinct(p) /\ KeysUsable(p)
    /\ Goto(p, "file")
    /\ UNCHANGED <<set, step, draft, lock, disk, origin>>

Rejected(p) ==
    /\ pc[p] = "start"
    /\ ~ (Preconditions(p) /\ PathsDistinct(p) /\ KeysUsable(p))
    /\ Leave(p, "failed")

-----------------------------------------------------------------------------
(***************************************************************************)
(* _initialize_schema.                                                     *)
(***************************************************************************)

\* ensure_owner_only_database_file: O_EXCL creates, O_NOFOLLOW opens, fchmod.
EnsureFile(p) ==
    /\ pc[p] = "file"
    /\ disk[File(p)].kind \notin Links
    /\ disk' = [disk EXCEPT ![File(p)] =
                   IF @.kind = "absent" THEN Empty ELSE [@ EXCEPT !.mode = "owner"]]
    /\ Goto(p, IF Repository(p) \in Versioned THEN "lock" ELSE "declare")
    /\ UNCHANGED <<set, step, draft, lock, origin>>

FileIsLink(p) ==
    /\ pc[p] = "file"
    /\ disk[File(p)].kind \in Links
    /\ Leave(p, "failed")

\* BEGIN IMMEDIATE, which waits for a while, then user_version and sqlite_master.
BeginImmediate(p) ==
    /\ pc[p] = "lock"
    /\ disk[File(p)].kind = "database"
    /\ lock[File(p)] = NoProc
    /\ lock' = [lock EXCEPT ![File(p)] = p]
    /\ draft' = [draft EXCEPT ![p] = disk[File(p)]]
    /\ Goto(p, "inspect")
    /\ UNCHANGED <<set, step, disk, origin>>

\* sqlite3.Error: the file is no database, or the lock stays taken.
DatabaseFails(p) ==
    /\ pc[p] \in {"lock", "declare"}
    /\ disk[File(p)].kind # "database" \/ lock[File(p)] # NoProc
    /\ Leave(p, "failed")

\* Variant: every repository compares the names of the columns only.
ValidSchema_NamesOnly(r, d) ==
    /\ d.tables[r] \in {"ours", "lookalike"}
    /\ r \in Versioned => d.version \in Accepted[r]

\* _validate_existing_schema, and the comparison in config.db; that of the audit
\* repository looks at the names of the columns and at nothing else of them.
ValidSchema(r, d) ==
    /\ d.tables[r] \in (IF r = "audit" THEN {"ours", "lookalike"} ELSE {"ours"})
    /\ r \in Versioned => d.version \in Accepted[r]

\* Variant: _create_schema whatever the version.
MayCreate_AnyVersion(r, d) == d.tables[r] = "missing"

MayCreate(r, d) == d.tables[r] = "missing" /\ d.version = 0

Inspect(p) ==
    /\ pc[p] = "inspect"
    /\ LET r == Repository(p)
           d == draft[p] IN
       \/ /\ ValidSchema(r, d)
          /\ Goto(p, IF d.version = 0 THEN "stamp" ELSE "commit")
          /\ UNCHANGED <<set, step, draft, lock, disk, origin>>
       \/ /\ MayCreate(r, d)
          /\ Goto(p, "create")
          /\ UNCHANGED <<set, step, draft, lock, disk, origin>>
       \/ ~ ValidSchema(r, d) /\ ~ MayCreate(r, d) /\ Leave(p, "refused")

\* Variant: outside the transaction, as sqlite3 runs DDL when none was begun.
CreateTable_Autocommit(p) ==
    /\ pc[p] = "create"
    /\ draft' = [draft EXCEPT ![p].tables[Repository(p)] = "ours"]
    /\ disk' = [disk EXCEPT ![File(p)].tables[Repository(p)] = "ours"]
    /\ Goto(p, "stamp")
    /\ UNCHANGED <<set, step, lock, origin>>

CreateTable(p) ==
    /\ pc[p] = "create"
    /\ draft' = [draft EXCEPT ![p].tables[Repository(p)] = "ours"]
    /\ Goto(p, "stamp")
    /\ UNCHANGED <<set, step, lock, disk, origin>>

StampVersion(p) ==
    /\ pc[p] = "stamp"
    /\ draft' = [draft EXCEPT ![p].version = Current[Repository(p)]]
    /\ Goto(p, "commit")
    /\ UNCHANGED <<set, step, lock, disk, origin>>

Commit(p) ==
    /\ pc[p] = "commit"
    /\ disk' = [disk EXCEPT ![File(p)] = [draft[p] EXCEPT !.mode = disk[File(p)].mode]]
    /\ Unlock(p)
    /\ NextConstructor(p)
    /\ draft' = [draft EXCEPT ![p] = Empty]
    /\ UNCHANGED <<set, origin>>

\* The repositories of config.db: CREATE TABLE IF NOT EXISTS commits by itself,
\* and the definition is compared afterwards.
DeclareTable(p) ==
    /\ pc[p] = "declare"
    /\ disk[File(p)].kind = "database"
    /\ lock[File(p)] = NoProc \/ disk[File(p)].tables[Repository(p)] # "missing"
    /\ disk' = [disk EXCEPT ![File(p)].tables[Repository(p)] =
                   IF @ = "missing" THEN "ours" ELSE @]
    /\ Goto(p, "compare")
    /\ UNCHANGED <<set, step, draft, lock, origin>>

DefinitionMatches(p) ==
    /\ pc[p] = "compare"
    /\ ValidSchema(Repository(p), disk[File(p)])
    /\ NextConstructor(p)
    /\ UNCHANGED <<set, draft, lock, disk, origin>>

DefinitionDiffers(p) ==
    /\ pc[p] = "compare"
    /\ ~ ValidSchema(Repository(p), disk[File(p)])
    /\ Leave(p, "refused")

\* Any other error of the file system or of SQLite; or the process is killed,
\* and its transaction with it.
CallFails(p) == pc[p] \notin Ended /\ Leave(p, "failed")
Kill(p) == pc[p] \notin Ended /\ Leave(p, "killed")

Next ==
    \E p \in Procs :
        \/ Begin(p) \/ Rejected(p)
        \/ EnsureFile(p) \/ FileIsLink(p)
        \/ BeginImmediate(p) \/ DatabaseFails(p)
        \/ Inspect(p) \/ CreateTable(p) \/ StampVersion(p) \/ Commit(p)
        \/ DeclareTable(p) \/ DefinitionMatches(p) \/ DefinitionDiffers(p)
        \/ CallFails(p) \/ Kill(p)

Spec == Init /\ [][Next]_vars

-----------------------------------------------------------------------------
\* What this program, one of its earlier versions included, leaves in a file
\* of this role: nothing yet, or the complete schema.
Blank(d) == d.kind \in {"absent", "database"} /\ d.tables = NoTables /\ d.version = 0
OwnSchema(r, d) ==
    /\ d.kind = "database" /\ d.tables[r] = "ours"
    /\ r \in Versioned => d.version \in Accepted[r]

\* No process is configured to use this file in another role.
Dedicated(f, role) ==
    \A q \in Procs : \A other \in Roles : set[q].path[other] = f => other = role

(***************************************************************************)
(* A database nobody but this program has written is never refused as an   *)
(* unsupported schema, whichever processes created it at the same time,    *)
(* failed in the middle or were killed: no crash makes the runtime         *)
(* unusable until somebody deletes a file.                                 *)
(***************************************************************************)
OwnDatabaseIsAccepted ==
    \A p \in Procs : pc[p] = "refused" =>
        \/ ~ Dedicated(File(p), RoleOf[Repository(p)])
        \/ ~ (Blank(origin[File(p)]) \/ OwnSchema(Repository(p), origin[File(p)]))

(***************************************************************************)
(* A process whose constructors all returned works on databases that are   *)
(* what it takes them for, and stays so while others start, fail or are    *)
(* killed: regular files of mode 0600, at the current version, holding     *)
(* each table it asked for as the program declares it.  Only of the audit  *)
(* table is less known: its columns have the right names.                  *)
(***************************************************************************)
ReadyIsUsable ==
    \A p \in Procs : pc[p] = "ready" =>
        \A i \in DOMAIN Constructors[set[p].command] :
            LET r == Constructors[set[p].command][i]
                d == disk[set[p].path[RoleOf[r]]] IN
            /\ d.kind = "database" /\ d.mode = "owner"
            /\ d.tables[r] = "ours" \/ (r = "audit" /\ d.tables[r] = "lookalike")
            /\ r \in Versioned => d.version = Current[r]

(***************************************************************************)
(* Nothing is migrated by guesswork: a table that exists stays as it is; a *)
(* database that carries a version is given no other, and no repository    *)
(* that looks at the version adds its table there; in a file used in one   *)
(* role only, a version is stamped over no table but the one the program   *)
(* declares.                                                               *)
(***************************************************************************)
ForeignIsUntouched ==
    [][\A f \in Files :
          /\ disk[f].kind # "absent" => disk'[f].kind = disk[f].kind
          /\ \A r \in Repositories :
                \/ disk'[f].tables[r] = disk[f].tables[r]
                \/ disk[f].tables[r] = "missing" /\ (r \in Versioned => disk[f].version = 0)
          /\ disk'[f].version # disk[f].version =>
                /\ disk[f].version = 0
                /\ \A r \in Versioned :
                      Dedicated(f, RoleOf[r]) => disk'[f].tables[r] = "ours"]_disk

=============================================================================
