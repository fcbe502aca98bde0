# A TLA+ model of the PAM MVP

The program is a command-line privileged access manager. A user authenticates
with a PAM password and asks for a target; policy decides; the target's
credential is taken from an encrypted vault, an SSH session is opened with it,
and the user's terminal is relayed to the shell for at most a configured time.
Every decision and every change of a session is appended to an HMAC-chained
audit log. There is no server: each command is a process of its own, and the
processes meet in SQLite files of one runtime directory.

This directory holds TLA+ modules for the parts of that program that decide,
record, connect and clean up, TLC configurations that check them on small
instances, and TLAPS proofs. Paths below are relative to the repository's
`src/` package.

## Inventory

| part | state | operations | talks to |
|---|---|---|---|
| access service `application/access_service.py` | the `Session` of the request | `handle` | policy, targets, accounts, vault, broker, audit |
| session `domain/session.py` | status, started_at, ended_at, close_reason | mark_active, mark_failed, mark_closed | - |
| policy evaluation `application/policy_evaluator.py` | none | `evaluate` | policy repository |
| audit repository `infrastructure/audit/` | table `audit_events`, SQLite locks | append, verify_integrity, schema creation | key provider |
| command line `main.py` | exit code, terminal mode | access, validate | everything above |
| raw terminal mode `infrastructure/terminal/terminal_mode.py` | termios attributes | enter, leave | - |
| relay `infrastructure/ssh/terminal_relay.py` | deadline, chunk in hand | `relay_terminal` | channel, terminal, monotonic clock |
| SSH broker `infrastructure/ssh/` | socket, transport, channel, two closed flags | open_session, relay, close | paramiko |
| provisioning `tools/provision_lab.py` | runtime directory: two keys, databases, records | one run of the tool | all repositories, the vault |
| vault `infrastructure/vault/`, cipher, key files | encrypted rows, key files | store, resolve, get_key | - |
| authentication `application/authentication_service.py`, `infrastructure/auth/` | table `pam_users` | authenticate, create_user | argon2 |
| target, account, policy repositories | three tables | store, get, find_for_target, find_matching | - |
| composition `bootstrap/application.py` | none | `build_application` | all constructors |
| negative lab `tools/prepare_negative_lab.py` | a changed copy of a runtime | one run | repositories |
| verification tool `tools/verify_audit.py` | none | verify | audit repository |

What is hard here, and hard to test:

* appends and verifications of several processes on one SQLite file, with lock
  waits that time out, processes that die, and files that somebody edits;
* `handle` has five audit appends and four external calls that may all raise,
  a `finally`, and Ctrl-C, which `except Exception` does not see. What the
  session object, the log, the connection and the caller then say must agree;
* the relay checks its deadline only between blocking calls;
* clean-up calls that themselves raise;
* provisioning writes two files and five rows with no transaction around them;
* every constructor creates the schema it does not find, in any process, while
  others look;
* the access command reads five tables one after the other, and an operator may
  edit them in between.

`PROJECT.json` lists these as hazards, at their lines, with the properties that
would catch them.

## Modules

| module | models | composed with |
|---|---|---|
| `AuditLog` | what append promises: an atomic, append-only, shared log | implemented by `AuditChain` |
| `AuditChain` | append and verify_integrity over SQLite's locks and the MAC chain; an editor of the file | refines `AuditLog` |
| `AuditChainProofs` | the theorems about `AuditChain` | |
| `PolicyEvaluator` | `evaluate` as a function of the list of matching policies | used by `AccessService`, `Lookups` |
| `BrokerPort` | what `SessionBroker` and `BrokeredSession` promise | implemented by `SshBroker`, used by `AccessService` |
| `AccessService` | `handle`, the session, and the events it appends | |
| `AccessBroker` | `AccessService` as a caller of the port | extends `AccessService`, instantiates `BrokerPort` |
| `AccessServiceProofs` | the theorems about `AccessService` | |
| `Lookups` | the queries of users, targets, accounts, policies and the vault, as functions of the tables | extends `PolicyEvaluator` |
| `Authentication` | `authenticate` | extends `Lookups` |
| `Cli` | the access command around `authenticate` and `handle`, and the tables they read | extends `AccessService`, `Authentication` |
| `CliProofs` | the theorems about `Cli` | extends `AccessServiceProofs`, whose invariants carry over |
| `TerminalRelay` | the relay loop, user, target and clock | |
| `TerminalRelayProofs` | the theorems about `TerminalRelay` | |
| `SshBroker` | connector, channel and brokered session | refines `BrokerPort` |
| `SshBrokerProofs` | the theorems about `SshBroker`, the refinement included | |
| `Startup` | how every command opens its databases | |
| `StartupProofs` | the theorems about `Startup` | |
| `Provisioning` | runs of the provisioning tool | |
| `ProvisioningProofs` | the theorems about `Provisioning` | |
| `NegativeLab` | runs of the negative-lab tool on a baseline in use | extends `Lookups` |
| `NegativeLabProofs` | the theorems about `NegativeLab` | |

Operators whose names end in `_Something` and whose comment begins with
"Variant" are deliberately wrong forms of the operator that follows them. They
occur in no specification: substituted for it, they show that the property
named in `PROJECT.json` would notice.

**AuditChain.** A writer's `wpc` is its position in `append`: `called`,
`reserved` (BEGIN IMMEDIATE granted), `linked` (head read, MAC known),
`inserted`, `pending` (COMMIT waiting for readers), `persisted`, and the answer.
A row's `sized` says which of its columns have their type and length: `append`
looks at those of the head it continues (`head`), a verification at all.
SQLite runs in rollback-journal mode, which the code leaves in place: one
RESERVED lock, readers that exclude a commit, a pending commit that excludes
new readers, and errors where a wait exceeds the busy timeout. A verifier's
open cursor is a reader. HMAC is symbolic: a MAC is the list of links it was
computed from, so two MACs are equal exactly when everything beneath them is,
and an editor of the file can use the MACs it has seen or MACs under another
key, and no others. `Tamper` deletes, damages, forges and reorders rows; it
occurs only in `TamperSpec`. Truncation of a valid suffix is undetectable, as
the class's own comment says: `AcceptedIsGenuine` promises a prefix only.

**AccessService.** One label of `pc` per call of `handle` that can raise or can
be seen from outside. `seen` records what the lookups answered. Lookups answer
anything their ports allow; the append of an event is one atomic step (this is
what `AuditChain` is proved to implement) or raises without a trace. `Interrupt`
is KeyboardInterrupt at any point and runs the `finally` that is open there. In
open_session, and in or at the entry of close, it may strand the connection:
`CleanupIsHonest` then demands that the log says nothing of an end. `Kill` is the end of the process. The vault of the repository raises for a
missing credential, so the denial `credential_not_found` is reached only with
other implementations of the port; the model has both.

**BrokerPort, AccessBroker.** The port knows one connection (`conn`) and how
relay and close have ended (`said`). It says what a caller may conclude: after
an open_session that raised an error there is nothing, after a close that
returned or raised an error everything has been tried, and calls that all
returned mean that the connection is closed. Ctrl-C inside open_session, or
inside or at the entry of close, may strand a connection. The port also answers
a relay or a close on a closed session; `AccessBroker` says what `handle` uses
of it: `UsesBroker` allows one open, at most one relay on that connection, one
close, nothing after it, and no return before it. `SshBroker` implements the
port with its three resources, so that the two compose without a product of
their state spaces.

**Lookups, Authentication, Cli.** A row is a record with the fields the
decisions look at and a field `valid`: `_deserialize` accepts it. ORDER BY is
given by the constant `PolicyRank`, the place of each policy id: the row in
place `i` is the one that `i - 1` rows precede. `Cli` holds the
five tables in `store`, and `Edit` lets an operator commit a change to one of
them between any two steps. While `handle` asks for a policy, a target, an
account or a credential, `Answers` restricts the free answers of
`AccessService` to what the tables hold at that moment; SQLite may still fail.
`Authentication` counts password verifications. `denied` is a history: the
gates that have been closed without a break since the command began: the user
of the name typed, the policies of each user id, the target, its account, each
credential. A name may change hands and an account its credential meanwhile, so
`StandingDenialHolds` is about the gates of what the command really used. What a
gate asks of its table is written down independently of the lookups. `stage` is the position in `_run_access`, `term`
the terminal (`cooked`, `raw`, or `stuck` when `tcsetattr` itself failed),
`exit` what `main` returns, with "traceback" and "interrupted" where an exception
leaves it: the announcement and the messages that the handlers print are outside
every `try`, so output that is gone ends the command with a traceback, whose
status 1 claims nothing, and some handlers do not name KeyboardInterrupt.

**TerminalRelay.** Each blocking call is a step that may wait. `taking` is the
set of sides that accept output; `late` counts chunks that crossed after the
maximum duration had elapsed. `select` may return before its timeout with
nothing readable (`SelectReturnsEarly`), which the loop answers with another
round.

**SshBroker.** Socket, transport and channel are each absent, open, closed or
failed to close (its close was called and raised); every call may raise, and
Ctrl-C may arrive at every step, where only the `finally` blocks see it, and
not even these when it arrives at the entry of a close, before its `try`. `Conn`
maps the three to the port's one connection; a resource that is open while
nobody holds it maps to a value the port does not have.

**Startup.** The commands access, validate, provision and verify as lists of
constructors, after the checks each makes first. A constructor is
`EnsureFile`, then for the vault, the audit log and the users `BEGIN IMMEDIATE`,
`Inspect`, `CREATE TABLE`, the version, `COMMIT`, on a private `draft` that a
rollback or a kill discards; for the three repositories of `config.db` an
autocommitted `CREATE TABLE IF NOT EXISTS` and a comparison, as `sqlite3` runs
DDL when no transaction was begun. A file is its kind, mode, `user_version` and
the state of each table: missing, ours (as the program declares it), lookalike
(the column names, but other types, keys or indexes) or foreign. The audit
repository compares names only and so accepts a lookalike; the others do not. The
checks before the first constructor follow links, as `is_file` and `exists` do;
`EnsureFile` refuses them. The initial disks and settings include labs of an
earlier version, half made, foreign, linked and garbage files, equal keys, and
two roles given one file.

**Provisioning.** Runs share one directory. A SQLite transaction is one step
here. Init lets an operator have placed key files beforehand, valid or not,
since the tool accepts them, and any databases, which it refuses.

**NegativeLab.** Each preparer checks its paths and sources, makes the
destination, copies file by file and changes one record; it may fail at every
step. Access commands create and append to the baseline's `audit.db` meanwhile.
A copy of `audit.db` is taken whole, which docs/LAB_NEGATIVE_E2E.md asks the
operator to ensure; a file whose copy breaks off is `Torn`. What a scenario must
block is computed with the operators of `Lookups` and `PolicyEvaluator`
(`Refusal` goes through the gates in the order of `handle`). A baseline is what
Lab Setup makes, finished or not, with any ids: at most one policy, target and
account (`Configs`), and an audit log that verifies.

## Runs

| run | bounds | what it shows |
|---|---|---|
| `audit` | 2 writers, 1 verifier, 2 event ids, 2 calls each | the table is one gap-free chain; verification never cries wolf; "duplicate" is true; `AuditLog` is implemented; every call ends |
| `audit_tamper` | 1 writer with 3 calls, 1 verifier, 1 edit | what is accepted was appended, in order, and is what the table holds |
| `access` | 2 processes, 2 clock values, at most 1 policy | the log precedes use; each trail is a legal prefix; results agree with the log; no session is stranded; clean-up is honest; status moves only forward; the broker is called in order |
| `access_policy_failure` | 1 process | *violated*: a policy storage failure is not a denial |
| `cli_access` | 1 process, 2 edits of the tables, up to 2 policies | grants are justified; a standing denial is never passed; authentication has no fast path; exit codes are honest; the terminal is restored; the command ends, or waits for the target or the terminal |
| `relay` | duration 2, time up to 3, 3 chunks per direction | outcomes are true, EOF behind the last output included; at most one late chunk per direction; nothing in hand is lost; the relay ends |
| `relay_stalled` | 1 chunk per direction | *violated*: a stalled peer outlives the maximum |
| `ssh_broker` | 2 host keys, 4 calls on the session | password only to the pinned key; `BrokerPort` is implemented: nothing is forgotten unless Ctrl-C ends open_session or close, clean reports are true |
| `provisioning` | 2 runs, 2 ids, 4 key contents | the credential comes last, is readable, and nothing is overwritten |
| `provisioning_artifact` | 1 run | *violated*: existing valid keys are reused |
| `startup` | 2 processes, 4 files, 28 initial disks, 8 settings | no crash or race makes an own database unsupported; who is ready has the tables it needs; nothing foreign is touched |
| `negative_lab` | 2 preparers, 2 destinations, 7 baselines, 2 events | a prepared scenario blocks at its gate; its copy is whole and its own |

Why these bounds are enough to be interesting: two writers suffice for every
race for the one RESERVED lock, and one verifier for a scan that holds up a
commit or is turned away by a pending one; two ids in four calls give both
duplicates and a row with a predecessor, and three ids in `audit_tamper` a row
with a neighbour on either side to edit (the proofs cover any number). `handle`
shares only the log between processes, so two show every kind of interleaving, and the order of policies
matters to `evaluate` alone, which sees two of every effect in `cli_access`.
Two edits there close one gate and open another, or close and reopen the same,
or give the account another credential and store it.
One unit of time after the deadline and three chunks per direction let a second
late chunk happen if the code allowed it. Two keys distinguish pinned from not
pinned. Schema creation is one transaction or one statement per table, so a
second process meets every intermediate state that can exist. `MaxCalls`,
`MaxTampers`, `MaxTime`, `MaxChunks`, `MaxPolicies`, `MaxEdits` and `MaxEvents`
are the named bounds. Deadlock checking is off because every process here ends
and the bounds then stop it. Symmetry is used only in runs without liveness.

### Fairness

`AuditChain!Fairness` schedules every running writer and verifier; failures are
not owed. A lock wait needs nothing stronger, because the busy timeout of the
driver ends it. `Cli!CliFairSpec` schedules the process once the password has been
typed (not the stages before, which wait for the user; edits, interrupts and
kills are never owed), except while it is in open_session or relay (`Waiting`):
`get_pty`, `invoke_shell`, `sendall` and `write_output` have no timeout, so
nothing is owed there, and `CommandTerminates` says that the command ends or
waits in one of these two. Elsewhere SQLite waits its busy timeout at most; that
a print and the closes of paramiko return or raise is assumed.
`TerminalRelay!CooperativeSpec` adds to the scheduled relay and the running
clock that each side takes output in the end; an early return of `select` is
not owed. The code does not guarantee that
(its writes have no timeout), which is what `relay_stalled` shows with
`ScheduledSpec`.

### Disagreements between documents and code

1. ADR-003 and THREAT_MODEL say that a policy storage failure denies. The
   exception passes through `evaluate` and `handle`: no access, and also no
   decision and no ACCESS_DENIED event.
2. The access service says that the maximum applies regardless of terminal
   activity. `sendall` and `write_output` block without a deadline.
3. LAB_SETUP says that an existing artifact aborts provisioning. Valid key files
   are reused; only databases abort it.

## Proofs

`AuditChainProofs` proves, for any sets of writers, verifiers, event ids and
bodies and any bounds:

* `ChainStaysIntact`, `VerifierNeverCriesWolf`, `DuplicateReportsAreTrue` -
  `Spec => []ChainIntact`, `[]NoFalseAlarm`, `[]DuplicateIsTrue`;
* `ChainImplementsLog` - `Spec => AbstractLog!Spec`;
* `TypeCorrect`, `AcceptedHistoryIsGenuine`, `AcceptedHistoryIsTable` - with an
  editor at work (`TamperSpec`).

Assumptions: `NoEvent` is not an event, the bounds are naturals. The symbolic
MAC (injective, unforgeable) and SQLite's locking are in the model itself.

*Without tampering.* `ChainIntact` is not inductive: a commit appends a row that
was computed earlier. `ChainInv` adds that at most one writer is in a
transaction and it holds the lock (`LockInv`); that the sequence number and
previous MAC it computed still fit the present head (`LinkInv`); that an
inserted event's id is still new (`FreshInv`); and that a scan's expected
sequence and MAC are those of the rows it has read, no commit happening while a
reader is there (`ScanInv`). `LockInv` is what makes `LinkInv` survive other
writers, and the commit's wait for readers is what makes `ScanInv` survive a
commit. The refinement maps the whole transaction to the abstract phase
`called`, the commit to `Persist`, and every other step to a stutter or an
answer.

*With tampering.* Nothing about the order of the rows survives an edit. What does
(`TamperInv`): a stored MAC whose last link is under the integrity key was
committed by an append (`Unforged`), and a scan has read as many rows as it
expects (`ScanCounts`). A row that verifies extends the accepted MAC by one link
under the key, so the extended MAC was committed, and by induction over the scan
so was every prefix of it.

`AccessServiceProofs` proves, for any set of processes, any set of policy lists
and any clock readings, that `handle` keeps `NoStrandedSession`,
`CleanupIsHonest`, `AuditPrecedesUse`, `TrailIsLegal`, `ResultIsRecorded`,
`GrantIsJustified` and `TypeOK`, and the action property `SessionLifeCycle`.
Assumptions: clock readings are positive, policies have one of the three
effects.

*The argument.* None of these is inductive alone: what may be appended next, or
whether a session can still be failed, depends on where the process is.
`AccessInv` therefore ties each label of `handle` to the session's status, the
broker's state and the set of events that process has in the log
(`EarlyPosition` up to the relay, `LatePosition` from the close on), and to the
decision (`DecisionInv`). With the set of events known at each append, a new
event can be compared with all earlier ones of its process, which gives
`TrailIsLegal`; with the status known, `mark_failed` and `mark_closed` are shown
never to raise, because the timestamp is clamped (`EndingSucceeds`), which gives
`NoStrandedSession`. A step of one process leaves the others' variables and the
others' events alone (`StepShape`, `LoggedOfOthers`). `GrantInv` does the same
for the answers of the lookups. TLC checked `AccessInv` on two
processes before it was proved.

The same invariant gives `UsesBroker` (`PortIsRespected`), as the position fixes
what the port's connection and answers are: a call is made only in the state in
which it is the first of its kind, and a process that returned or raised holds
no open connection.

`SshBrokerProofs` proves, for any host keys and any number of calls, `TypeOK`,
`PasswordOnlyToPinnedHost` and `Spec => Port!Spec` (`SshImplementsPort`).
*The argument.* Whether a leak is possible at the end depends on which clean-up
calls have been made, so `BrokerInv` says for each position which resources
exist (`OpeningInv`: nothing but the socket before negotiation, a channel only
after the pinned key), and for each position of `close` which of the three have
been tried and how they ended (`ClosingInv`, with `Closing(done)`), and which
may have been passed over by Ctrl-C. That an exception in flight means that some close raised is what lets a caller trust a
close that returned.

`TerminalRelayProofs` proves, for any duration, any traffic and any point at
which the peers stall or end, `OutcomeIsTrue`, `LateTrafficIsBounded` and
`NothingInHandIsLost`. `RelayInv` adds that the deadline is set once
(`ClockInv`), that a chunk taken and not given exists exactly in the two blocking
writes (`HandInv`), and that late traffic belongs to the round in which the
deadline passed (`LateInv`: nobody is late at `select`, and in the half round
for the user's input only the target's chunk can be).

`StartupProofs` proves, for any number of processes, files, initial disks and
settings, `OwnDatabaseIsAccepted`, `ReadyIsUsable` and the action property
`ForeignIsUntouched`. `StartupInv` says that the write lock belongs to the one
process with an open transaction on the file (`LockInv`), so that its draft
differs from the file only by what its own repository adds (`DraftAt`); that a
file used in one role, blank or own at first, never holds a table its repository
refuses (`OwnInv`); and that what a constructor left stays built (`DoneAt`).

`ProvisioningProofs` proves, for any number of runs and configurations,
`TypeOK`, `CredentialComesLast`, `CredentialIsReadable`, `CompleteIsUsable` and
the action property `NothingIsOverwritten`. `ProvisioningInv` adds that a key
file in the making has one writer and a key that was loaded is its file's content
for good (`KeyInv`: O_EXCL gives the file to one run, and a short file is never
accepted), and that a row is the record of the run that owns it, which stored
all its earlier ones (`RowInv`). Since target ids are primary keys, two runs
with one target never both reach the account.

`CliProofs` proves that the access command implements `AccessService`
(`CommandUsesService`), so everything proved of `handle` holds of the command
with its tables (`CommandKeepsPromises`), and, for any number of processes, any
tables and any edits, `StandingDenialHolds`, `VerificationIsUniform`,
`ExitCodeIsHonest` and `TerminalIsRestored`. *The argument.* `CliInv` ties the
stage of the command to the position of `handle`, to the terminal and to the
exit code (`StageInv`), the user row that authentication read to the gate it
passed (`AuthnInv`), and each favourable answer to a gate that was open when it
was given, hence is no longer among those closed throughout (`GateInv`, for the
user id and the credential the command goes on with). The
lemmas about the lookups say what a favourable answer means for the table:
`OrderCovers`, that ORDER BY loses no row, and `AllowedByRows`, that a list
which `evaluate` allows comes from matching rows which all allow.

`NegativeLabProofs` proves, for any preparers, destinations and baselines,
`CopyIsOwnAndWhole` and `ScenarioBlocks`. `LabInv` says that a directory has one
preparer at work in it (`RaceInv`), that the files it has copied and the files it
still has to copy make up the scenario (`Progress`), and that the copied
configuration and audit log are the baseline's, the log as it was at some
moment, with the one change exactly when the run is over (`ConfigCopied`,
`AuditCopied`). What the changed row means at each gate are lemmas about the
operators (`DenyRefuses`, `DisabledRefuses`, `UpdateFacts`, `Gates`).

TLC checked each of these invariants on a small instance before it was proved.

Assumptions of these modules, all evaluated by TLC in the runs:

| assumption | says | because |
|---|---|---|
| `KeysAssumption`, `CallsAssumption`, `DurationAssumption`, `NoProcAssumption` | constants have their types; the duration is positive | `relay_terminal` raises ValueError otherwise |
| `DisksAssumption`, `SettingsAssumption` | a file that is no database has no tables and no version | there is nothing to read in it |
| `ProvisionAssumption` | the provisioning tool's files are distinct | `LabRuntimePaths` names them itself |
| `ConfigsAssumption` | a configuration names an id per table | `LabProvisioningConfig` |
| `RankAssumption` | ORDER BY id is a linear order of the ids | they are compared as strings |
| `StoreAssumption` | user names are UNIQUE, ids primary keys, policies finite | the schemas |
| `BaselinesAssumption` | a baseline holds at most one policy, target and account, and its log verifies | what `provision_lab` makes; beside a second target the tool's one UPDATE would not block everything |
| `StringAssumption` | three literals are strings | a fact that the provers lack |

Only model-checked: all liveness (`CallsTerminate`, `CommandTerminates`,
`RelayEnds`), since fairness is out of the prover's reach here. Every other
property of a passing run is a theorem.

## Not modelled

* The cryptography: HMAC is symbolic, AES-GCM decrypts under its own key only,
  argon2 matches or does not.
* File modes beyond owner-only or broader, and hard links: two names of one
  file that `Path.resolve` does not identify are not in `Startup`.
* The checks of value objects field by field: they are the `valid` of a row.
* Argument parsing, output texts, prompts, logging, and the flush of the output
  when the interpreter exits, which may still change the status of the process.
* The two durations in `AccessService` and `TerminalRelay` are not connected:
  the relay there returns or raises, with either outcome.
* `audit.db` copied while somebody writes to it, against the documented
  precondition of the negative-lab tool.
* The secret scan script, which only reads the source tree.

`PROJECT.json` gives the status of each component.

## Plan

Done, in this order: `AuditLog`, `AuditChain` and their proofs;
`PolicyEvaluator`, `AccessService` and their proofs; `Cli`; `TerminalRelay`,
`SshBroker`; `Provisioning`; `Startup`; `BrokerPort` with its two sides;
`Lookups`, `Authentication` and the tables under `Cli`; `NegativeLab`; the
proofs of `SshBroker`, `AccessBroker`, `TerminalRelay`, `Startup`,
`Provisioning`, `Cli` and `NegativeLab`.

Left, most important first:

1. A composed statement of the whole access path: that the bytes a user
   exchanges with a target lie between the events of one trail, from `UsesBroker`
   and `ImplementsBroker` together.
2. The connection of the durations of `AccessService` and `TerminalRelay`.
