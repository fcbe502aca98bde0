-------------------------------- MODULE Cli --------------------------------
(***************************************************************************)
(* The access command (src/main.py): one process from the provisioning     *)
(* check to its exit code, through authenticate and AccessService.handle,  *)
(* with the raw mode of the local terminal (raw_terminal_mode in           *)
(* src/infrastructure/terminal/terminal_mode.py).                          *)
(*                                                                         *)
(* Users, policies, targets, accounts and credentials live in databases    *)
(* that each lookup reads anew, and that an operator may edit between any  *)
(* two of them.                                                            *)
(***************************************************************************)
EXTENDS AccessService, Authentication

CONSTANTS
    Username,           \* what the user who runs the command types
    Target,             \* the target asked for
    VaultKey,           \* the key this runtime decrypts with
    InitialStore,       \* the tables before anything happens
    Contents,           \* what an edit may leave in each table
    MaxEdits            \* bound: edits of the tables

StoreTables == {"users", "policies", "targets", "accounts", "vault"}

\* What a table may ever hold.
Versions(t) == Contents[t] \cup {InitialStore[t]}

\* username is UNIQUE, and ids are primary keys.
ASSUME StoreAssumption ==
    /\ DOMAIN InitialStore = StoreTables /\ DOMAIN Contents = StoreTables
    /\ \A users \in Versions("users") : \A r, s \in users : r.username = s.username => r = s
    /\ \A policies \in Versions("policies") :
          /\ IsFiniteSet(policies)
          /\ \A r \in policies : r.id \in DOMAIN PolicyRank
          /\ \A r, s \in policies : r.id = s.id => r = s
    /\ \A targets \in Versions("targets") : \A r, s \in targets : r.id = s.id => r = s

VARIABLES
    stage,  \* position of each process in _run_access
    term,   \* attributes of its terminal
    exit,   \* the code main returns, or how else the process ended
    picked, \* the account row it was given
    store,  \* the tables
    edits,  \* edits of the tables so far
    denied  \* history: gates closed without a break since its command began

cliVars == <<stage, term, exit, picked, authn>>
storeVars == <<store, edits, denied>>
allVars == <<vars, cliVars, storeVars>>

-----------------------------------------------------------------------------
(***************************************************************************)
(* The tables.  A gate is something that has to be in order for access:    *)
(* the user of that name, the policies of a user id, the target and its    *)
(* account, a credential.                                                  *)
(***************************************************************************)
Gates ==
    {<<"user", Username>>, <<"target", Target>>, <<"account", Target>>}
    \cup {<<"policy", r.id>> : r \in UNION Versions("users")}
    \cup {<<"credential", r.credential>> : r \in UNION Versions("accounts")}

InOrder(rows) == rows # {} /\ \A r \in rows : r.valid /\ r.enabled

\* What each gate asks of its table, whatever the lookups make of it.
Passes(gate) ==
    CASE gate[1] = "user" -> InOrder({r \in store.users : r.username = Username})
      [] gate[1] = "policy" ->
            LET matching == {r \in store.policies : r.user = gate[2] /\ r.target = Target}
            IN  matching # {} /\ \A r \in matching : r.valid /\ r.effect = "allow"
      [] gate[1] = "target" -> InOrder({r \in store.targets : r.id = Target})
      [] gate[1] = "account" ->
            \E r \in store.accounts :
                {s \in store.accounts : s.target = Target} = {r} /\ InOrder({r})
      [] gate[1] = "credential" ->
            \E r \in store.vault : r.id = gate[2] /\ r.valid /\ r.key = VaultKey

Closed == {gate \in Gates : ~ Passes(gate)}

\* An operator, or a tool, commits a change to one table.
Edit(t) ==
    /\ edits < MaxEdits
    /\ edits' = edits + 1
    /\ \E rows \in Contents[t] \ {store[t]} : store' = [store EXCEPT ![t] = rows]
    /\ denied' = [p \in Procs |-> IF stage[p] = "start" THEN Closed' ELSE denied[p] \cap Closed']
    /\ UNCHANGED <<vars, cliVars>>

CliInit ==
    /\ Init
    /\ stage = [p \in Procs |-> "start"]
    /\ term = [p \in Procs |-> "cooked"]
    /\ exit = [p \in Procs |-> "none"]
    /\ picked = [p \in Procs |-> Absent]
    /\ authn = [p \in Procs |-> NotBegun]
    /\ store = InitialStore
    /\ edits = 0
    /\ denied = [p \in Procs |-> Closed]

-----------------------------------------------------------------------------
(***************************************************************************)
(* Up to the session.                                                      *)
(***************************************************************************)

\* From one stage to the next, or out of _run_access with a code.
Advance(p, from, to) ==
    /\ stage[p] = from
    /\ stage' = [stage EXCEPT ![p] = to]
    /\ UNCHANGED <<vars, storeVars, term, exit, picked, authn>>

Exit(p, code) ==
    /\ stage' = [stage EXCEPT ![p] = "done"]
    /\ exit' = [exit EXCEPT ![p] = code]
    /\ UNCHANGED <<storeVars, picked, authn>>

ExitFrom(p, from, code) ==
    /\ stage[p] = from
    /\ Exit(p, code)
    /\ UNCHANGED <<vars, term>>

\* A failure is printed outside every try: the output may be gone, which ends
\* the process with a traceback (and status 1), and KeyboardInterrupt may arrive.
Printed(code) == {code, "traceback", "interrupted"}

PrintAndExit(p, from, code) == \E c \in Printed(code) : ExitFrom(p, from, c)

\* _runtime_is_provisioned, then build_application (module Startup).
Provisioned(p) == Advance(p, "start", "build")
NotProvisioned(p) == PrintAndExit(p, "start", "EXIT_INTERNAL_FAILURE")
Built(p) == Advance(p, "build", "prompt")
StartupFails(p) == PrintAndExit(p, "build", "EXIT_INTERNAL_FAILURE")

\* getpass: a password, or EOF or KeyboardInterrupt; anything else it raises
\* is a traceback.
PasswordRead(p) == Advance(p, "prompt", "authenticate")
PromptAborted(p) == PrintAndExit(p, "prompt", "EXIT_AUTHENTICATION_FAILED")

\* authenticate reads the users table once; SQLite may fail.
Authenticating(p) ==
    /\ stage[p] = "authenticate"
    /\ \/ \E answer \in {find_by_username(store.users, Username), Raises} :
             FindByUsername(p, answer)
       \/ Verify(p)
       \/ VerifyDummy(p)
    /\ UNCHANGED <<vars, storeVars, stage, term, exit, picked>>

\* Variant: a failed authentication is tried again.
AuthenticationFails_Retries(p) ==
    /\ stage[p] = "authenticate"
    /\ authn[p].at = "failed"
    /\ authn' = [authn EXCEPT ![p] = NotBegun]
    /\ UNCHANGED <<vars, storeVars, stage, term, exit, picked>>

\* AuthenticationFailedError.
AuthenticationFails(p) ==
    /\ authn[p].at = "failed"
    /\ PrintAndExit(p, "authenticate", "EXIT_AUTHENTICATION_FAILED")

\* Anything else that authenticate or the AccessRequest raises, and
\* KeyboardInterrupt.
AuthenticationRaises(p) == PrintAndExit(p, "authenticate", "EXIT_INTERNAL_FAILURE")

Authenticated(p) == authn[p].at = "principal" /\ Advance(p, "authenticate", "announce")

\* The line that announces the request is printed outside every try.
Announced(p) == Advance(p, "announce", "terminal")
AnnouncementRaises(p) == ExitFrom(p, "announce", "traceback")

\* Where no handler names KeyboardInterrupt.
InterruptEscapes(p) ==
    \E from \in {"start", "build", "announce", "report"} : ExitFrom(p, from, "interrupted")

-----------------------------------------------------------------------------
(***************************************************************************)
(* The session and its report.                                             *)
(***************************************************************************)

\* raw_terminal_mode is entered before handle is called; when setraw fails it
\* restores the attributes, which may fail as well, and raises.
EnterRawMode(p) ==
    /\ stage[p] = "terminal"
    /\ Handle(p)
    /\ stage' = [stage EXCEPT ![p] = "handle"]
    /\ term' = [term EXCEPT ![p] = "raw"]
    /\ UNCHANGED <<storeVars, exit, picked, authn>>
RawModeFails(p) ==
    /\ stage[p] = "terminal"
    /\ \E c \in Printed("EXIT_SESSION_FAILED") : Exit(p, c)
    /\ \E t \in {"cooked", "stuck"} : term' = [term EXCEPT ![p] = t]
    /\ UNCHANGED vars

\* What a row says of itself, in the terms of AccessService.
Status(answer) ==
    IF answer = Absent THEN "absent" ELSE IF answer.row.enabled THEN "enabled" ELSE "disabled"

AccountAnswer(p) == find_for_target(store.accounts, Target)

\* A lookup that raises ends handle; one that does not gives what the tables
\* hold.  The request carries the principal's own user_id.
Answers(p) ==
    LET policies == find_matching(store.policies, authn[p].found.row.id, Target)
        target == get(store.targets, Target)
        account == AccountAnswer(p)
        credential == resolve(store.vault, picked[p].row.credential, VaultKey)
    IN
    CASE pc[p] = "identity" -> seen'[p].identity = "match"
      [] pc'[p] = "raised" -> TRUE
      [] pc[p] = "policy" -> policies # Raises /\ seen'[p].policies = policies.row
      [] pc[p] = "target" -> target # Raises /\ seen'[p].target = Status(target)
      [] pc[p] = "account" -> account # Raises /\ seen'[p].account = Status(account)
      [] pc[p] = "vault" -> credential # Raises /\ seen'[p].credential = "present"
      [] OTHER -> TRUE

InHandle(p) ==
    /\ stage[p] = "handle"
    /\ Step(p)
    /\ Answers(p)
    /\ picked' = IF pc[p] = "account" THEN [picked EXCEPT ![p] = AccountAnswer(p)] ELSE picked
    /\ UNCHANGED <<storeVars, stage, term, exit, authn>>
HandleInterrupted(p) ==
    /\ stage[p] = "handle"
    /\ Interrupt(p)
    /\ UNCHANGED <<cliVars, storeVars>>

\* Variant: the terminal is restored only after a normal return.
LeaveRawMode_OnReturn(p) ==
    /\ stage[p] = "handle"
    /\ pc[p] \in Finished
    /\ term' = [term EXCEPT ![p] = IF pc[p] = "returned" THEN "cooked" ELSE @]
    /\ IF pc[p] = "returned"
         THEN /\ stage' = [stage EXCEPT ![p] = "report"]
              /\ UNCHANGED <<storeVars, exit, picked, authn>>
         ELSE \E c \in Printed("EXIT_SESSION_FAILED") : Exit(p, c)
    /\ UNCHANGED vars

\* The finally of raw_terminal_mode, however handle ended.
LeaveRawMode(p) ==
    /\ stage[p] = "handle"
    /\ pc[p] \in Finished
    /\ term' = [term EXCEPT ![p] = "cooked"]
    /\ IF pc[p] = "returned"
         THEN /\ stage' = [stage EXCEPT ![p] = "report"]
              /\ UNCHANGED <<storeVars, exit, picked, authn>>
         ELSE \E c \in Printed("EXIT_SESSION_FAILED") : Exit(p, c)
    /\ UNCHANGED vars

\* tcsetattr raises, or KeyboardInterrupt arrives around it: the result of
\* handle is lost.
RestoreFails(p) ==
    /\ stage[p] = "handle"
    /\ pc[p] \in Finished
    /\ \E t \in {"cooked", "stuck"} : term' = [term EXCEPT ![p] = t]
    /\ \E c \in Printed("EXIT_SESSION_FAILED") : Exit(p, c)
    /\ UNCHANGED vars

\* Variant: an allowed access is a success.
ReportedCode_Allowed(p) ==
    IF decision[p].effect # "allow" THEN "EXIT_ACCESS_DENIED" ELSE "EXIT_SUCCESS"

\* _report_access_result.
ReportedCode(p) ==
    IF decision[p].effect # "allow" THEN "EXIT_ACCESS_DENIED"
    ELSE IF session[p].status = "closed" THEN "EXIT_SUCCESS"
    ELSE "EXIT_SESSION_FAILED"

Report(p) ==
    /\ stage[p] = "report"
    /\ Exit(p, ReportedCode(p))
    /\ UNCHANGED <<vars, term>>

\* The print of the report raises; the handler prints as well.
ReportRaises(p) == PrintAndExit(p, "report", "EXIT_SESSION_FAILED")

\* The process is killed inside handle.
Killed(p) ==
    /\ stage[p] = "handle"
    /\ Kill(p)
    /\ Exit(p, "killed")
    /\ UNCHANGED term

BeforeHandle(p) ==
    \/ Provisioned(p) \/ NotProvisioned(p)
    \/ Built(p) \/ StartupFails(p)
    \/ PasswordRead(p) \/ PromptAborted(p)

CliStep(p) ==
    \/ Authenticating(p) \/ Authenticated(p) \/ AuthenticationFails(p)
    \/ Announced(p)
    \/ EnterRawMode(p) \/ RawModeFails(p)
    \/ InHandle(p)
    \/ LeaveRawMode(p) \/ RestoreFails(p)
    \/ Report(p) \/ ReportRaises(p)

Fault(p) ==
    \/ AuthenticationRaises(p) \/ AnnouncementRaises(p) \/ InterruptEscapes(p)
    \/ HandleInterrupted(p) \/ Killed(p)

CliNext ==
    \/ \E p \in Procs : BeforeHandle(p) \/ CliStep(p) \/ Fault(p)
    \/ \E t \in DOMAIN Contents : Edit(t)

CliSpec == CliInit /\ [][CliNext]_allVars

\* Inside open_session and relay the command waits for the target and for the
\* local terminal: get_pty, invoke_shell, sendall and write_output have no
\* timeout.
Waiting(p) == stage[p] = "handle" /\ pc[p] \in {"open", "relay"}

\* Everywhere else a command that has the password goes on: SQLite waits its
\* busy timeout at most, and prints and the closes of paramiko are taken to
\* return or raise.
CliFairSpec == CliSpec /\ \A p \in Procs : WF_allVars(~ Waiting(p) /\ CliStep(p))

-----------------------------------------------------------------------------
\* The gates on the way of a command to its connection.
Used(p) ==
    {<<"user", Username>>, <<"policy", authn[p].found.row.id>>, <<"target", Target>>,
     <<"account", Target>>, <<"credential", picked[p].row.credential>>}

(***************************************************************************)
(* What was denied all the time is never used: when the command gets as    *)
(* far as a connection to the target, the user, the policies of the id it  *)
(* was authenticated as, the target, its account, and the credential that  *)
(* is used were each in order at some moment of this command.              *)
(* The five are read one after the other, so they need not have been in    *)
(* order together, and an edit made later is not seen; but a revocation    *)
(* that was in place when the command began, and stayed, is never passed.  *)
(***************************************************************************)
StandingDenialHolds ==
    \A p \in Procs : broker[p] # "none" => Used(p) \cap denied[p] = {}

(***************************************************************************)
(* An authentication answers after verifying exactly one password hash,    *)
(* whether the user exists, is disabled, cannot be read, or the database   *)
(* fails: none of these has a fast path.  (A stored hash that looks like   *)
(* argon2id but is malformed counts as one verification, though Argon2     *)
(* rejects it early.)                                                      *)
(***************************************************************************)
VerificationIsUniform ==
    \A p \in Procs : authn[p].at \in AuthenticateEnded => authn[p].verified = 1

(***************************************************************************)
(* The code that main returns tells the truth about the log and the        *)
(* target: 0 only for a session recorded as closed, with the connection    *)
(* closed and the terminal restored; 3 only for a recorded denial, with    *)
(* neither the vault nor the broker reached; 1 and 2 only when nothing was *)
(* asked, logged or opened.  A connection that Ctrl-C stranded is never    *)
(* reported as anything but a failure.  (A traceback has status 1 as well: *)
(* it says that a print failed, and nothing of the session.)               *)
(***************************************************************************)
ExitCodeIsHonest ==
    \A p \in Procs :
        /\ exit[p] = "EXIT_SUCCESS" =>
              /\ "SESSION_CLOSED" \in Logged(p)
              /\ broker[p] = "closed"
              /\ term[p] = "cooked"
        /\ exit[p] = "EXIT_ACCESS_DENIED" =>
              /\ Logged(p) = {"ACCESS_DENIED"}
              /\ seen[p].credential = "none"
              /\ broker[p] = "none"
        /\ exit[p] \in {"EXIT_INTERNAL_FAILURE", "EXIT_AUTHENTICATION_FAILED"} =>
              /\ Logged(p) = {}
              /\ seen[p] = NothingSeen
              /\ broker[p] = "none"

(***************************************************************************)
(* A process that exits has given its terminal back, unless tcsetattr      *)
(* itself failed; only a killed process leaves it raw.                     *)
(***************************************************************************)
TerminalIsRestored ==
    \A p \in Procs :
        /\ exit[p] \notin {"none", "killed"} => term[p] # "raw"
        /\ pc[p] \in Handling => term[p] = "raw"

(***************************************************************************)
(* Once the password has been read, the command ends, or gets to where it  *)
(* waits for the target or the terminal, in open_session or in relay; and  *)
(* when that wait is over, however it ended, the command ends: no failure  *)
(* leaves it waiting anywhere else or trying again.                        *)
(***************************************************************************)
CommandTerminates ==
    \A p \in Procs :
        stage[p] \in {"authenticate", "announce", "terminal", "handle", "report"} /\ ~ Waiting(p)
            ~> exit[p] # "none" \/ Waiting(p)

=============================================================================
