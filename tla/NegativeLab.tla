----------------------------- MODULE NegativeLab -----------------------------
(***************************************************************************)
(* prepare_negative_lab (src/tools/prepare_negative_lab.py): copies a lab  *)
(* runtime file by file into a new directory and changes one thing in the  *)
(* copy, so that access to it must be refused at one particular gate.      *)
(*                                                                         *)
(* Several preparers may work at the same time, also for one destination;  *)
(* the baseline's audit.db appears and grows under their hands; each may   *)
(* fail, or be killed, between two steps.  docs/LAB_NEGATIVE_E2E.md asks   *)
(* for a finished Lab Setup and for no CLI writing audit.db during the     *)
(* copy: the other files stand still, and a copy of audit.db is whole.     *)
(***************************************************************************)
EXTENDS Lookups

CONSTANTS
    Preparers,      \* executions of the tool
    Destinations,   \* directories under runtime/scenarios
    Baselines,      \* what runtime/lab may hold
    NoFile,         \* content of a file that does not exist
    Torn,           \* content of a file whose copy was not finished
    MaxEvents       \* bound: events in the baseline's audit.db

Scenarios == {"deny", "disabled-target", "disabled-account", "bad-host-key", "tampered-audit"}
Required == <<"vault.key", "audit.key", "auth.db", "config.db", "vault.db">>
Files == {"vault.key", "audit.key", "auth.db", "config.db", "vault.db", "audit.db"}

\* The configuration of one lab: at most one policy, target and account.
PolicyRows == [id : STRING, user : STRING, target : STRING, effect : Effects, valid : BOOLEAN]
TargetRows == [id : STRING, pin : STRING, enabled : BOOLEAN, valid : BOOLEAN]
AccountRows ==
    [id : STRING, target : STRING, credential : STRING, enabled : BOOLEAN, valid : BOOLEAN]
Configs ==
    {c \in [policies : SUBSET PolicyRows, targets : SUBSET TargetRows, accounts : SUBSET AccountRows] :
        /\ \A r, s \in c.policies : r = s /\ r.id \in DOMAIN PolicyRank
        /\ \A r, s \in c.targets : r = s
        /\ \A r, s \in c.accounts : r = s}

\* An event is its target and the target its MAC was calculated over.
Events == [target : STRING, signed : STRING]
Verifies(events) == \A i \in DOMAIN events : events[i].target = events[i].signed

\* Lab Setup was finished, or not, with any ids: a baseline holds one lab's
\* configuration and an audit log that verifies, as far as it holds them.
ASSUME BaselinesAssumption ==
    /\ NoFile \notin Configs /\ NoFile \notin Seq(Events)
    /\ \A b \in Baselines :
          /\ DOMAIN b = Files
          /\ b["config.db"] \in Configs \cup {NoFile}
          /\ b["audit.db"] \in Seq(Events) \cup {NoFile}
          /\ b["audit.db"] # NoFile => Verifies(b["audit.db"])

\* A fact about strings, stated because the provers do not know it.
ASSUME StringAssumption == {"wrong", "tampered", "target-001"} \subseteq STRING

VARIABLES
    pc,     \* position of each preparer
    want,   \* its scenario and destination
    names,  \* files it still has to copy
    base,   \* the baseline, runtime/lab
    made,   \* destinations that exist
    dest,   \* their files
    maker   \* history: who copied each of them

vars == <<pc, want, names, base, made, dest, maker>>

Init ==
    /\ pc = [p \in Preparers |-> "paths"]
    /\ want \in [Preparers -> [scenario : Scenarios, dir : Destinations]]
    /\ names = [p \in Preparers |-> << >>]
    /\ base \in Baselines
    /\ made = {}
    /\ dest = [d \in Destinations |-> [f \in Files |-> NoFile]]
    /\ maker = [d \in Destinations |-> [f \in Files |-> NoFile]]

Dir(p) == want[p].dir
Goto(p, label) == pc' = [pc EXCEPT ![p] = label]

\* NegativeLabPreparationError, or the process is killed: what was made stays.
Fails(p) ==
    /\ pc[p] \notin {"prepared", "failed"}
    /\ Goto(p, "failed")
    /\ UNCHANGED <<want, names, base, made, dest, maker>>

-----------------------------------------------------------------------------
\* _validate_paths: a destination that exists is refused.
ValidatePaths(p) ==
    /\ pc[p] = "paths"
    /\ Dir(p) \notin made
    /\ Goto(p, "source")
    /\ UNCHANGED <<want, names, base, made, dest, maker>>

\* The files a scenario is copied from; audit.db only if it is there by now.
SourceFiles(p) ==
    IF want[p].scenario = "tampered-audit" THEN <<"audit.key", "audit.db">>
    ELSE IF base["audit.db"] = NoFile THEN Required ELSE Required \o <<"audit.db">>

ValidateSource(p) ==
    /\ pc[p] = "source"
    /\ \A i \in DOMAIN SourceFiles(p) : base[SourceFiles(p)[i]] # NoFile
    /\ names' = [names EXCEPT ![p] = SourceFiles(p)]
    /\ Goto(p, "create")
    /\ UNCHANGED <<want, base, made, dest, maker>>

\* Variant: mkdir(exist_ok=True).
CreateDestination_Reuses(p) ==
    /\ pc[p] = "create"
    /\ made' = made \cup {Dir(p)}
    /\ Goto(p, "copy")
    /\ UNCHANGED <<want, names, base, dest, maker>>

\* mkdir, which decides between preparers that both found nothing there.
CreateDestination(p) ==
    /\ pc[p] = "create"
    /\ Dir(p) \notin made
    /\ made' = made \cup {Dir(p)}
    /\ Goto(p, "copy")
    /\ UNCHANGED <<want, names, base, dest, maker>>

\* _copy_private_file: O_EXCL creates the file, and the copy may break off.
Copy(p) ==
    /\ pc[p] = "copy"
    /\ LET f == Head(names[p]) IN
       /\ dest[Dir(p)][f] = NoFile
       /\ maker' = [maker EXCEPT ![Dir(p)][f] = p]
       /\ \/ /\ dest' = [dest EXCEPT ![Dir(p)][f] = base[f]]
             /\ names' = [names EXCEPT ![p] = Tail(@)]
             /\ Goto(p, IF names'[p] = << >> THEN "change" ELSE "copy")
          \/ /\ dest' = [dest EXCEPT ![Dir(p)][f] = Torn]
             /\ Goto(p, "failed")
             /\ UNCHANGED names
    /\ UNCHANGED <<want, base, made>>

\* What the UPDATE of each scenario selects, by the ids of the default lab, and
\* makes of it.
Selected(scenario, config) ==
    CASE scenario = "deny" ->
            {r \in config.policies : r.id = "policy-001" /\ r.effect = "allow"}
      [] scenario = "disabled-target" ->
            {r \in config.targets : r.id = "target-001" /\ r.enabled}
      [] scenario = "disabled-account" ->
            {r \in config.accounts : r.id = "account-001" /\ r.enabled}
      [] scenario = "bad-host-key" ->
            {r \in config.targets : r.id = "target-001" /\ r.pin # "wrong"}

Updated(scenario, config) ==
    LET old == Selected(scenario, config) IN
    CASE scenario = "deny" ->
            [config EXCEPT !.policies = (@ \ old) \cup {[r EXCEPT !.effect = "deny"] : r \in old}]
      [] scenario = "disabled-target" ->
            [config EXCEPT !.targets = (@ \ old) \cup {[r EXCEPT !.enabled = FALSE] : r \in old}]
      [] scenario = "disabled-account" ->
            [config EXCEPT !.accounts = (@ \ old) \cup {[r EXCEPT !.enabled = FALSE] : r \in old}]
      [] scenario = "bad-host-key" ->
            [config EXCEPT !.targets = (@ \ old) \cup {[r EXCEPT !.pin = "wrong"] : r \in old}]

\* Variant: the number of rows is not looked at.
MutateConfig_Unchecked(p) ==
    LET config == dest[Dir(p)]["config.db"] IN
    dest' = [dest EXCEPT ![Dir(p)]["config.db"] = Updated(want[p].scenario, config)]

\* _mutate_copied_config: cursor.rowcount must be 1, or nothing is committed.
MutateConfig(p) ==
    LET config == dest[Dir(p)]["config.db"] IN
    /\ Selected(want[p].scenario, config) # {}
    /\ dest' = [dest EXCEPT ![Dir(p)]["config.db"] = Updated(want[p].scenario, config)]

\* _tamper_copied_audit: the first event, without its MAC.
TamperAudit(p) ==
    LET events == dest[Dir(p)]["audit.db"] IN
    /\ events # << >>
    /\ events[1].target # "tampered"
    /\ dest' = [dest EXCEPT ![Dir(p)]["audit.db"][1].target = "tampered"]

Change(p) ==
    /\ pc[p] = "change"
    /\ IF want[p].scenario = "tampered-audit" THEN TamperAudit(p) ELSE MutateConfig(p)
    /\ Goto(p, "prepared")
    /\ UNCHANGED <<want, names, base, made, maker>>

\* Access commands on the baseline: the first creates audit.db, each appends.
BaselineIsUsed ==
    /\ IF base["audit.db"] = NoFile
         THEN base' = [base EXCEPT !["audit.db"] = << >>]
         ELSE /\ Len(base["audit.db"]) < MaxEvents
              /\ base' = [base EXCEPT !["audit.db"] =
                             Append(@, [target |-> "target-001", signed |-> "target-001"])]
    /\ UNCHANGED <<pc, want, names, made, dest, maker>>

Next ==
    \/ \E p \in Preparers :
          \/ ValidatePaths(p) \/ ValidateSource(p) \/ CreateDestination(p)
          \/ Copy(p) \/ Change(p)
          \/ Fails(p)
    \/ BaselineIsUsed

Spec == Init /\ [][Next]_vars

-----------------------------------------------------------------------------
\* Where AccessService refuses a user a target on this runtime.
Refusal(runtime, user, target) ==
    LET config == runtime["config.db"]
        policies == find_matching(config.policies, user.id, target.id)
        account == find_for_target(config.accounts, target.id)
    IN  IF policies = Raises \/ evaluate(policies.row).effect # "allow" THEN "policy"
        ELSE IF ~ target.enabled THEN "target"
        ELSE IF account.kind # "found" \/ ~ account.row.enabled THEN "account"
        ELSE IF resolve(runtime["vault.db"], account.row.credential, runtime["vault.key"]) = Raises
          THEN "credential"
        ELSE IF target.pin = "wrong" THEN "host_key" ELSE "none"

\* The gate each scenario is about.
Expected(scenario) ==
    CASE scenario = "deny" -> "policy"
      [] scenario = "disabled-target" -> "target"
      [] scenario = "disabled-account" -> "account"
      [] scenario = "bad-host-key" -> "host_key"

Prepared(p) == pc[p] = "prepared"

(***************************************************************************)
(* A scenario reported as prepared shows what its name says: nobody        *)
(* reaches a target in the copy, and whoever does in the baseline is       *)
(* refused at exactly the gate that docs/LAB_NEGATIVE_E2E.md names; the    *)
(* copied audit log no longer verifies, while the baseline's still does.   *)
(* The ids in the statements are those of the default lab, and the         *)
(* baseline may be another, or half provisioned.                           *)
(***************************************************************************)
ScenarioBlocks ==
    \A p \in Preparers : Prepared(p) =>
        LET copy == dest[Dir(p)] IN
        IF want[p].scenario = "tampered-audit"
          THEN ~ Verifies(copy["audit.db"]) /\ Verifies(base["audit.db"])
          ELSE \A user \in copy["auth.db"], target \in copy["config.db"].targets :
                  /\ Refusal(copy, user, target) # "none"
                  /\ (\E t \in base["config.db"].targets :
                         t.id = target.id /\ Refusal(base, user, t) = "none")
                        => Refusal(copy, user, target) = Expected(want[p].scenario)

(***************************************************************************)
(* A prepared copy is one preparer's work and complete: every file in it   *)
(* was copied by that run, all that the scenario needs are there, and but  *)
(* for the one change they are the baseline's, the audit log as it was at  *)
(* some moment, although others raced for the same directory.              *)
(***************************************************************************)
CopyIsOwnAndWhole ==
    \A p \in Preparers : Prepared(p) =>
        LET copy == dest[Dir(p)]
            needed == IF want[p].scenario = "tampered-audit" THEN {"audit.key", "audit.db"}
                      ELSE {Required[i] : i \in DOMAIN Required}
            copied == {f \in Files : copy[f] # NoFile}
        IN
        /\ needed \subseteq copied /\ copied \subseteq needed \cup {"audit.db"}
        /\ \A f \in copied : maker[Dir(p)][f] = p
        /\ \A f \in copied \ {"config.db", "audit.db"} : copy[f] = base[f]
        /\ "audit.db" \in copied =>
              /\ Len(copy["audit.db"]) <= Len(base["audit.db"])
              /\ \A i \in DOMAIN copy["audit.db"] :
                    copy["audit.db"][i].signed = base["audit.db"][i].signed

=============================================================================
