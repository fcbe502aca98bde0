------------------------------ MODULE CliProofs ------------------------------
(***************************************************************************)
(* The access command keeps its promises for any number of processes, any  *)
(* tables and any edits of them while the commands run.  What it does      *)
(* inside handle is AccessService's, so its invariants carry over.         *)
(***************************************************************************)
EXTENDS Cli, AccessServiceProofs, FiniteSetTheorems

-----------------------------------------------------------------------------
(***************************************************************************)
(* The lookups.                                                            *)
(***************************************************************************)

\* A row of the table that can be read, or none, or an exception.
LEMMA FetchOneFacts ==
    ASSUME NEW matching
    PROVE  \/ FetchOne(matching) = Absent /\ matching = {}
           \/ FetchOne(matching) = Raises
           \/ \E r \in matching : r.valid /\ FetchOne(matching) = Found(r)
<1>1. CASE matching = {}
  BY <1>1 DEF FetchOne
<1>2. CASE matching # {}
  <2>1. PICK r : r = CHOOSE x \in matching : TRUE
    OBVIOUS
  <2>2. r \in matching
    BY <1>2, <2>1
  <2>3. FetchOne(matching) = IF r.valid THEN Found(r) ELSE Raises
    BY <1>2, <2>1 DEF FetchOne
  <2> QED
    BY <2>2, <2>3
<1> QED
  BY <1>1, <1>2

\* The three kinds of answers are told apart.
LEMMA AnswerKinds ==
    ASSUME NEW x
    PROVE  /\ Found(x) # Absent /\ Found(x) # Raises /\ Absent # Raises
           /\ Found(x).row = x /\ Found(x).kind = "found"
           /\ Absent.kind # "found" /\ Raises.kind # "found"
BY DEF Found, Absent, Raises

\* ORDER BY id leaves no row out.
LEMMA OrderCovers ==
    ASSUME NEW rows, IsFiniteSet(rows), \A r \in rows : r.id \in DOMAIN PolicyRank,
           \A r, s \in rows : r.id = s.id => r = s
    PROVE  /\ \A r \in rows : \E i \in DOMAIN OrderById(rows) : OrderById(rows)[i] = r
           /\ DOMAIN OrderById(rows) # {} => rows # {}
<1> DEFINE Before(r) == {s \in rows : PolicyRank[s.id] < PolicyRank[r.id]}
<1>1. \A r \in rows : PolicyRank[r.id] \in Nat
  BY RankAssumption
<1>2. ASSUME NEW r \in rows, NEW s \in rows, PolicyRank[r.id] < PolicyRank[s.id]
      PROVE  Cardinality(Before(r)) # Cardinality(Before(s))
  <2>1. Before(r) \subseteq Before(s) /\ Before(r) # Before(s)
    <3>1. Before(r) \subseteq Before(s)
      BY <1>1, <1>2
    <3>2. r \in Before(s) /\ r \notin Before(r)
      BY <1>1, <1>2
    <3> QED
      BY <3>1, <3>2
  <2>2. IsFiniteSet(Before(s)) /\ IsFiniteSet(Before(r))
    BY FS_Subset
  <2> HIDE DEF Before
  <2> QED
    BY <2>1, <2>2, FS_Subset
<1>3. ASSUME NEW r \in rows, NEW s \in rows, Cardinality(Before(r)) = Cardinality(Before(s))
      PROVE  r = s
  <2>1. PolicyRank[r.id] = PolicyRank[s.id]
    BY <1>1, <1>2, <1>3
  <2> QED
    BY <2>1, RankAssumption
<1>4. ASSUME NEW r \in rows
      PROVE  \E i \in DOMAIN OrderById(rows) : OrderById(rows)[i] = r
  <2>1. Before(r) \subseteq rows /\ Before(r) # rows
    BY <1>1
  <2>2. IsFiniteSet(Before(r)) /\ Cardinality(Before(r)) < Cardinality(rows)
    BY <2>1, FS_Subset, FS_CardinalityType
  <2>3. Cardinality(Before(r)) \in Nat /\ Cardinality(rows) \in Nat
    BY <2>2, FS_CardinalityType
  <2> DEFINE i == Cardinality(Before(r)) + 1
  <2>4. i \in 1..Cardinality(rows) /\ i - 1 = Cardinality(Before(r))
    BY <2>2, <2>3
  <2> HIDE DEF i
  <2>5. OrderById(rows)[i] = CHOOSE s \in rows : Cardinality(Before(s)) = i - 1
    BY <2>4 DEF OrderById
  <2>6. OrderById(rows)[i] \in rows /\ Cardinality(Before(OrderById(rows)[i])) = i - 1
    BY <2>4, <2>5
  <2>7. OrderById(rows)[i] = r
    BY <1>3, <2>4, <2>6
  <2> QED
    BY <2>4, <2>7 DEF OrderById
<1>5. DOMAIN OrderById(rows) # {} => rows # {}
  <2>1. Cardinality({}) = 0
    BY FS_EmptySet
  <2> QED
    BY <2>1 DEF OrderById
<1> QED
  BY <1>4, <1>5

\* A list of policies that allows comes from rows that all do.
LEMMA AllowedByRows ==
    ASSUME NEW rows \in Versions("policies"), NEW user, NEW target,
           find_matching(rows, user, target) # Raises,
           PolicyAllows(find_matching(rows, user, target).row)
    PROVE  LET matching == {r \in rows : r.user = user /\ r.target = target}
           IN  matching # {} /\ \A r \in matching : r.valid /\ r.effect = "allow"
<1> DEFINE matching == {r \in rows : r.user = user /\ r.target = target}
<1>1. find_matching(rows, user, target) =
         IF \E r \in matching : ~ r.valid THEN Raises ELSE Found(Policies(matching))
  BY DEF find_matching
<1>2. /\ IsFiniteSet(matching) /\ \A r \in matching : r.id \in DOMAIN PolicyRank
      /\ \A r, s \in matching : r.id = s.id => r = s
  BY StoreAssumption, FS_Subset
<1> HIDE DEF matching
<1>3. /\ \A r \in matching : r.valid
      /\ find_matching(rows, user, target).row = Policies(matching)
  BY <1>1, AnswerKinds
<1>4. /\ \A r \in matching : \E i \in DOMAIN OrderById(matching) : OrderById(matching)[i] = r
      /\ DOMAIN OrderById(matching) # {} => matching # {}
  BY <1>2, OrderCovers
<1>5. /\ DOMAIN Policies(matching) = DOMAIN OrderById(matching)
      /\ \A i \in DOMAIN OrderById(matching) :
            Policies(matching)[i].effect = OrderById(matching)[i].effect
  BY DEF Policies
<1>6. /\ DOMAIN Policies(matching) # {}
      /\ \A i \in DOMAIN Policies(matching) : Policies(matching)[i].effect = "allow"
  BY <1>3 DEF PolicyAllows
<1> QED
  BY <1>3, <1>4, <1>5, <1>6 DEF matching

-----------------------------------------------------------------------------
(***************************************************************************)
(* The inductive invariant.                                                *)
(***************************************************************************)
BeforeStages == {"start", "build", "prompt", "authenticate", "announce", "terminal"}
AnswersOf(t) == {Absent, Raises} \cup {Found(r) : r \in UNION Versions(t)}

CliShape ==
    /\ stage \in [Procs -> BeforeStages \cup {"handle", "report", "done"}]
    /\ term \in [Procs -> {"cooked", "raw", "stuck"}]
    /\ DOMAIN exit = Procs
    /\ picked \in [Procs -> AnswersOf("accounts")]
    /\ authn \in [Procs -> [at : {"idle", "verify", "dummy", "principal", "failed"},
                            found : AnswersOf("users"), verified : Nat]]
    /\ denied \in [Procs -> SUBSET Gates]
    /\ DOMAIN store = StoreTables
    /\ \A t \in StoreTables : store[t] \in Versions(t)

(***************************************************************************)
(* The stage of a command fixes where handle is, the terminal and what the *)
(* exit code stands for.                                                   *)
(***************************************************************************)
StageInv(p) ==
    /\ stage[p] \in BeforeStages => pc[p] = "idle" /\ term[p] = "cooked" /\ exit[p] = "none"
    /\ stage[p] = "handle" =>
          pc[p] \in Handling \cup Finished /\ term[p] = "raw" /\ exit[p] = "none"
    /\ stage[p] = "report" => pc[p] = "returned" /\ term[p] = "cooked" /\ exit[p] = "none"
    /\ stage[p] = "done" =>
          /\ pc[p] \in {"idle", "killed"} \cup Finished
          /\ exit[p] = "killed" \/ term[p] # "raw"
    /\ exit[p] = "EXIT_SUCCESS" =>
          /\ pc[p] = "returned" /\ term[p] = "cooked"
          /\ decision[p].effect = "allow" /\ session[p].status = "closed"
    /\ exit[p] = "EXIT_ACCESS_DENIED" => pc[p] = "returned" /\ decision[p].effect # "allow"
    /\ exit[p] \in {"EXIT_INTERNAL_FAILURE", "EXIT_AUTHENTICATION_FAILED"} => pc[p] = "idle"

\* A principal is a row of the user that was enabled when it was read.
AuthnInv(p) ==
    /\ authn[p].at \in {"idle", "verify", "dummy"} => authn[p].verified = 0
    /\ authn[p].at \in AuthenticateEnded => authn[p].verified = 1
    /\ stage[p] \in {"start", "build", "prompt"} => authn[p].at = "idle"
    /\ stage[p] \in {"announce", "terminal", "handle"} => authn[p].at = "principal"
    /\ authn[p].at \in {"verify", "principal"} => authn[p].found # Raises
    /\ authn[p].at = "principal" => authn[p].found # Absent /\ authn[p].found.row.enabled
    /\ authn[p].at \in {"verify", "principal"} /\ authn[p].found # Absent =>
          (authn[p].found.row.enabled => <<"user", Username>> \notin denied[p])

\* A favourable answer stands for a gate that was open when it was given.
\* SqliteVault never answers that there is no credential: it raises.
GateInv(p) ==
    /\ denied[p] \subseteq Closed
    /\ seen[p].identity = "match" => <<"user", Username>> \notin denied[p]
    /\ PolicyAllows(seen[p].policies) => <<"policy", authn[p].found.row.id>> \notin denied[p]
    /\ seen[p].target = "enabled" => <<"target", Target>> \notin denied[p]
    /\ seen[p].account = "enabled" => <<"account", Target>> \notin denied[p]
    /\ seen[p].credential # "absent"
    /\ seen[p].credential = "present" => <<"credential", picked[p].row.credential>> \notin denied[p]

CommandInv(p) == StageInv(p) /\ AuthnInv(p) /\ GateInv(p)
CliInv == CliShape /\ \A p \in Procs : CommandInv(p)

-----------------------------------------------------------------------------
(***************************************************************************)
(* The command is a user of AccessService: each of its steps is one of     *)
(* handle, or leaves handle alone.                                         *)
(***************************************************************************)
LEMMA CommandStep == [CliNext]_allVars => [Next]_vars
BY DEF CliNext, allVars, BeforeHandle, CliStep, Fault, Provisioned, NotProvisioned, Built,
       StartupFails, PasswordRead, PromptAborted, Authenticating, Authenticated,
       AuthenticationFails, Announced, EnterRawMode, RawModeFails, InHandle, LeaveRawMode,
       RestoreFails, Report, ReportRaises, AuthenticationRaises, AnnouncementRaises,
       InterruptEscapes, HandleInterrupted, Killed, Advance, ExitFrom, PrintAndExit, Edit, Next, HandleNext

(***************************************************************************)
(* The access command implements AccessService.                            *)
(***************************************************************************)
THEOREM CommandUsesService == CliSpec => Spec
<1>1. CliInit => Init
  BY DEF CliInit
<1> QED
  BY <1>1, CommandStep, PTL DEF CliSpec, Spec

-----------------------------------------------------------------------------
(***************************************************************************)
(* Steps.                                                                  *)
(***************************************************************************)
LEMMA ClosedKept == ASSUME UNCHANGED store PROVE Closed' = Closed
BY DEF Closed, Passes

\* What a step of another process leaves alone.
Same(q) ==
    /\ stage'[q] = stage[q] /\ term'[q] = term[q] /\ exit'[q] = exit[q]
    /\ picked'[q] = picked[q] /\ authn'[q] = authn[q] /\ denied'[q] = denied[q]
    /\ pc'[q] = pc[q] /\ seen'[q] = seen[q] /\ decision'[q] = decision[q]
    /\ session'[q] = session[q]

LEMMA SameKeeps ==
    ASSUME NEW q \in Procs, CommandInv(q), Same(q), UNCHANGED store
    PROVE  CommandInv(q)'
<1>1. Closed' = Closed
  BY ClosedKept
<1>2. PolicyAllows(seen[q].policies)' = PolicyAllows(seen[q].policies)
  BY DEF PolicyAllows, Same
<1>3. StageInv(q)'
  BY DEF CommandInv, Same, StageInv
<1>4. AuthnInv(q)'
  BY DEF CommandInv, Same, AuthnInv
<1>5. GateInv(q)'
  BY <1>1, <1>2 DEF CommandInv, Same, GateInv
<1> QED
  BY <1>3, <1>4, <1>5 DEF CommandInv

LEMMA InitCli == CliInit => CliInv
<1> SUFFICES ASSUME CliInit PROVE CliInv
  OBVIOUS
<1>1. CliShape
  <2>1. Absent \in AnswersOf("accounts") /\ Absent \in AnswersOf("users")
    BY DEF AnswersOf
  <2>2. picked \in [Procs -> AnswersOf("accounts")]
    BY <2>1 DEF CliInit
  <2>3. authn \in [Procs -> [at : {"idle", "verify", "dummy", "principal", "failed"},
                             found : AnswersOf("users"), verified : Nat]]
    BY <2>1 DEF CliInit, NotBegun
  <2>4. /\ stage \in [Procs -> BeforeStages \cup {"handle", "report", "done"}]
        /\ term \in [Procs -> {"cooked", "raw", "stuck"}]
        /\ DOMAIN exit = Procs
    BY DEF CliInit, BeforeStages
  <2>5. denied \in [Procs -> SUBSET Gates]
    BY DEF CliInit, Closed
  <2>6. DOMAIN store = StoreTables /\ \A t \in StoreTables : store[t] \in Versions(t)
    BY StoreAssumption DEF CliInit, Versions
  <2> QED
    BY <2>2, <2>3, <2>4, <2>5, <2>6 DEF CliShape
<1>2. ASSUME NEW p \in Procs PROVE CommandInv(p)
  <2>1. StageInv(p)
    BY DEF CliInit, Init, StageInv, BeforeStages
  <2>2. AuthnInv(p)
    BY DEF CliInit, NotBegun, AuthnInv, AuthenticateEnded
  <2>3. GateInv(p)
    <3>1. seen[p] = NothingSeen /\ denied[p] = Closed
      BY DEF CliInit, Init
    <3>2. ~ PolicyAllows(NothingSeen.policies)
      BY DEF PolicyAllows, NothingSeen
    <3> QED
      BY <3>1, <3>2 DEF GateInv, NothingSeen
  <2> QED
    BY <2>1, <2>2, <2>3 DEF CommandInv
<1> QED
  BY <1>1, <1>2 DEF CliInv

\* An edit may close a gate but closes none that a running command found open.
LEMMA EditKeeps ==
    ASSUME CliInv, GrantInv, NEW t \in StoreTables, Edit(t)
    PROVE  CliInv'
<1>1. UNCHANGED <<vars, cliVars>>
  BY DEF Edit
<1>2. UNCHANGED <<pc, seen, decision, session, stage, term, exit, picked, authn>>
  BY <1>1 DEF vars, cliVars
<1>3. denied' = [p \in Procs |-> IF stage[p] = "start" THEN Closed' ELSE denied[p] \cap Closed']
  BY DEF Edit
<1>4. CliShape'
  <2>1. denied' \in [Procs -> SUBSET Gates]
    BY <1>3 DEF Closed
  <2>2. PICK rows \in Contents[t] : store' = [store EXCEPT ![t] = rows]
    BY DEF Edit
  <2>3. DOMAIN store' = StoreTables /\ \A u \in StoreTables : store'[u] \in Versions(u)
    BY <2>2 DEF CliInv, CliShape, Versions
  <2> QED
    BY <1>2, <2>1, <2>3 DEF CliInv, CliShape
<1>5. ASSUME NEW p \in Procs PROVE CommandInv(p)'
  <2>1. StageInv(p)'
    BY <1>2 DEF CliInv, CommandInv, StageInv
  <2>2. CASE stage[p] = "start"
    <3>1. pc[p] = "idle" /\ authn[p].at = "idle"
      BY <2>2 DEF CliInv, CommandInv, StageInv, AuthnInv, BeforeStages
    <3>2. seen[p] = NothingSeen
      BY <3>1 DEF GrantInv, Asked
    <3>3. AuthnInv(p)'
      BY <1>2, <2>2, <3>1 DEF CliInv, CommandInv, AuthnInv
    <3>4. ~ PolicyAllows(NothingSeen.policies)
      BY DEF PolicyAllows, NothingSeen
    <3>5. GateInv(p)'
      <4>1. denied'[p] = Closed'
        BY <1>3, <2>2
      <4>2. ~ PolicyAllows(seen[p].policies)'
        BY <1>2, <3>2, <3>4 DEF PolicyAllows
      <4> QED
        BY <1>2, <3>2, <4>1, <4>2 DEF GateInv, NothingSeen
    <3> QED
      BY <2>1, <3>3, <3>5 DEF CommandInv
  <2>3. CASE stage[p] # "start"
    <3>1. denied'[p] \subseteq denied[p] /\ denied'[p] \subseteq Closed'
      BY <1>3, <2>3
    <3>2. AuthnInv(p)'
      BY <1>2, <3>1 DEF CliInv, CommandInv, AuthnInv
    <3>3. PolicyAllows(seen[p].policies)' = PolicyAllows(seen[p].policies)
      BY <1>2 DEF PolicyAllows
    <3>4. GateInv(p)'
      BY <1>2, <3>1, <3>3 DEF CliInv, CommandInv, GateInv
    <3> QED
      BY <2>1, <3>2, <3>4 DEF CommandInv
  <2> QED
    BY <2>2, <2>3
<1> QED
  BY <1>4, <1>5 DEF CliInv

\* A step outside authenticate and handle.
LEMMA OutsideKeeps ==
    ASSUME CliInv, NEW p \in Procs, UNCHANGED <<vars, storeVars, picked, authn>>,
           NEW to \in BeforeStages \cup {"handle", "report", "done"},
           stage' = [stage EXCEPT ![p] = to],
           term' \in [Procs -> {"cooked", "raw", "stuck"}], DOMAIN exit' = Procs,
           \A q \in Procs \ {p} : term'[q] = term[q] /\ exit'[q] = exit[q],
           StageInv(p)',
           to \in {"start", "build", "prompt"} => authn[p].at = "idle",
           to \in {"announce", "terminal", "handle"} => authn[p].at = "principal"
    PROVE  CliInv'
<1>1. /\ UNCHANGED <<pc, seen, decision, session, picked, authn, store, denied>>
      /\ stage'[p] = to
      /\ \A q \in Procs \ {p} : Same(q)
  BY DEF vars, storeVars, CliInv, CliShape, Same
<1>2. CliShape'
  BY <1>1 DEF CliInv, CliShape
<1>3. AuthnInv(p)'
  BY <1>1 DEF CliInv, CommandInv, AuthnInv
<1>4. GateInv(p)'
  <2>1. Closed' = Closed
    BY <1>1, ClosedKept
  <2>2. PolicyAllows(seen[p].policies)' = PolicyAllows(seen[p].policies)
    BY <1>1 DEF PolicyAllows
  <2> QED
    BY <1>1, <2>1, <2>2 DEF CliInv, CommandInv, GateInv
<1>5. \A q \in Procs \ {p} : CommandInv(q)'
  BY <1>1, SameKeeps DEF CliInv
<1> QED
  BY <1>2, <1>3, <1>4, <1>5 DEF CliInv, CommandInv

LEMMA AdvanceKeeps ==
    ASSUME CliInv, NEW p \in Procs, NEW from \in BeforeStages, NEW to \in BeforeStages,
           Advance(p, from, to),
           to \in {"start", "build", "prompt"} => authn[p].at = "idle",
           to \in {"announce", "terminal"} => authn[p].at = "principal"
    PROVE  CliInv'
<1>1. /\ UNCHANGED <<vars, storeVars, picked, authn>> /\ stage' = [stage EXCEPT ![p] = to]
      /\ UNCHANGED <<pc, decision, session, term, exit>> /\ stage[p] = from
  BY DEF Advance, vars
<1>2. /\ term' \in [Procs -> {"cooked", "raw", "stuck"}] /\ DOMAIN exit' = Procs
      /\ stage'[p] = to
  BY <1>1 DEF CliInv, CliShape
<1>3. StageInv(p)'
  BY <1>1, <1>2 DEF CliInv, CommandInv, StageInv, BeforeStages
<1>4. to # "handle"
  BY DEF BeforeStages
<1> QED
  BY <1>1, <1>2, <1>3, <1>4, OutsideKeeps

LEMMA ExitKeeps ==
    ASSUME CliInv, NEW p \in Procs, NEW code, Exit(p, code), UNCHANGED vars,
           term' \in [Procs -> {"cooked", "raw", "stuck"}], term'[p] # "raw",
           \A q \in Procs \ {p} : term'[q] = term[q],
           stage[p] # "done", stage[p] = "handle" => pc[p] \in Finished,
           code = "EXIT_SUCCESS" =>
              /\ pc[p] = "returned" /\ term'[p] = "cooked"
              /\ decision[p].effect = "allow" /\ session[p].status = "closed",
           code = "EXIT_ACCESS_DENIED" => pc[p] = "returned" /\ decision[p].effect # "allow",
           code \in {"EXIT_INTERNAL_FAILURE", "EXIT_AUTHENTICATION_FAILED"} =>
              stage[p] \in BeforeStages
    PROVE  CliInv'
<1>1. /\ UNCHANGED <<vars, storeVars, picked, authn>> /\ stage' = [stage EXCEPT ![p] = "done"]
      /\ UNCHANGED <<pc, decision, session>> /\ exit' = [exit EXCEPT ![p] = code]
  BY DEF Exit, vars
<1>2. exit'[p] = code /\ stage'[p] = "done" /\ StageInv(p)
  BY <1>1 DEF CliInv, CliShape, CommandInv
<1>3. pc[p] \in {"idle", "killed"} \cup Finished /\ (stage[p] \in BeforeStages => pc[p] = "idle")
  <2>1. stage[p] \in BeforeStages \cup {"handle", "report", "done"}
    BY DEF CliInv, CliShape
  <2> QED
    BY <1>2, <2>1 DEF StageInv, Finished
<1>4. StageInv(p)'
  BY <1>1, <1>2, <1>3 DEF StageInv, BeforeStages
<1>5. DOMAIN exit' = Procs /\ \A q \in Procs \ {p} : exit'[q] = exit[q]
  BY <1>1 DEF CliInv, CliShape
<1>6. "done" \in BeforeStages \cup {"handle", "report", "done"}
  OBVIOUS
<1> QED
  BY <1>1, <1>4, <1>5, <1>6, OutsideKeeps

\* Out of _run_access with an exit code, the terminal as it was.
LEMMA ExitFromKeeps ==
    ASSUME CliInv, NEW p \in Procs, NEW from \in BeforeStages \cup {"report"}, NEW code,
           ExitFrom(p, from, code),
           code = "EXIT_SUCCESS" =>
              from = "report" /\ decision[p].effect = "allow" /\ session[p].status = "closed",
           code = "EXIT_ACCESS_DENIED" => from = "report" /\ decision[p].effect # "allow",
           code \in {"EXIT_INTERNAL_FAILURE", "EXIT_AUTHENTICATION_FAILED"} =>
              from \in BeforeStages
    PROVE  CliInv'
<1>1. stage[p] = from /\ Exit(p, code) /\ UNCHANGED <<vars, term>>
  BY DEF ExitFrom
<1>2. /\ term' \in [Procs -> {"cooked", "raw", "stuck"}] /\ term[p] = "cooked"
      /\ from = "report" => pc[p] = "returned"
  BY <1>1 DEF CliInv, CliShape, CommandInv, StageInv
<1>3. stage[p] # "done" /\ stage[p] # "handle"
  BY <1>1 DEF BeforeStages
<1> QED
  BY <1>1, <1>2, <1>3, ExitKeeps

\* The steps before authenticate, out of it, and into the terminal's raw mode.
LEMMA BeforeHandleKeeps ==
    ASSUME CliInv, NEW p \in Procs,
           \/ BeforeHandle(p) \/ Authenticated(p) \/ AuthenticationFails(p) \/ Announced(p)
           \/ AuthenticationRaises(p) \/ AnnouncementRaises(p) \/ InterruptEscapes(p)
    PROVE  CliInv'
<1>1. CASE Provisioned(p) \/ Built(p) \/ PasswordRead(p) \/ Authenticated(p) \/ Announced(p)
  <2>1. PICK from, to \in BeforeStages :
             /\ Advance(p, from, to)
             /\ \/ from \in {"start", "build"} /\ to \in {"build", "prompt"}
                \/ from = "prompt" /\ to = "authenticate"
                \/ from = "authenticate" /\ to = "announce" /\ authn[p].at = "principal"
                \/ from = "announce" /\ to = "terminal"
    BY <1>1 DEF Provisioned, Built, PasswordRead, Authenticated, Announced, BeforeStages
  <2>2. stage[p] = from
    BY <2>1 DEF Advance
  <2>3. /\ to \in {"start", "build", "prompt"} => authn[p].at = "idle"
        /\ to \in {"announce", "terminal"} => authn[p].at = "principal"
    BY <2>1, <2>2 DEF CliInv, CommandInv, AuthnInv
  <2> QED
    BY <2>1, <2>3, AdvanceKeeps
<1>2. CASE \/ NotProvisioned(p) \/ StartupFails(p) \/ PromptAborted(p) \/ AuthenticationFails(p)
           \/ AuthenticationRaises(p) \/ AnnouncementRaises(p)
  <2>1. PICK from \in BeforeStages,
             code \in {"EXIT_INTERNAL_FAILURE", "EXIT_AUTHENTICATION_FAILED", "traceback",
                       "interrupted"} :
             ExitFrom(p, from, code)
    BY <1>2 DEF PrintAndExit, Printed, NotProvisioned, StartupFails, PromptAborted, AuthenticationFails,
       AuthenticationRaises, AnnouncementRaises, BeforeStages
  <2> QED
    BY <2>1, ExitFromKeeps
<1>3. CASE InterruptEscapes(p)
  <2>1. PICK from \in BeforeStages \cup {"report"} : ExitFrom(p, from, "interrupted")
    BY <1>3 DEF InterruptEscapes, BeforeStages
  <2> QED
    BY <2>1, ExitFromKeeps
<1> QED
  BY <1>1, <1>2, <1>3 DEF BeforeHandle

\* However the raw mode and the report end.
LEMMA AfterHandleKeeps ==
    ASSUME CliInv, NEW p \in Procs,
           RawModeFails(p) \/ LeaveRawMode(p) \/ RestoreFails(p) \/ Report(p) \/ ReportRaises(p)
    PROVE  CliInv'
<1>0. term \in [Procs -> {"cooked", "raw", "stuck"}] /\ DOMAIN exit = Procs
  BY DEF CliInv, CliShape
<1>1. CASE Report(p)
  <2>1. ExitFrom(p, "report", ReportedCode(p))
    BY <1>1 DEF Report, ExitFrom
  <2>2. /\ ReportedCode(p) = "EXIT_SUCCESS" =>
              decision[p].effect = "allow" /\ session[p].status = "closed"
        /\ ReportedCode(p) = "EXIT_ACCESS_DENIED" => decision[p].effect # "allow"
        /\ ReportedCode(p) \in {"EXIT_SUCCESS", "EXIT_ACCESS_DENIED", "EXIT_SESSION_FAILED"}
    BY DEF ReportedCode
  <2> QED
    BY <2>1, <2>2, ExitFromKeeps
<1>2. CASE ReportRaises(p)
  <2>1. PICK code \in {"EXIT_SESSION_FAILED", "traceback", "interrupted"} :
            ExitFrom(p, "report", code)
    BY <1>2 DEF ReportRaises, PrintAndExit, Printed
  <2> QED
    BY <2>1, ExitFromKeeps
<1>3. CASE RawModeFails(p) \/ RestoreFails(p) \/ (LeaveRawMode(p) /\ pc[p] # "returned")
  <2>0. PICK code \in {"EXIT_SESSION_FAILED", "traceback", "interrupted"} : Exit(p, code)
    BY <1>3 DEF RawModeFails, RestoreFails, LeaveRawMode, Printed
  <2>1. /\ UNCHANGED vars
        /\ stage[p] \in {"terminal", "handle"} /\ (stage[p] = "handle" => pc[p] \in Finished)
    BY <1>3 DEF RawModeFails, RestoreFails, LeaveRawMode
  <2>2. PICK x \in {"cooked", "stuck"} : term' = [term EXCEPT ![p] = x]
    BY <1>3 DEF RawModeFails, RestoreFails, LeaveRawMode
  <2>3. /\ term' \in [Procs -> {"cooked", "raw", "stuck"}] /\ term'[p] # "raw"
        /\ \A q \in Procs \ {p} : term'[q] = term[q]
    BY <1>0, <2>2
  <2> QED
    BY <2>0, <2>1, <2>3, ExitKeeps
<1>4. CASE LeaveRawMode(p) /\ pc[p] = "returned"
  <2>1. /\ UNCHANGED <<vars, storeVars, picked, authn, exit>> /\ stage[p] = "handle"
        /\ stage' = [stage EXCEPT ![p] = "report"] /\ term' = [term EXCEPT ![p] = "cooked"]
    BY <1>4 DEF LeaveRawMode
  <2>2. /\ term' \in [Procs -> {"cooked", "raw", "stuck"}] /\ DOMAIN exit' = Procs
        /\ \A q \in Procs \ {p} : term'[q] = term[q] /\ exit'[q] = exit[q]
        /\ term'[p] = "cooked" /\ stage'[p] = "report"
    BY <1>0, <2>1 DEF CliInv, CliShape
  <2>3. StageInv(p)'
    BY <1>4, <2>1, <2>2 DEF vars, CliInv, CommandInv, StageInv, BeforeStages
  <2>4. "report" \in BeforeStages \cup {"handle", "report", "done"}
    OBVIOUS
  <2> QED
    BY <2>1, <2>2, <2>3, <2>4, OutsideKeeps
<1> QED
  BY <1>1, <1>2, <1>3, <1>4

-----------------------------------------------------------------------------
(***************************************************************************)
(* Each lookup that answers favourably has found its gate open.            *)
(***************************************************************************)
LEMMA UserGate ==
    ASSUME CliInv, NEW r, find_by_username(store.users, Username) = Found(r)
    PROVE  r \in UNION Versions("users") /\ (r.enabled => <<"user", Username>> \notin Closed)
<1> DEFINE matching == {x \in store.users : x.username = Username}
<1>1. store.users \in Versions("users")
  BY DEF CliInv, CliShape, StoreTables
<1>2. r \in matching /\ r.valid
  <2>1. PICK x \in matching : x.valid /\ Found(x) = Found(r)
    BY FetchOneFacts, AnswerKinds DEF find_by_username
  <2> QED
    BY <2>1, AnswerKinds
<1>3. matching = {r}
  BY <1>1, <1>2, StoreAssumption
<1>4. r.enabled => InOrder(matching)
  BY <1>2, <1>3 DEF InOrder
<1> QED
  BY <1>1, <1>2, <1>3, <1>4 DEF Closed, Passes

LEMMA PolicyGate ==
    ASSUME CliInv, NEW user, find_matching(store.policies, user, Target) # Raises,
           PolicyAllows(find_matching(store.policies, user, Target).row)
    PROVE  <<"policy", user>> \notin Closed
<1>1. store.policies \in Versions("policies")
  BY DEF CliInv, CliShape, StoreTables
<1>2. LET matching == {r \in store.policies : r.user = user /\ r.target = Target}
      IN  matching # {} /\ \A r \in matching : r.valid /\ r.effect = "allow"
  BY <1>1, AllowedByRows
<1> QED
  BY <1>2 DEF Closed, Passes

LEMMA TargetGate ==
    ASSUME CliInv, get(store.targets, Target) # Raises, Status(get(store.targets, Target)) = "enabled"
    PROVE  <<"target", Target>> \notin Closed
<1> DEFINE matching == {x \in store.targets : x.id = Target}
<1>1. store.targets \in Versions("targets")
  BY DEF CliInv, CliShape, StoreTables
<1>2. PICK r \in matching : r.valid /\ get(store.targets, Target) = Found(r)
  BY FetchOneFacts DEF get, Status
<1>3. r.enabled
  BY <1>2, AnswerKinds DEF Status
<1>4. matching = {r}
  BY <1>1, <1>2, StoreAssumption
<1>5. InOrder(matching)
  BY <1>2, <1>3, <1>4 DEF InOrder
<1> QED
  BY <1>5 DEF Closed, Passes

LEMMA AccountGate ==
    ASSUME CliInv, NEW p, AccountAnswer(p) # Raises, Status(AccountAnswer(p)) = "enabled"
    PROVE  <<"account", Target>> \notin Closed
<1> DEFINE matching == {x \in store.accounts : x.target = Target}
<1>2. /\ AccountAnswer(p) = FetchOne(matching)
      /\ \A r, s \in matching : r = s
  BY DEF AccountAnswer, find_for_target
<1>3. PICK r \in matching : r.valid /\ AccountAnswer(p) = Found(r)
  BY <1>2, FetchOneFacts DEF Status
<1>4. r.enabled
  BY <1>3, AnswerKinds DEF Status
<1>5. matching = {r}
  BY <1>2, <1>3
<1>6. InOrder({r})
  BY <1>3, <1>4 DEF InOrder
<1>7. Passes(<<"account", Target>>)
  BY <1>3, <1>5, <1>6 DEF Passes
<1> QED
  BY <1>7 DEF Closed

LEMMA CredentialGate ==
    ASSUME NEW id, resolve(store.vault, id, VaultKey) # Raises
    PROVE  <<"credential", id>> \notin Closed
<1> DEFINE matching == {x \in store.vault : x.id = id}
<1>1. FetchOne(matching).kind = "found" /\ FetchOne(matching).row.key = VaultKey
  BY DEF resolve
<1>2. PICK r \in matching : r.valid /\ FetchOne(matching) = Found(r)
  BY <1>1, FetchOneFacts, AnswerKinds
<1>3. r.key = VaultKey
  BY <1>1, <1>2, AnswerKinds
<1> QED
  BY <1>2, <1>3 DEF Closed, Passes

LEMMA AuthenticatingKeeps ==
    ASSUME CliInv, GrantInv, NEW p \in Procs, Authenticating(p)
    PROVE  CliInv'
<1>1. /\ UNCHANGED <<pc, seen, decision, session, stage, term, exit, picked, store, denied>>
      /\ stage[p] = "authenticate"
  BY DEF Authenticating, vars, storeVars
<1>2. PICK r : authn' = [authn EXCEPT ![p] = r] /\ r = authn'[p]
  BY DEF Authenticating, FindByUsername, Verify, VerifyDummy, CliInv, CliShape
<1>3. authn[p] \in [at : {"idle", "verify", "dummy", "principal", "failed"},
                    found : AnswersOf("users"), verified : Nat]
  BY DEF CliInv, CliShape
<1>4. /\ r \in [at : {"idle", "verify", "dummy", "principal", "failed"},
                found : AnswersOf("users"), verified : Nat]
      /\ AuthnInv(p)'
  <2>0. AuthnInv(p)
    BY DEF CliInv, CommandInv
  <2>1. CASE \E answer \in {find_by_username(store.users, Username), Raises} :
                FindByUsername(p, answer)
    <3>1. PICK answer \in {find_by_username(store.users, Username), Raises} :
             FindByUsername(p, answer)
      BY <2>1
    <3>2. /\ answer \in AnswersOf("users")
          /\ answer \notin {Raises, Absent} =>
                (answer.row.enabled => <<"user", Username>> \notin denied[p])
      <4>1. CASE answer \in {Raises, Absent}
        BY <4>1 DEF AnswersOf
      <4>2. CASE answer \notin {Raises, Absent}
        <5>1. PICK x : find_by_username(store.users, Username) = Found(x) /\ answer = Found(x)
          BY <4>2, FetchOneFacts DEF find_by_username
        <5>2. x \in UNION Versions("users") /\ (x.enabled => <<"user", Username>> \notin Closed)
          BY <5>1, UserGate
        <5>3. denied[p] \subseteq Closed
          BY DEF CliInv, CommandInv, GateInv
        <5> QED
          BY <5>1, <5>2, <5>3, AnswerKinds DEF AnswersOf
      <4> QED
        BY <4>1, <4>2
    <3>3. /\ authn[p].at = "idle" /\ r.found = answer /\ r.verified = authn[p].verified
          /\ r.at = IF answer = Raises THEN "dummy" ELSE "verify"
          /\ r \in [at : {"idle", "verify", "dummy", "principal", "failed"},
                    found : AnswersOf("users"), verified : Nat]
      BY <1>2, <1>3, <3>1, <3>2 DEF FindByUsername, CliInv, CliShape
    <3>4. authn'[p] = r /\ authn[p].verified = 0
      BY <1>2, <2>0, <3>3 DEF AuthnInv
    <3> QED
      BY <1>1, <3>2, <3>3, <3>4 DEF AuthnInv, AuthenticateEnded
  <2>2. CASE Verify(p)
    <3>1. PICK matches \in BOOLEAN :
             authn' = [authn EXCEPT
                 ![p].verified = @ + 1,
                 ![p].at = IF authn[p].found # Absent /\ authn[p].found.row.enabled /\ matches
                             THEN "principal" ELSE "failed"]
      BY <2>2 DEF Verify
    <3>2. /\ authn[p].at = "verify" /\ r.found = authn[p].found
          /\ r.verified = authn[p].verified + 1
          /\ r.at = IF authn[p].found # Absent /\ authn[p].found.row.enabled /\ matches
                      THEN "principal" ELSE "failed"
          /\ r \in [at : {"idle", "verify", "dummy", "principal", "failed"},
                    found : AnswersOf("users"), verified : Nat]
      BY <1>2, <1>3, <2>2, <3>1 DEF Verify, CliInv, CliShape
    <3>3. authn'[p] = r /\ r.verified = 1
      BY <1>2, <2>0, <3>2 DEF AuthnInv
    <3> QED
      BY <1>1, <2>0, <3>2, <3>3 DEF AuthnInv, AuthenticateEnded
  <2>3. CASE VerifyDummy(p)
    <3>1. /\ authn[p].at = "dummy" /\ r.found = authn[p].found
          /\ r.verified = authn[p].verified + 1 /\ r.at = "failed"
          /\ r \in [at : {"idle", "verify", "dummy", "principal", "failed"},
                    found : AnswersOf("users"), verified : Nat]
      BY <1>2, <1>3, <2>3 DEF VerifyDummy, CliInv, CliShape
    <3>2. authn'[p] = r /\ r.verified = 1
      BY <1>2, <2>0, <3>1 DEF AuthnInv
    <3> QED
      BY <1>1, <3>1, <3>2 DEF AuthnInv, AuthenticateEnded
  <2> QED
    BY <2>1, <2>2, <2>3 DEF Authenticating
<1>5. CliShape'
  BY <1>1, <1>2, <1>4 DEF CliInv, CliShape
<1>6. StageInv(p)'
  BY <1>1 DEF CliInv, CommandInv, StageInv
<1>7. GateInv(p)'
  <2>1. Closed' = Closed
    BY <1>1, ClosedKept
  <2>2. seen[p] = NothingSeen
    BY <1>1 DEF CliInv, CommandInv, StageInv, BeforeStages, GrantInv, Asked
  <2>3. ~ PolicyAllows(seen[p].policies)'
    BY <1>1, <2>2 DEF PolicyAllows, NothingSeen
  <2> QED
    BY <1>1, <2>1, <2>2, <2>3 DEF CliInv, CommandInv, GateInv, NothingSeen
<1>8. \A q \in Procs \ {p} : CommandInv(q)'
  <2>1. \A q \in Procs \ {p} : Same(q)
    BY <1>1, <1>2 DEF Same, CliInv, CliShape
  <2> QED
    BY <1>1, <2>1, SameKeeps DEF CliInv
<1> QED
  BY <1>4, <1>5, <1>6, <1>7, <1>8 DEF CliInv, CommandInv

-----------------------------------------------------------------------------
(***************************************************************************)
(* Inside handle.                                                          *)
(***************************************************************************)

\* Where a step of handle goes.
LEMMA HandleMoves ==
    ASSUME AccessInv, NEW p \in Procs, Step(p) \/ Interrupt(p)
    PROVE  pc[p] \in Handling /\ pc'[p] \in Handling \cup Finished
<1>0. pc \in [Procs -> PcValues] /\ unwinding \in [Procs -> {"none", "exception", "interrupt"}]
  BY DEF AccessInv, Shape, LocalShape
<1> USE <1>0 DEF Goto, Handling, Finished, AppendPcs
<1>1. CASE CheckIdentity(p) \/ EvaluatePolicy(p) \/ LookupRaises(p) \/ ResolveCredential(p)
  BY <1>1 DEF CheckIdentity, EvaluatePolicy, LookupRaises, ResolveCredential, Deny, Proceed
<1>2. CASE GetTarget(p)
  BY <1>2 DEF GetTarget, Deny, Proceed
<1>3. CASE FindAccount(p)
  BY <1>3 DEF FindAccount, Deny, Proceed
<1>4. CASE StartSession(p) \/ AppendRaises(p) \/ OpenBroker(p) \/ OpenBrokerRaises(p) \/ Relay(p)
  BY <1>4 DEF StartSession, AppendRaises, OpenBroker, OpenBrokerRaises, Relay
<1>5. CASE AppendEvent(p)
  BY <1>5 DEF AppendEvent, AfterAppend
<1>6. CASE CloseBroker(p)
  BY <1>6 DEF CloseBroker, AfterClose
<1>7. CASE FailSession(p) \/ FinishSession(p)
  BY <1>7 DEF FailSession, FinishSession
<1>8. CASE Interrupt(p)
  BY <1>8 DEF Interrupt
<1> QED
  BY <1>1, <1>2, <1>3, <1>4, <1>5, <1>6, <1>7, <1>8 DEF Step

\* A step of handle that asks nobody, and the way into it.
LEMMA SilentKeeps ==
    ASSUME CliInv, AccessInv, NEW p \in Procs, HandleNext(p), UNCHANGED <<seen, picked, authn, storeVars>>,
           NEW to \in {"handle", "done"}, stage' = [stage EXCEPT ![p] = to],
           term' \in [Procs -> {"cooked", "raw", "stuck"}], DOMAIN exit' = Procs,
           \A q \in Procs \ {p} : term'[q] = term[q] /\ exit'[q] = exit[q],
           StageInv(p)', to = "handle" => authn[p].at = "principal"
    PROVE  CliInv'
<1>1. stage'[p] = to /\ \A q \in Procs \ {p} : Same(q)
  BY StepShape DEF AccessInv, OthersUnchanged, storeVars, Same, CliInv, CliShape
<1>2. UNCHANGED <<seen, picked, authn, store, denied>>
  BY DEF storeVars
<1>3. CliShape'
  BY <1>2 DEF CliInv, CliShape
<1>4. AuthnInv(p)'
  BY <1>1, <1>2 DEF CliInv, CommandInv, AuthnInv
<1>5. GateInv(p)'
  <2>1. Closed' = Closed
    BY <1>2, ClosedKept
  <2>2. PolicyAllows(seen[p].policies)' = PolicyAllows(seen[p].policies)
    BY <1>2 DEF PolicyAllows
  <2> QED
    BY <1>2, <2>1, <2>2 DEF CliInv, CommandInv, GateInv
<1>6. \A q \in Procs \ {p} : CommandInv(q)'
  BY <1>1, <1>2, SameKeeps DEF CliInv
<1> QED
  BY <1>3, <1>4, <1>5, <1>6 DEF CliInv, CommandInv

LEMMA AroundHandleKeeps ==
    ASSUME CliInv, AccessInv, NEW p \in Procs,
           EnterRawMode(p) \/ HandleInterrupted(p) \/ Killed(p)
    PROVE  CliInv'
<1>0. /\ term \in [Procs -> {"cooked", "raw", "stuck"}] /\ DOMAIN exit = Procs /\ DOMAIN stage = Procs
      /\ stage \in [Procs -> BeforeStages \cup {"handle", "report", "done"}]
      /\ pc \in [Procs -> PcValues] /\ StageInv(p) /\ AuthnInv(p)
  BY DEF CliInv, CliShape, CommandInv, AccessInv, Shape, LocalShape
<1>1. CASE EnterRawMode(p)
  <2>1. /\ Handle(p) /\ stage' = [stage EXCEPT ![p] = "handle"] /\ stage[p] = "terminal"
        /\ term' = [term EXCEPT ![p] = "raw"] /\ UNCHANGED <<seen, picked, authn, storeVars, exit>>
    BY <1>1 DEF EnterRawMode, Handle
  <2>2. /\ pc'[p] = "identity" /\ stage'[p] = "handle" /\ exit[p] = "none"
        /\ term' \in [Procs -> {"cooked", "raw", "stuck"}] /\ term'[p] = "raw"
        /\ \A q \in Procs \ {p} : term'[q] = term[q]
    BY <1>0, <2>1 DEF Handle, Goto, StageInv, BeforeStages
  <2>3. StageInv(p)'
    BY <2>1, <2>2 DEF StageInv, BeforeStages, Handling
  <2>4. authn[p].at = "principal"
    BY <1>0, <2>1 DEF AuthnInv
  <2> QED
    BY <1>0, <2>1, <2>2, <2>3, <2>4, SilentKeeps DEF HandleNext
<1>2. CASE HandleInterrupted(p)
  <2>1. /\ Interrupt(p) /\ stage[p] = "handle"
        /\ UNCHANGED <<seen, picked, authn, storeVars, stage, term, exit>>
    BY <1>2 DEF HandleInterrupted, Interrupt, cliVars
  <2>2. pc'[p] \in Handling \cup Finished
    BY <2>1, HandleMoves
  <2>3. stage' = [stage EXCEPT ![p] = "handle"]
    BY <1>0, <2>1
  <2>4. StageInv(p)'
    BY <1>0, <2>1, <2>2 DEF StageInv, BeforeStages
  <2>5. authn[p].at = "principal"
    BY <1>0, <2>1 DEF AuthnInv
  <2> QED
    BY <1>0, <2>1, <2>3, <2>4, <2>5, SilentKeeps DEF HandleNext
<1>3. CASE Killed(p)
  <2>1. /\ Kill(p) /\ stage' = [stage EXCEPT ![p] = "done"] /\ exit' = [exit EXCEPT ![p] = "killed"]
        /\ UNCHANGED <<seen, picked, authn, storeVars, term>>
    BY <1>3 DEF Killed, Kill, Exit
  <2>2. pc'[p] = "killed" /\ stage'[p] = "done" /\ exit'[p] = "killed"
    BY <1>0, <2>1 DEF Kill, Goto
  <2>3. StageInv(p)'
    BY <2>1, <2>2 DEF StageInv, BeforeStages
  <2>4. DOMAIN exit' = Procs /\ \A q \in Procs \ {p} : exit'[q] = exit[q]
    BY <1>0, <2>1
  <2> QED
    BY <1>0, <2>1, <2>3, <2>4, SilentKeeps DEF HandleNext
<1> QED
  BY <1>1, <1>2, <1>3

\* What handle asks is answered from the tables as they are.
LEMMA AnsweredGates ==
    ASSUME CliInv, AccessInv, GrantInv, NEW p \in Procs, InHandle(p)
    PROVE  GateInv(p)'
<1>1. /\ stage[p] = "handle" /\ Step(p) /\ Answers(p) /\ UNCHANGED <<store, denied, authn>>
      /\ picked' = IF pc[p] = "account" THEN [picked EXCEPT ![p] = AccountAnswer(p)] ELSE picked
  BY DEF InHandle, storeVars
<1>2. /\ seen \in [Procs -> AnswerRecords] /\ pc \in [Procs -> PcValues]
      /\ DOMAIN picked = Procs /\ GateInv(p) /\ Asked(p) /\ AuthnInv(p)
  BY DEF AccessInv, Shape, LocalShape, CliInv, CliShape, CommandInv, GrantInv
<1>3. Closed' = Closed /\ denied'[p] \subseteq Closed
  BY <1>1, <1>2, ClosedKept DEF GateInv
<1>4. authn[p].at = "principal" /\ <<"user", Username>> \notin denied[p]
  BY <1>1, <1>2 DEF CliInv, CommandInv, AuthnInv
<1>5. CASE seen' = seen
  <2>1. PolicyAllows(seen[p].policies)' = PolicyAllows(seen[p].policies)
    BY <1>5 DEF PolicyAllows
  <2>2. pc[p] = "account" => seen[p].credential = "none"
    BY <1>2 DEF Asked
  <2> QED
    BY <1>1, <1>2, <1>3, <1>5, <2>1, <2>2 DEF GateInv
<1>6. CASE CheckIdentity(p)
  <2>1. PICK x : seen' = [seen EXCEPT ![p].identity = x]
    BY <1>6 DEF CheckIdentity
  <2>2. pc[p] = "identity"
    BY <1>6 DEF CheckIdentity
  <2>3. /\ seen'[p].policies = seen[p].policies
        /\ seen'[p].target = seen[p].target /\ seen'[p].account = seen[p].account
        /\ seen'[p].credential = seen[p].credential
    BY <1>2, <2>1 DEF AnswerRecords
  <2>4. PolicyAllows(seen[p].policies)' = PolicyAllows(seen[p].policies)
    BY <2>3 DEF PolicyAllows
  <2>5. picked' = picked
    BY <1>1, <2>2
  <2> QED
    BY <1>1, <1>2, <1>3, <1>4, <2>3, <2>4, <2>5 DEF GateInv
<1>7. CASE EvaluatePolicy(p)
  <2>1. PICK x \in PolicyLists :
           /\ seen' = [seen EXCEPT ![p].policies = x]
           /\ pc'[p] = IF evaluate(x).effect = "allow" THEN "target" ELSE "deny"
    BY <1>2, <1>7 DEF EvaluatePolicy, Goto
  <2>2. pc[p] = "policy" /\ pc'[p] # "raised"
    BY <1>7, <2>1 DEF EvaluatePolicy
  <2>3. /\ seen'[p].identity = seen[p].identity
        /\ seen'[p].target = seen[p].target /\ seen'[p].account = seen[p].account
        /\ seen'[p].credential = seen[p].credential
    BY <1>2, <2>1 DEF AnswerRecords
  <2> DEFINE user == authn[p].found.row.id
  <2>4. /\ find_matching(store.policies, user, Target) # Raises
        /\ seen'[p].policies = find_matching(store.policies, user, Target).row
    BY <1>1, <2>2 DEF Answers
  <2>5. PolicyAllows(seen[p].policies)' => <<"policy", user>> \notin Closed
    <3>1. PolicyAllows(seen[p].policies)'
             = PolicyAllows(find_matching(store.policies, user, Target).row)
      BY <2>4 DEF PolicyAllows
    <3> QED
      BY <2>4, <3>1, PolicyGate
  <2>6. picked' = picked
    BY <1>1, <2>2
  <2> QED
    BY <1>1, <1>2, <1>3, <2>3, <2>5, <2>6 DEF GateInv
<1>8. CASE GetTarget(p)
  <2>1. PICK x \in {"absent", "disabled", "enabled"} :
           /\ seen' = [seen EXCEPT ![p].target = x]
           /\ pc'[p] = IF x = "enabled" THEN "account" ELSE "deny"
    BY <1>2, <1>8 DEF GetTarget, Goto, Deny, Proceed
  <2>2. pc[p] = "target" /\ pc'[p] # "raised"
    BY <1>8, <2>1 DEF GetTarget
  <2>3. /\ seen'[p].identity = seen[p].identity /\ seen'[p].policies = seen[p].policies
        /\ seen'[p].account = seen[p].account
        /\ seen'[p].credential = seen[p].credential
    BY <1>2, <2>1 DEF AnswerRecords
  <2>4. /\ get(store.targets, Target) # Raises
        /\ seen'[p].target = Status(get(store.targets, Target))
    BY <1>1, <2>2 DEF Answers
  <2>5. seen'[p].target = "enabled" => <<"target", Target>> \notin Closed
    BY <2>4, TargetGate
  <2>6. PolicyAllows(seen[p].policies)' = PolicyAllows(seen[p].policies)
    BY <2>3 DEF PolicyAllows
  <2>7. picked' = picked
    BY <1>1, <2>2
  <2> QED
    BY <1>1, <1>2, <1>3, <2>3, <2>5, <2>6, <2>7 DEF GateInv
<1>9. CASE FindAccount(p)
  <2>1. PICK x \in {"absent", "disabled", "mismatch", "enabled"} :
           /\ seen' = [seen EXCEPT ![p].account = x]
           /\ pc'[p] = IF x = "enabled" THEN "vault" ELSE "deny"
    BY <1>2, <1>9 DEF FindAccount, Goto, Deny, Proceed
  <2>2. pc[p] = "account" /\ pc'[p] # "raised"
    BY <1>9, <2>1 DEF FindAccount
  <2>3. /\ seen'[p].identity = seen[p].identity /\ seen'[p].policies = seen[p].policies
        /\ seen'[p].target = seen[p].target
        /\ seen'[p].credential = seen[p].credential
    BY <1>2, <2>1 DEF AnswerRecords
  <2>4. AccountAnswer(p) # Raises /\ seen'[p].account = Status(AccountAnswer(p))
    BY <1>1, <2>2 DEF Answers
  <2>5. seen'[p].credential = "none"
    BY <1>2, <2>2, <2>3 DEF Asked
  <2>6. seen'[p].account = "enabled" => <<"account", Target>> \notin Closed
    BY <2>4, AccountGate
  <2>7. PolicyAllows(seen[p].policies)' = PolicyAllows(seen[p].policies)
    BY <2>3 DEF PolicyAllows
  <2> QED
    BY <1>1, <1>2, <1>3, <2>3, <2>5, <2>6, <2>7 DEF GateInv
<1>10. CASE ResolveCredential(p)
  <2>1. PICK x \in {"absent", "present"} :
           /\ seen' = [seen EXCEPT ![p].credential = x]
           /\ pc'[p] = IF x = "present" THEN "start" ELSE "deny"
    BY <1>2, <1>10 DEF ResolveCredential, Goto, Deny, Proceed
  <2>2. pc[p] = "vault" /\ pc'[p] # "raised"
    BY <1>10, <2>1 DEF ResolveCredential
  <2>3. /\ seen'[p].identity = seen[p].identity /\ seen'[p].policies = seen[p].policies
        /\ seen'[p].target = seen[p].target /\ seen'[p].account = seen[p].account
    BY <1>2, <2>1 DEF AnswerRecords
  <2>4. /\ resolve(store.vault, picked[p].row.credential, VaultKey) # Raises
        /\ seen'[p].credential = "present"
    BY <1>1, <2>2 DEF Answers
  <2>6. <<"credential", picked[p].row.credential>> \notin Closed
    BY <2>4, CredentialGate
  <2>7. PolicyAllows(seen[p].policies)' = PolicyAllows(seen[p].policies)
    BY <2>3 DEF PolicyAllows
  <2>8. picked' = picked
    BY <1>1, <2>2
  <2> QED
    BY <1>1, <1>2, <1>3, <2>3, <2>4, <2>6, <2>7, <2>8 DEF GateInv
<1> QED
  BY <1>1, <1>5, <1>6, <1>7, <1>8, <1>9, <1>10
     DEF Step, LookupRaises, StartSession, AppendEvent, AppendRaises, OpenBroker,
         OpenBrokerRaises, Relay, CloseBroker, FailSession, FinishSession

LEMMA InHandleKeeps ==
    ASSUME CliInv, AccessInv, GrantInv, NEW p \in Procs, InHandle(p)
    PROVE  CliInv'
<1>1. /\ stage[p] = "handle" /\ Step(p) /\ UNCHANGED <<store, denied, authn, stage, term, exit>>
      /\ picked' = IF pc[p] = "account" THEN [picked EXCEPT ![p] = AccountAnswer(p)] ELSE picked
  BY DEF InHandle, storeVars
<1>2. picked' \in [Procs -> AnswersOf("accounts")]
  <2>1. AccountAnswer(p) \in AnswersOf("accounts")
    <3>1. store.accounts \in Versions("accounts")
      BY DEF CliInv, CliShape, StoreTables
    <3> DEFINE matching == {x \in store.accounts : x.target = Target}
    <3>2. AccountAnswer(p) \in {Raises, FetchOne(matching)}
      BY DEF AccountAnswer, find_for_target
    <3>3. \A r \in matching : Found(r) \in AnswersOf("accounts")
      BY <3>1 DEF AnswersOf
    <3>4. Absent \in AnswersOf("accounts") /\ Raises \in AnswersOf("accounts")
      BY DEF AnswersOf
    <3> QED
      BY <3>2, <3>3, <3>4, FetchOneFacts
  <2> QED
    BY <1>1, <2>1 DEF CliInv, CliShape
<1>3. CliShape'
  BY <1>1, <1>2 DEF CliInv, CliShape
<1>4. StageInv(p)'
  <2>1. pc'[p] \in Handling \cup Finished
    BY <1>1, HandleMoves
  <2> QED
    BY <1>1, <2>1 DEF CliInv, CommandInv, StageInv, BeforeStages
<1>5. AuthnInv(p)'
  BY <1>1 DEF CliInv, CommandInv, AuthnInv
<1>6. GateInv(p)'
  BY AnsweredGates
<1>7. \A q \in Procs \ {p} : Same(q)
  <2>1. OthersUnchanged(p)
    BY <1>1, StepShape DEF AccessInv, HandleNext
  <2> QED
    BY <1>1, <2>1 DEF Same, OthersUnchanged, CliInv, CliShape
<1>8. \A q \in Procs \ {p} : CommandInv(q)'
  BY <1>1, <1>7, SameKeeps DEF CliInv
<1> QED
  BY <1>3, <1>4, <1>5, <1>6, <1>8 DEF CliInv, CommandInv

LEMMA CliInvStep == AccessInv /\ GrantInv /\ CliInv /\ [CliNext]_allVars => CliInv'
<1> SUFFICES ASSUME AccessInv, GrantInv, CliInv, [CliNext]_allVars PROVE CliInv'
  OBVIOUS
<1>1. CASE UNCHANGED allVars
  <2>1. /\ UNCHANGED <<stage, term, exit, picked, authn, store, denied, pc, seen, decision, session>>
        /\ \A q \in Procs : Same(q)
    BY <1>1 DEF allVars, vars, cliVars, storeVars, Same
  <2>2. CliShape'
    BY <2>1 DEF CliInv, CliShape
  <2>3. \A q \in Procs : CommandInv(q)'
    BY <2>1, SameKeeps DEF CliInv
  <2> QED
    BY <2>2, <2>3 DEF CliInv
<1>2. CASE \E t \in DOMAIN Contents : Edit(t)
  BY <1>2, EditKeeps, StoreAssumption
<1>3. ASSUME NEW p \in Procs, BeforeHandle(p) \/ CliStep(p) \/ Fault(p) PROVE CliInv'
  BY <1>3, BeforeHandleKeeps, AuthenticatingKeeps, AroundHandleKeeps, InHandleKeeps,
     AfterHandleKeeps DEF CliStep, Fault
<1> QED
  BY <1>1, <1>2, <1>3 DEF CliNext

LEMMA ServiceInvHolds == CliSpec => [](AccessInv /\ GrantInv)
BY CommandUsesService, AccessInvHolds, GrantInvHolds, PTL

(***************************************************************************)
(* What handle was shown to keep with free answers, the access command     *)
(* keeps with those of its tables, however they are edited meanwhile.      *)
(***************************************************************************)
THEOREM CommandKeepsPromises ==
    CliSpec => [](/\ GrantIsJustified /\ AuditPrecedesUse /\ TrailIsLegal
                  /\ ResultIsRecorded /\ NoStrandedSession /\ CleanupIsHonest)
BY CommandUsesService, GrantsAreJustified, AuditAlwaysFirst, TrailsAreLegal, ResultsAreRecorded,
   SessionsAlwaysEnd, CleanupAlwaysHonest, PTL

LEMMA CliInvHolds == CliSpec => []CliInv
BY InitCli, CliInvStep, ServiceInvHolds, PTL DEF CliSpec

-----------------------------------------------------------------------------
(***************************************************************************)
(* A revocation that was in place when the command began, and stayed, is   *)
(* never passed, whatever else is edited meanwhile: the broker is used     *)
(* only after five favourable answers, each given by a table in which the  *)
(* gate was open, and a gate once found open is off the list of those that *)
(* were closed throughout.                                                 *)
(***************************************************************************)
THEOREM StandingDenialsHold == CliSpec => []StandingDenialHolds
<1>1. GrantInv /\ CliInv => StandingDenialHolds
  <2> SUFFICES ASSUME GrantInv, CliInv, NEW p \in Procs, broker[p] # "none"
               PROVE  Used(p) \cap denied[p] = {}
    BY DEF StandingDenialHolds
  <2>1. /\ seen[p].credential = "present" /\ seen[p].identity = "match"
        /\ PolicyAllows(seen[p].policies) /\ seen[p].target = "enabled"
        /\ seen[p].account = "enabled"
    BY DEF GrantInv, Justified
  <2>2. /\ <<"user", Username>> \notin denied[p] /\ <<"target", Target>> \notin denied[p]
        /\ <<"policy", authn[p].found.row.id>> \notin denied[p]
        /\ <<"account", Target>> \notin denied[p]
        /\ <<"credential", picked[p].row.credential>> \notin denied[p]
    BY <2>1 DEF CliInv, CommandInv, GateInv
  <2> QED
    BY <2>2 DEF Used
<1> QED
  BY <1>1, CliInvHolds, ServiceInvHolds, PTL

(***************************************************************************)
(* Exactly one password hash is verified before authenticate answers,      *)
(* whatever the users table holds and whether SQLite fails.                *)
(***************************************************************************)
THEOREM VerificationsAreUniform == CliSpec => []VerificationIsUniform
<1>1. CliInv => VerificationIsUniform
  BY DEF CliInv, CommandInv, AuthnInv, VerificationIsUniform
<1> QED
  BY <1>1, CliInvHolds, PTL

(***************************************************************************)
(* A process that exits gave its terminal back, or tcsetattr failed, or it *)
(* was killed; and handle runs only in raw mode.                           *)
(***************************************************************************)
THEOREM TerminalsAreRestored == CliSpec => []TerminalIsRestored
<1>1. CliInv => TerminalIsRestored
  <2> SUFFICES ASSUME CliInv, NEW p \in Procs
               PROVE  /\ exit[p] \notin {"none", "killed"} => term[p] # "raw"
                      /\ pc[p] \in Handling => term[p] = "raw"
    BY DEF TerminalIsRestored
  <2>1. StageInv(p) /\ stage[p] \in BeforeStages \cup {"handle", "report", "done"}
    BY DEF CliInv, CliShape, CommandInv
  <2>2. "idle" \notin Handling /\ "killed" \notin Handling /\ Finished \cap Handling = {}
        /\ "returned" \notin Handling
    BY DEF Handling, Finished, AppendPcs
  <2> QED
    BY <2>1, <2>2 DEF StageInv
<1> QED
  BY <1>1, CliInvHolds, PTL

(***************************************************************************)
(* The code that main returns tells the truth about the log and the        *)
(* target.  It is the invariant of AccessService that turns a result of    *)
(* handle into facts about the log: a denial's event stands alone in its   *)
(* trail, without ACCESS_ALLOWED in the log there was no connection, and   *)
(* who is denied was given no credential.                                  *)
(***************************************************************************)
THEOREM ExitCodesAreHonest == CliSpec => []ExitCodeIsHonest
<1>1. AccessInv /\ GrantInv /\ CliInv => ExitCodeIsHonest
  <2> SUFFICES ASSUME AccessInv, GrantInv, CliInv, NEW p \in Procs
               PROVE  /\ exit[p] = "EXIT_SUCCESS" =>
                            /\ "SESSION_CLOSED" \in Logged(p)
                            /\ broker[p] = "closed"
                            /\ term[p] = "cooked"
                      /\ exit[p] = "EXIT_ACCESS_DENIED" =>
                            /\ Logged(p) = {"ACCESS_DENIED"}
                            /\ seen[p].credential = "none"
                            /\ broker[p] = "none"
                      /\ exit[p] \in {"EXIT_INTERNAL_FAILURE", "EXIT_AUTHENTICATION_FAILED"} =>
                            /\ Logged(p) = {}
                            /\ seen[p] = NothingSeen
                            /\ broker[p] = "none"
    BY DEF ExitCodeIsHonest
  <2>0. /\ StageInv(p) /\ EarlyPosition(p) /\ Asked(p) /\ Justified(p) /\ GateInv(p)
        /\ seen[p].credential \in {"none", "absent", "present"}
        /\ ResultIsRecorded /\ TrailIsLegal /\ CleanupIsHonest /\ AuditPrecedesUse
    BY DEF CliInv, CommandInv, AccessInv, GrantInv, Shape, LocalShape, AnswerRecords
  <2>1. ASSUME exit[p] = "EXIT_SUCCESS"
        PROVE  "SESSION_CLOSED" \in Logged(p) /\ broker[p] = "closed" /\ term[p] = "cooked"
    <3>1. /\ pc[p] = "returned" /\ term[p] = "cooked"
          /\ decision[p].effect = "allow" /\ session[p].status = "closed"
      BY <2>0, <2>1 DEF StageInv
    <3>2. PICK i \in DOMAIN log : log[i] = TerminalEvent(p)
      BY <2>0, <3>1 DEF ResultIsRecorded
    <3>3. TerminalEvent(p).proc = p /\ TerminalEvent(p).type = "SESSION_CLOSED"
      BY <3>1 DEF TerminalEvent, Event
    <3>4. "SESSION_CLOSED" \in Logged(p)
      BY <3>2, <3>3 DEF Logged
    <3> QED
      BY <2>0, <3>1, <3>4 DEF CleanupIsHonest
  <2>2. ASSUME exit[p] = "EXIT_ACCESS_DENIED"
        PROVE  /\ Logged(p) = {"ACCESS_DENIED"} /\ broker[p] = "none"
               /\ seen[p].credential = "none"
    <3>1. pc[p] = "returned" /\ decision[p].effect # "allow"
      BY <2>0, <2>2 DEF StageInv
    <3>2. "ACCESS_DENIED" \in Logged(p)
      BY <2>0, <3>1 DEF ResultIsRecorded
    <3>3. PICK i \in DOMAIN log : log[i].proc = p /\ log[i].type = "ACCESS_DENIED"
      BY <3>2 DEF Logged
    <3>4. DOMAIN log \subseteq Nat
      BY DEF AccessInv, Shape
    <3>5. ASSUME NEW j \in DOMAIN log, log[j].proc = p PROVE j = i
      <4>1. i < j \/ j < i \/ j = i
        BY <3>4
      <4> QED
        BY <2>0, <3>3, <3>5, <4>1 DEF TrailIsLegal
    <3>6. Logged(p) = {"ACCESS_DENIED"}
      BY <3>2, <3>3, <3>5 DEF Logged
    <3>7. seen[p].credential = "none"
      BY <2>0, <3>1 DEF Justified, GateInv
    <3> QED
      BY <2>0, <3>6, <3>7 DEF AuditPrecedesUse
  <2>3. ASSUME exit[p] \in {"EXIT_INTERNAL_FAILURE", "EXIT_AUTHENTICATION_FAILED"}
        PROVE  Logged(p) = {} /\ seen[p] = NothingSeen /\ broker[p] = "none"
    <3>1. pc[p] = "idle"
      BY <2>0, <2>3 DEF StageInv
    <3> QED
      BY <2>0, <3>1 DEF EarlyPosition, BeforeSession, Asked
  <2> QED
    BY <2>1, <2>2, <2>3
<1> QED
  BY <1>1, CliInvHolds, ServiceInvHolds, PTL

=============================================================================
