-------------------------- MODULE NegativeLabProofs --------------------------
(***************************************************************************)
(* prepare_negative_lab keeps its promises for any number of preparers and *)
(* destinations, however they race, fail or are killed, and whatever the   *)
(* access commands add to the baseline's audit.db meanwhile.               *)
(***************************************************************************)
EXTENDS NegativeLab, FiniteSetTheorems, SequenceTheorems, TLAPS

Working == {"copy", "change", "prepared"}
Labels == {"paths", "source", "create", "failed"} \cup Working

Elements(s) == {s[i] : i \in DOMAIN s}
Todo(p) == Elements(names[p])
Copied(p) == {f \in Files : dest[Dir(p)][f] # NoFile}
Needed(p) ==
    IF want[p].scenario = "tampered-audit" THEN {"audit.key", "audit.db"}
    ELSE {Required[i] : i \in DOMAIN Required}

LabShape ==
    /\ pc \in [Preparers -> Labels]
    /\ want \in [Preparers -> [scenario : Scenarios, dir : Destinations]]
    /\ names \in [Preparers -> Seq(Files)]
    /\ DOMAIN base = Files
    /\ base["config.db"] \in Configs \cup {NoFile}
    /\ base["audit.db"] \in Seq(Events) \cup {NoFile}
    /\ base["audit.db"] # NoFile => Verifies(base["audit.db"])
    /\ made \subseteq Destinations
    /\ DOMAIN dest = Destinations /\ \A d \in Destinations : DOMAIN dest[d] = Files
    /\ DOMAIN maker = Destinations /\ \A d \in Destinations : DOMAIN maker[d] = Files

\* mkdir gives a directory to one preparer, and gives it empty.
RaceInv ==
    /\ \A d \in Destinations \ made : \A f \in Files : dest[d][f] = NoFile
    /\ \A p \in Preparers : pc[p] \in Working => Dir(p) \in made
    /\ \A p, q \in Preparers :
          pc[p] \in Working /\ pc[q] \in Working /\ Dir(p) = Dir(q) => p = q

\* What is copied and what is still to be copied make up the scenario.
Progress(p) ==
    /\ pc[p] \in {"create", "copy"} =>
          names[p] # << >> /\ \A f \in Todo(p) : base[f] # NoFile
    /\ pc[p] \in {"change", "prepared"} => names[p] = << >>
    /\ pc[p] = "create" => Needed(p) \subseteq Todo(p) /\ Todo(p) \subseteq Needed(p) \cup {"audit.db"}
    /\ pc[p] \in Working =>
          /\ Needed(p) \subseteq Copied(p) \cup Todo(p)
          /\ Copied(p) \cup Todo(p) \subseteq Needed(p) \cup {"audit.db"}

\* The copied configuration, and the one change made to it.
ConfigCopied(p) ==
    LET config == dest[Dir(p)]["config.db"] IN
    /\ base["config.db"] \in Configs
    /\ IF pc[p] = "prepared"
         THEN /\ Selected(want[p].scenario, base["config.db"]) # {}
              /\ config = Updated(want[p].scenario, base["config.db"])
         ELSE config = base["config.db"]

\* The copied audit log is the baseline's as it was at some moment, and the
\* one change made to it.
AuditCopied(p) ==
    LET events == dest[Dir(p)]["audit.db"] IN
    /\ base["audit.db"] \in Seq(Events) /\ events \in Seq(Events)
    /\ Len(events) <= Len(base["audit.db"])
    /\ \A i \in DOMAIN events : events[i].signed = base["audit.db"][i].signed
    /\ IF pc[p] = "prepared" /\ want[p].scenario = "tampered-audit"
         THEN events # << >> /\ events[1].target = "tampered" /\ events[1].signed # "tampered"
         ELSE Verifies(events)

Faithful(p) ==
    pc[p] \in Working =>
        /\ \A f \in Copied(p) : maker[Dir(p)][f] = p
        /\ \A f \in Copied(p) \ {"config.db", "audit.db"} : dest[Dir(p)][f] = base[f]
        /\ "config.db" \in Copied(p) => ConfigCopied(p)
        /\ "audit.db" \in Copied(p) => AuditCopied(p)

LabInv == LabShape /\ RaceInv /\ \A p \in Preparers : Progress(p) /\ Faithful(p)

-----------------------------------------------------------------------------
LEMMA NeededFiles ==
    ASSUME NEW p
    PROVE  Needed(p) = IF want[p].scenario = "tampered-audit" THEN {"audit.key", "audit.db"}
                       ELSE {"vault.key", "audit.key", "auth.db", "config.db", "vault.db"}
<1>1. DOMAIN Required = 1..5
  BY DEF Required
<1>2. /\ Required[1] = "vault.key" /\ Required[2] = "audit.key" /\ Required[3] = "auth.db"
      /\ Required[4] = "config.db" /\ Required[5] = "vault.db"
  BY DEF Required
<1>3. \A n \in 1..5 : n = 1 \/ n = 2 \/ n = 3 \/ n = 4 \/ n = 5
  OBVIOUS
<1>4. {Required[i] : i \in DOMAIN Required}
         = {"vault.key", "audit.key", "auth.db", "config.db", "vault.db"}
  BY <1>1, <1>2, <1>3
<1> QED
  BY <1>4 DEF Needed

\* The first name and the others.
LEMMA HeadAndTail ==
    ASSUME NEW s \in Seq(Files), s # << >>
    PROVE  /\ Head(s) \in Files /\ Tail(s) \in Seq(Files)
           /\ Elements(s) = {Head(s)} \cup Elements(Tail(s))
           /\ Elements(<< >>) = {}
<1>1. Head(s) \in Files /\ Tail(s) \in Seq(Files) /\ Len(s) \in Nat /\ Len(s) # 0
  OBVIOUS
<1>2. DOMAIN s = 1..Len(s) /\ DOMAIN Tail(s) = 1..(Len(s) - 1)
  BY <1>1
<1>3. \A i \in 1..(Len(s) - 1) : Tail(s)[i] = s[i + 1] /\ i + 1 \in 1..Len(s)
  BY <1>1
<1>4. \A i \in 1..Len(s) : i = 1 \/ (i - 1 \in 1..(Len(s) - 1) /\ s[i] = Tail(s)[i - 1])
  BY <1>1, <1>3
<1>5. Head(s) = s[1] /\ 1 \in 1..Len(s)
  BY <1>1
<1>6. Elements(s) \subseteq {Head(s)} \cup Elements(Tail(s))
  BY <1>2, <1>4, <1>5 DEF Elements
<1>7. {Head(s)} \cup Elements(Tail(s)) \subseteq Elements(s)
  BY <1>2, <1>3, <1>5 DEF Elements
<1>8. Elements(<< >>) = {}
  BY DEF Elements
<1> QED
  BY <1>1, <1>6, <1>7, <1>8

LEMMA InitLab == Init => LabInv
<1> SUFFICES ASSUME Init PROVE LabInv
  OBVIOUS
<1>1. \A p \in Preparers : pc[p] = "paths"
  BY DEF Init
<1>2. LabShape
  <2>1. base \in Baselines
    BY DEF Init
  <2>2. names \in [Preparers -> Seq(Files)]
    BY DEF Init
  <2> QED
    BY <2>1, <2>2, BaselinesAssumption DEF Init, LabShape, Labels
<1>3. RaceInv
  BY <1>1 DEF Init, RaceInv, Working
<1>4. \A p \in Preparers : Progress(p) /\ Faithful(p)
  BY <1>1 DEF Progress, Faithful, Working
<1> QED
  BY <1>2, <1>3, <1>4 DEF LabInv

\* A preparer whose position, names and directory do not change.
LEMMA Undisturbed ==
    ASSUME NEW q \in Preparers, Progress(q), Faithful(q), UNCHANGED <<want, base>>,
           pc'[q] = pc[q], names'[q] = names[q],
           pc[q] \in Working => dest'[Dir(q)] = dest[Dir(q)] /\ maker'[Dir(q)] = maker[Dir(q)]
    PROVE  Progress(q)' /\ Faithful(q)'
<1>1. Dir(q)' = Dir(q) /\ Needed(q)' = Needed(q) /\ Todo(q)' = Todo(q)
  BY DEF Dir, Needed, Todo
<1>2. CASE pc[q] \in Working
  <2>1. Copied(q)' = Copied(q)
    BY <1>1, <1>2 DEF Copied
  <2>2. Progress(q)'
    BY <1>1, <2>1 DEF Progress
  <2>3. /\ ConfigCopied(q)' = ConfigCopied(q)
        /\ AuditCopied(q)' = AuditCopied(q)
    BY <1>1, <1>2 DEF ConfigCopied, AuditCopied
  <2> QED
    BY <1>1, <1>2, <2>1, <2>2, <2>3 DEF Faithful
<1>3. CASE pc[q] \notin Working
  BY <1>1, <1>3 DEF Progress, Faithful
<1> QED
  BY <1>2, <1>3

\* The files a scenario is copied from are those it needs, and perhaps audit.db.
LEMMA SourceFacts ==
    ASSUME NEW p
    PROVE  /\ SourceFiles(p) \in Seq(Files) /\ SourceFiles(p) # << >>
           /\ Needed(p) \subseteq Elements(SourceFiles(p))
           /\ Elements(SourceFiles(p)) \subseteq Needed(p) \cup {"audit.db"}
<1> DEFINE tampered == <<"audit.key", "audit.db">>
           whole == Required \o <<"audit.db">>
<1>1. /\ Required \in Seq(Files) /\ tampered \in Seq(Files) /\ <<"audit.db">> \in Seq(Files)
      /\ Len(Required) = 5 /\ Len(<<"audit.db">>) = 1
  BY DEF Required, Files
<1>2. /\ whole \in Seq(Files) /\ Len(whole) = 6 /\ DOMAIN whole = 1..6
      /\ \A i \in 1..5 : whole[i] = Required[i]
      /\ whole[6] = "audit.db"
  <2> DEFINE last == <<"audit.db">>
  <2>1. last \in Seq(Files) /\ Len(last) = 1 /\ last[1] = "audit.db"
    BY <1>1
  <2> HIDE DEF last
  <2>2. /\ Required \o last \in Seq(Files) /\ Len(Required \o last) = Len(Required) + Len(last)
        /\ \A i \in 1..(Len(Required) + Len(last)) :
              (Required \o last)[i] =
                 IF i <= Len(Required) THEN Required[i] ELSE last[i - Len(Required)]
    BY <1>1, <2>1, ConcatProperties
  <2>3. /\ Required \o last \in Seq(Files) /\ Len(Required \o last) = 6
        /\ \A i \in 1..5 : (Required \o last)[i] = Required[i]
        /\ (Required \o last)[6] = last[1]
    BY <1>1, <2>1, <2>2
  <2> QED
    BY <2>1, <2>3 DEF last
<1>3. Elements(tampered) = {"audit.key", "audit.db"}
  <2>1. DOMAIN tampered = 1..2 /\ tampered[1] = "audit.key" /\ tampered[2] = "audit.db"
    OBVIOUS
  <2>2. \A n \in 1..2 : n = 1 \/ n = 2
    OBVIOUS
  <2> QED
    BY <2>1, <2>2 DEF Elements
<1>4. DOMAIN Required = 1..5
  BY DEF Required
<1>5. \A n \in 1..6 : n \in 1..5 \/ n = 6
  OBVIOUS
<1>6. Elements(whole) = Elements(Required) \cup {"audit.db"}
  BY <1>2, <1>4, <1>5 DEF Elements
<1>7. Required # << >> /\ whole # << >> /\ tampered # << >>
  BY <1>1, <1>2
<1> HIDE DEF tampered, whole
<1>8. /\ want[p].scenario = "tampered-audit" => SourceFiles(p) = tampered
      /\ want[p].scenario # "tampered-audit" => SourceFiles(p) \in {Required, whole}
  BY DEF SourceFiles, tampered, whole
<1>9. Needed(p) = IF want[p].scenario = "tampered-audit" THEN {"audit.key", "audit.db"}
                  ELSE Elements(Required)
  BY DEF Needed, Elements
<1> QED
  BY <1>1, <1>2, <1>3, <1>6, <1>7, <1>8, <1>9

-----------------------------------------------------------------------------
(***************************************************************************)
(* Steps.                                                                  *)
(***************************************************************************)
LEMMA MoveKeeps ==
    ASSUME LabInv, NEW p \in Preparers, NEW x \in {"failed", "source"},
           pc' = [pc EXCEPT ![p] = x], UNCHANGED <<want, names, base, made, dest, maker>>
    PROVE  LabInv'
<1>1. pc'[p] = x /\ \A q \in Preparers \ {p} : pc'[q] = pc[q]
  BY DEF LabInv, LabShape
<1>2. LabShape'
  BY DEF LabInv, LabShape, Labels
<1>3. \A q : Dir(q)' = Dir(q)
  BY DEF Dir
<1>4. RaceInv'
  BY <1>1, <1>3 DEF LabInv, RaceInv, Working
<1>5. \A q \in Preparers \ {p} : Progress(q)' /\ Faithful(q)'
  BY <1>1, Undisturbed DEF LabInv
<1>6. Progress(p)' /\ Faithful(p)'
  BY <1>1 DEF Progress, Faithful, Working
<1> QED
  BY <1>2, <1>4, <1>5, <1>6 DEF LabInv

LEMMA ValidateSourceKeeps ==
    ASSUME LabInv, NEW p \in Preparers, ValidateSource(p)
    PROVE  LabInv'
<1>1. /\ pc' = [pc EXCEPT ![p] = "create"] /\ names' = [names EXCEPT ![p] = SourceFiles(p)]
      /\ UNCHANGED <<want, base, made, dest, maker>>
      /\ \A i \in DOMAIN SourceFiles(p) : base[SourceFiles(p)[i]] # NoFile
  BY DEF ValidateSource, Goto
<1>2. /\ pc'[p] = "create" /\ names'[p] = SourceFiles(p)
      /\ \A q \in Preparers \ {p} : pc'[q] = pc[q] /\ names'[q] = names[q]
  BY <1>1 DEF LabInv, LabShape
<1>3. LabShape'
  BY <1>1, SourceFacts DEF LabInv, LabShape, Labels
<1>4. \A q : Dir(q)' = Dir(q)
  BY <1>1 DEF Dir
<1>5. RaceInv'
  BY <1>1, <1>2, <1>4 DEF LabInv, RaceInv, Working
<1>6. \A q \in Preparers \ {p} : Progress(q)' /\ Faithful(q)'
  BY <1>1, <1>2, Undisturbed DEF LabInv
<1>7. Progress(p)'
  <2>1. Todo(p)' = Elements(SourceFiles(p)) /\ Needed(p)' = Needed(p)
    BY <1>1, <1>2 DEF Todo, Needed
  <2>2. \A f \in Elements(SourceFiles(p)) : base[f] # NoFile
    BY <1>1 DEF Elements
  <2> QED
    BY <1>1, <1>2, <2>1, <2>2, SourceFacts DEF Progress, Working
<1>8. Faithful(p)'
  BY <1>2 DEF Faithful, Working
<1> QED
  BY <1>3, <1>5, <1>6, <1>7, <1>8 DEF LabInv

LEMMA CreateKeeps ==
    ASSUME LabInv, NEW p \in Preparers, CreateDestination(p)
    PROVE  LabInv'
<1>1. /\ pc' = [pc EXCEPT ![p] = "copy"] /\ made' = made \cup {Dir(p)} /\ Dir(p) \notin made
      /\ UNCHANGED <<want, names, base, dest, maker>> /\ pc[p] = "create"
  BY DEF CreateDestination, Goto
<1>2. pc'[p] = "copy" /\ \A q \in Preparers \ {p} : pc'[q] = pc[q]
  BY <1>1 DEF LabInv, LabShape
<1>3. Dir(p) \in Destinations /\ \A q : Dir(q)' = Dir(q)
  BY <1>1 DEF Dir, LabInv, LabShape
<1>4. LabShape'
  BY <1>1, <1>3 DEF LabInv, LabShape, Labels, Working
<1>5. RaceInv'
  <2>1. \A q \in Preparers \ {p} : pc[q] \in Working => Dir(q) # Dir(p)
    BY <1>1 DEF LabInv, RaceInv
  <2> QED
    BY <1>1, <1>2, <1>3, <2>1 DEF LabInv, RaceInv
<1>6. \A q \in Preparers \ {p} : Progress(q)' /\ Faithful(q)'
  BY <1>1, <1>2, Undisturbed DEF LabInv
<1>7. Copied(p)' = {} /\ Todo(p)' = Todo(p) /\ Needed(p)' = Needed(p)
  BY <1>1, <1>3 DEF LabInv, RaceInv, Copied, Todo, Needed
<1>8. Progress(p)'
  BY <1>1, <1>2, <1>7 DEF LabInv, Progress, Working
<1>9. Faithful(p)'
  BY <1>7 DEF Faithful
<1> QED
  BY <1>4, <1>5, <1>6, <1>8, <1>9 DEF LabInv

\* A copy broken off leaves a file, and a preparer that has failed.
LEMMA TornKeeps ==
    ASSUME LabInv, NEW p \in Preparers, pc[p] = "copy", NEW f \in Files,
           maker' = [maker EXCEPT ![Dir(p)][f] = p], dest' = [dest EXCEPT ![Dir(p)][f] = Torn],
           pc' = [pc EXCEPT ![p] = "failed"], UNCHANGED <<names, want, base, made>>
    PROVE  LabInv'
<1>1. pc'[p] = "failed" /\ \A q \in Preparers \ {p} : pc'[q] = pc[q]
  BY DEF LabInv, LabShape
<1>2. Dir(p) \in Destinations /\ \A q : Dir(q)' = Dir(q)
  BY DEF Dir, LabInv, LabShape
<1>3. \A d \in Destinations \ {Dir(p)} : dest'[d] = dest[d] /\ maker'[d] = maker[d]
  BY DEF LabInv, LabShape
<1>4. LabShape'
  <2>1. /\ DOMAIN dest' = Destinations /\ \A d \in Destinations : DOMAIN dest'[d] = Files
        /\ DOMAIN maker' = Destinations /\ \A d \in Destinations : DOMAIN maker'[d] = Files
    BY <1>2 DEF LabInv, LabShape
  <2> QED
    BY <2>1 DEF LabInv, LabShape, Labels
<1>5. Dir(p) \in made
  BY DEF LabInv, RaceInv, Working
<1>6. RaceInv'
  BY <1>1, <1>2, <1>3, <1>5 DEF LabInv, RaceInv, Working
<1>7. \A q \in Preparers \ {p} : pc[q] \in Working => Dir(q) # Dir(p) /\ Dir(q) \in Destinations
  BY DEF LabInv, RaceInv, Working, LabShape
<1>8. \A q \in Preparers \ {p} : Progress(q)' /\ Faithful(q)'
  BY <1>1, <1>3, <1>7, Undisturbed DEF LabInv
<1>9. Progress(p)' /\ Faithful(p)'
  BY <1>1 DEF Progress, Faithful, Working
<1> QED
  BY <1>4, <1>6, <1>8, <1>9 DEF LabInv

\* A finished copy: the file is in the directory, and no longer to be copied.
LEMMA CopiedKeeps ==
    ASSUME LabInv, NEW p \in Preparers, pc[p] = "copy", NEW f, f = Head(names[p]),
           dest[Dir(p)][f] = NoFile, NEW x, x = IF Tail(names[p]) = << >> THEN "change" ELSE "copy",
           maker' = [maker EXCEPT ![Dir(p)][f] = p], dest' = [dest EXCEPT ![Dir(p)][f] = base[f]],
           names' = [names EXCEPT ![p] = Tail(@)],
           pc' = [pc EXCEPT ![p] = x], UNCHANGED <<want, base, made>>
    PROVE  LabInv'
<1>1. /\ names[p] \in Seq(Files) /\ names[p] # << >>
      /\ \A g \in Todo(p) : base[g] # NoFile
  BY DEF LabInv, LabShape, Progress
<1>2. /\ f \in Files /\ Tail(names[p]) \in Seq(Files)
      /\ Todo(p) = {f} \cup Elements(Tail(names[p])) /\ Elements(<< >>) = {}
  BY <1>1, HeadAndTail DEF Todo
<1>3. /\ pc'[p] = x /\ x \in {"change", "copy"} /\ names'[p] = Tail(names[p])
      /\ \A q \in Preparers \ {p} : pc'[q] = pc[q] /\ names'[q] = names[q]
  BY DEF LabInv, LabShape
<1>4. Dir(p) \in Destinations /\ Dir(p) \in made /\ \A q : Dir(q)' = Dir(q)
  BY DEF Dir, LabInv, LabShape, RaceInv, Working
<1>5. \A d \in Destinations \ {Dir(p)} : dest'[d] = dest[d] /\ maker'[d] = maker[d]
  BY DEF LabInv, LabShape
<1>6. /\ dest'[Dir(p)][f] = base[f] /\ maker'[Dir(p)][f] = p
      /\ \A g \in Files \ {f} : /\ dest'[Dir(p)][g] = dest[Dir(p)][g]
                               /\ maker'[Dir(p)][g] = maker[Dir(p)][g]
  BY <1>2, <1>4 DEF LabInv, LabShape
<1>7. LabShape'
  <2>1. /\ DOMAIN dest' = Destinations /\ \A d \in Destinations : DOMAIN dest'[d] = Files
        /\ DOMAIN maker' = Destinations /\ \A d \in Destinations : DOMAIN maker'[d] = Files
    BY <1>4 DEF LabInv, LabShape
  <2>2. names' \in [Preparers -> Seq(Files)] /\ pc' \in [Preparers -> Labels]
    BY <1>2, <1>3 DEF LabInv, LabShape, Labels, Working
  <2> QED
    BY <2>1, <2>2 DEF LabInv, LabShape
<1>8. RaceInv'
  BY <1>3, <1>4, <1>5 DEF LabInv, RaceInv, Working
<1>9. \A q \in Preparers \ {p} : pc[q] \in Working => Dir(q) # Dir(p) /\ Dir(q) \in Destinations
  BY DEF LabInv, RaceInv, Working, LabShape
<1>10. \A q \in Preparers \ {p} : Progress(q)' /\ Faithful(q)'
  BY <1>3, <1>5, <1>9, Undisturbed DEF LabInv
<1>11. /\ Copied(p)' = Copied(p) \cup {f} /\ f \notin Copied(p)
       /\ Todo(p)' = Elements(Tail(names[p])) /\ Needed(p)' = Needed(p)
  BY <1>1, <1>2, <1>3, <1>4, <1>6 DEF Copied, Todo, Needed
<1>12. Progress(p)'
  <2>1. /\ Needed(p) \subseteq Copied(p) \cup Todo(p)
        /\ Copied(p) \cup Todo(p) \subseteq Needed(p) \cup {"audit.db"}
    BY DEF LabInv, Progress, Working
  <2>2. Copied(p)' \cup Todo(p)' = Copied(p) \cup Todo(p)
    BY <1>2, <1>11
  <2>3. x = "copy" <=> names'[p] # << >>
    BY <1>3
  <2>4. \A g \in Todo(p)' : base'[g] # NoFile
    BY <1>1, <1>2, <1>11
  <2> QED
    BY <1>3, <1>11, <2>1, <2>2, <2>3, <2>4 DEF Progress, Working
<1>13. Faithful(p)'
  <2>1. Faithful(p) /\ pc[p] \in Working
    BY DEF LabInv, Working
  <2>2. \A g \in Copied(p)' : maker'[Dir(p)'][g] = p
    BY <1>4, <1>6, <1>11, <2>1 DEF Faithful, Copied
  <2>3. \A g \in Copied(p)' \ {"config.db", "audit.db"} : dest'[Dir(p)'][g] = base'[g]
    BY <1>4, <1>6, <1>11, <2>1 DEF Faithful, Copied
  <2>4. base[f] # NoFile
    BY <1>1, <1>2
  <2>5. "config.db" \in Copied(p)' => ConfigCopied(p)'
    <3>1. CASE f = "config.db"
      BY <1>3, <1>4, <1>6, <2>4, <3>1 DEF ConfigCopied, LabInv, LabShape
    <3>2. CASE f # "config.db" /\ "config.db" \in Copied(p)
      <4>1. dest'[Dir(p)]["config.db"] = dest[Dir(p)]["config.db"]
        BY <1>6, <3>2 DEF Copied
      <4> QED
        BY <1>3, <1>4, <2>1, <3>2, <4>1 DEF ConfigCopied, Faithful
    <3> QED
      BY <1>11, <3>1, <3>2
  <2>6. "audit.db" \in Copied(p)' => AuditCopied(p)'
    <3>1. CASE f = "audit.db"
      <4>1. base["audit.db"] \in Seq(Events) /\ Verifies(base["audit.db"])
        BY <2>4, <3>1 DEF LabInv, LabShape
      <4>2. dest'[Dir(p)']["audit.db"] = base["audit.db"] /\ base' = base
        BY <1>4, <1>6, <3>1
      <4>3. Len(base["audit.db"]) <= Len(base["audit.db"])
        BY <4>1
      <4> QED
        BY <1>3, <4>1, <4>2, <4>3 DEF AuditCopied
    <3>2. CASE f # "audit.db" /\ "audit.db" \in Copied(p)
      <4>1. dest'[Dir(p)]["audit.db"] = dest[Dir(p)]["audit.db"]
        BY <1>6, <3>2 DEF Copied
      <4>2. AuditCopied(p)
        BY <2>1, <3>2 DEF Faithful
      <4>3. pc[p] # "prepared" /\ pc'[p] # "prepared"
        BY <1>3
      <4> QED
        BY <1>4, <4>1, <4>2, <4>3 DEF AuditCopied
    <3> QED
      BY <1>11, <3>1, <3>2
  <2> QED
    BY <2>2, <2>3, <2>5, <2>6 DEF Faithful
<1> QED
  BY <1>7, <1>8, <1>10, <1>12, <1>13 DEF LabInv

LEMMA CopyKeeps ==
    ASSUME LabInv, NEW p \in Preparers, Copy(p)
    PROVE  LabInv'
<1> DEFINE f == Head(names[p])
<1>1. pc[p] = "copy" /\ dest[Dir(p)][f] = NoFile /\ UNCHANGED <<want, base, made>>
  BY DEF Copy
<1>2. f \in Files
  BY <1>1, HeadAndTail DEF LabInv, LabShape, Progress
<1>3. maker' = [maker EXCEPT ![Dir(p)][f] = p]
  BY DEF Copy
<1>4. CASE /\ dest' = [dest EXCEPT ![Dir(p)][f] = base[f]]
           /\ names' = [names EXCEPT ![p] = Tail(@)]
           /\ Goto(p, IF names'[p] = << >> THEN "change" ELSE "copy")
  <2>1. names'[p] = Tail(names[p])
    BY <1>4 DEF LabInv, LabShape
  <2>2. pc' = [pc EXCEPT ![p] = IF Tail(names[p]) = << >> THEN "change" ELSE "copy"]
    BY <1>4, <2>1 DEF Goto
  <2> HIDE DEF f
  <2> QED
    BY <1>1, <1>3, <1>4, <2>2, CopiedKeeps DEF f
<1>5. CASE /\ dest' = [dest EXCEPT ![Dir(p)][f] = Torn]
           /\ Goto(p, "failed")
           /\ UNCHANGED names
  BY <1>1, <1>2, <1>3, <1>5, TornKeeps DEF Goto
<1> QED
  BY <1>4, <1>5 DEF Copy

-----------------------------------------------------------------------------
(***************************************************************************)
(* The one change.                                                         *)
(***************************************************************************)
\* What an UPDATE makes of a configuration is one that is there.
LEMMA UpdatedIsThere ==
    ASSUME NEW c \in Configs, NEW s \in Scenarios, s # "tampered-audit"
    PROVE  Updated(s, c) # NoFile
<1>1. NoFile \notin Configs
  BY BaselinesAssumption
<1>2. /\ c.policies \subseteq PolicyRows /\ c.targets \subseteq TargetRows
      /\ c.accounts \subseteq AccountRows
      /\ c \in [policies : SUBSET PolicyRows, targets : SUBSET TargetRows, accounts : SUBSET AccountRows]
      /\ \A x, y \in c.policies : x = y /\ x.id \in DOMAIN PolicyRank
      /\ \A x, y \in c.targets : x = y
      /\ \A x, y \in c.accounts : x = y
  BY DEF Configs
<1> DEFINE old == Selected(s, c)
<1>3. CASE s = "deny"
  <2> DEFINE new == (c.policies \ old) \cup {[r EXCEPT !.effect = "deny"] : r \in old}
  <2>1. old = {r \in c.policies : r.id = "policy-001" /\ r.effect = "allow"}
    BY <1>3 DEF Selected
  <2>2. new \subseteq PolicyRows /\ \A x, y \in new : x = y /\ x.id \in DOMAIN PolicyRank
    BY <1>2, <2>1 DEF PolicyRows, Effects
  <2>3. Updated(s, c) = [c EXCEPT !.policies = new]
    BY <1>3 DEF Updated
  <2> HIDE DEF new
  <2>4. [c EXCEPT !.policies = new] \in Configs
    BY <1>2, <2>2 DEF Configs
  <2> QED
    BY <1>1, <2>3, <2>4
<1>4. CASE s = "disabled-target" \/ s = "bad-host-key"
  <2> DEFINE new == IF s = "disabled-target"
                      THEN (c.targets \ old) \cup {[r EXCEPT !.enabled = FALSE] : r \in old}
                      ELSE (c.targets \ old) \cup {[r EXCEPT !.pin = "wrong"] : r \in old}
  <2>1. old \subseteq c.targets
    BY <1>4 DEF Selected
  <2>2. \A r \in TargetRows : /\ [r EXCEPT !.enabled = FALSE] \in TargetRows
                               /\ [r EXCEPT !.pin = "wrong"] \in TargetRows
    BY StringAssumption DEF TargetRows
  <2>3. new \subseteq TargetRows /\ \A x, y \in new : x = y
    BY <1>2, <2>1, <2>2
  <2>4. Updated(s, c) = [c EXCEPT !.targets = new]
    BY <1>4 DEF Updated
  <2> HIDE DEF new
  <2>5. [c EXCEPT !.targets = new] \in Configs
    BY <1>2, <2>3 DEF Configs
  <2> QED
    BY <1>1, <2>4, <2>5
<1>5. CASE s = "disabled-account"
  <2> DEFINE new == (c.accounts \ old) \cup {[r EXCEPT !.enabled = FALSE] : r \in old}
  <2>1. old \subseteq c.accounts
    BY <1>5 DEF Selected
  <2>2. \A r \in AccountRows : [r EXCEPT !.enabled = FALSE] \in AccountRows
    BY DEF AccountRows
  <2>3. new \subseteq AccountRows /\ \A x, y \in new : x = y
    BY <1>2, <2>1, <2>2
  <2>4. Updated(s, c) = [c EXCEPT !.accounts = new]
    BY <1>5 DEF Updated
  <2> HIDE DEF new
  <2>5. [c EXCEPT !.accounts = new] \in Configs
    BY <1>2, <2>3 DEF Configs
  <2> QED
    BY <1>1, <2>4, <2>5
<1> QED
  BY <1>3, <1>4, <1>5 DEF Scenarios

\* A change of one file of a directory that the preparer has to itself.
LEMMA ChangedKeeps ==
    ASSUME LabInv, NEW p \in Preparers, pc[p] = "change", NEW f \in Copied(p), NEW c, c # NoFile,
           f \in {"config.db", "audit.db"}, dest' = [dest EXCEPT ![Dir(p)][f] = c],
           pc' = [pc EXCEPT ![p] = "prepared"], UNCHANGED <<want, names, base, made, maker>>,
           "config.db" \in Copied(p) => ConfigCopied(p)', "audit.db" \in Copied(p) => AuditCopied(p)'
    PROVE  LabInv'
<1>1. pc'[p] = "prepared" /\ \A q \in Preparers \ {p} : pc'[q] = pc[q]
  BY DEF LabInv, LabShape
<1>2. Dir(p) \in Destinations /\ Dir(p) \in made /\ f \in Files /\ \A q : Dir(q)' = Dir(q)
  BY DEF Dir, LabInv, LabShape, RaceInv, Working, Copied
<1>3. \A d \in Destinations \ {Dir(p)} : dest'[d] = dest[d] /\ maker'[d] = maker[d]
  BY DEF LabInv, LabShape
<1>4. dest'[Dir(p)][f] = c /\ \A g \in Files \ {f} : dest'[Dir(p)][g] = dest[Dir(p)][g]
  BY <1>2 DEF LabInv, LabShape
<1>5. LabShape'
  <2>1. DOMAIN dest' = Destinations /\ \A d \in Destinations : DOMAIN dest'[d] = Files
    BY <1>2 DEF LabInv, LabShape
  <2>2. pc' \in [Preparers -> Labels]
    BY DEF LabInv, LabShape, Labels, Working
  <2> QED
    BY <2>1, <2>2 DEF LabInv, LabShape
<1>6. RaceInv'
  BY <1>1, <1>2, <1>3 DEF LabInv, RaceInv, Working
<1>7. \A q \in Preparers \ {p} : pc[q] \in Working => Dir(q) # Dir(p) /\ Dir(q) \in Destinations
  BY DEF LabInv, RaceInv, Working, LabShape
<1>8. \A q \in Preparers \ {p} : Progress(q)' /\ Faithful(q)'
  BY <1>1, <1>3, <1>7, Undisturbed DEF LabInv
<1>9. Copied(p)' = Copied(p) /\ Todo(p)' = Todo(p) /\ Needed(p)' = Needed(p)
  <2>1. Copied(p)' = Copied(p)
    BY <1>2, <1>4 DEF Copied
  <2> QED
    BY <2>1 DEF Todo, Needed
<1>10. Progress(p)'
  BY <1>1, <1>9 DEF LabInv, Progress, Working
<1>11. Faithful(p)'
  BY <1>1, <1>2, <1>4, <1>9 DEF LabInv, Faithful, Working, Copied
<1> QED
  BY <1>5, <1>6, <1>8, <1>10, <1>11 DEF LabInv

LEMMA ChangeKeeps ==
    ASSUME LabInv, NEW p \in Preparers, Change(p)
    PROVE  LabInv'
<1>1. /\ pc[p] = "change" /\ pc' = [pc EXCEPT ![p] = "prepared"]
      /\ UNCHANGED <<want, names, base, made, maker>>
  BY DEF Change, Goto
<1>2. pc'[p] = "prepared" /\ Dir(p)' = Dir(p) /\ Dir(p) \in Destinations
  BY <1>1 DEF LabInv, LabShape, Dir
<1>3. Needed(p) \subseteq Copied(p) /\ Faithful(p) /\ pc[p] \in Working
  <2>1. Todo(p) = {}
    BY <1>1 DEF LabInv, Progress, Todo, Elements
  <2> QED
    BY <1>1, <2>1 DEF LabInv, Progress, Working
<1>4. want[p].scenario \in Scenarios
  BY DEF LabInv, LabShape
<1>5. CASE want[p].scenario = "tampered-audit"
  <2> DEFINE events == dest[Dir(p)]["audit.db"]
  <2>1. /\ events # << >> /\ events[1].target # "tampered"
        /\ dest' = [dest EXCEPT ![Dir(p)]["audit.db"][1].target = "tampered"]
    BY <1>5 DEF Change, TamperAudit
  <2>2. "audit.db" \in Copied(p) /\ AuditCopied(p)
    BY <1>3, <1>5 DEF Needed, Faithful
  <2>3. "config.db" \notin Copied(p)
    <3>1. Copied(p) \subseteq Needed(p) \cup {"audit.db"}
      BY <1>1, <1>3 DEF LabInv, Progress
    <3> QED
      BY <1>5, <3>1 DEF Needed
  <2> DEFINE new == [events EXCEPT ![1].target = "tampered"]
  <2>4. dest' = [dest EXCEPT ![Dir(p)]["audit.db"] = new]
    BY <2>1
  <2>5. events \in Seq(Events) /\ Verifies(events) /\ 1 \in DOMAIN events
    BY <1>1, <2>1, <2>2 DEF AuditCopied
  <2>6. /\ new \in Seq(Events) /\ Len(new) = Len(events) /\ new # << >>
        /\ DOMAIN new = DOMAIN events
        /\ new[1].target = "tampered" /\ new[1].signed = events[1].signed
        /\ \A i \in DOMAIN events : new[i].signed = events[i].signed
    <3>1. events[1] \in Events
      BY <2>5
    <3>2. /\ [events[1] EXCEPT !.target = "tampered"] \in Events
          /\ [events[1] EXCEPT !.target = "tampered"].target = "tampered"
          /\ [events[1] EXCEPT !.target = "tampered"].signed = events[1].signed
      BY <3>1, StringAssumption DEF Events
    <3> DEFINE e == [events[1] EXCEPT !.target = "tampered"]
    <3>3. new = [events EXCEPT ![1] = e]
      OBVIOUS
    <3> HIDE DEF e, events, new
    <3>4. /\ new \in Seq(Events) /\ Len(new) = Len(events) /\ DOMAIN new = DOMAIN events
          /\ new[1] = e /\ \A i \in DOMAIN events \ {1} : new[i] = events[i]
      BY <2>5, <3>2, <3>3, ExceptSeq DEF e
    <3>5. e.target = "tampered" /\ e.signed = events[1].signed
      BY <3>2 DEF e
    <3>6. new # << >>
      BY <2>5, <3>4
    <3>7. \A i \in DOMAIN events : new[i].signed = events[i].signed
      BY <3>4, <3>5
    <3> QED
      BY <3>4, <3>5, <3>6, <3>7
  <2>7. new # NoFile
    BY <2>6, BaselinesAssumption
  <2>8. dest'[Dir(p)]["audit.db"] = new
    BY <1>2, <2>4 DEF LabInv, LabShape, Files
  <2>9. events[1].signed # "tampered"
    BY <2>1, <2>5 DEF Verifies
  <2> HIDE DEF new
  <2>10. AuditCopied(p)'
    BY <1>1, <1>2, <1>5, <2>2, <2>6, <2>8, <2>9 DEF AuditCopied
  <2> HIDE DEF events
  <2> QED
    BY <1>1, <2>2, <2>3, <2>4, <2>7, <2>10, ChangedKeeps
<1>6. CASE want[p].scenario # "tampered-audit"
  <2> DEFINE config == dest[Dir(p)]["config.db"]
             new == Updated(want[p].scenario, config)
  <2>1. /\ Selected(want[p].scenario, config) # {}
        /\ dest' = [dest EXCEPT ![Dir(p)]["config.db"] = new]
    BY <1>6 DEF Change, MutateConfig
  <2>2. "config.db" \in Copied(p) /\ ConfigCopied(p)
    BY <1>3, <1>6, NeededFiles DEF Faithful
  <2>3. config = base["config.db"] /\ config \in Configs
    BY <1>1, <2>2 DEF ConfigCopied
  <2>4. new # NoFile
    BY <1>4, <1>6, <2>3, UpdatedIsThere
  <2>5. dest'[Dir(p)]["config.db"] = new
    BY <1>2, <2>1 DEF LabInv, LabShape, Files
  <2>6. ConfigCopied(p)'
    BY <1>1, <1>2, <2>1, <2>2, <2>3, <2>5 DEF ConfigCopied
  <2>7. "audit.db" \in Copied(p) => AuditCopied(p)'
    <3> SUFFICES ASSUME "audit.db" \in Copied(p) PROVE AuditCopied(p)'
      OBVIOUS
    <3>1. AuditCopied(p)
      BY <1>3 DEF Faithful
    <3>2. dest'[Dir(p)]["audit.db"] = dest[Dir(p)]["audit.db"]
      BY <1>2, <2>1 DEF LabInv, LabShape, Files
    <3> QED
      BY <1>1, <1>2, <1>6, <3>1, <3>2 DEF AuditCopied
  <2> HIDE DEF new
  <2> QED
    BY <1>1, <2>1, <2>2, <2>4, <2>6, <2>7, ChangedKeeps
<1> QED
  BY <1>5, <1>6

\* The baseline's audit log only grows, and what is appended verifies.
LEMMA BaselineKeeps ==
    ASSUME LabInv, BaselineIsUsed
    PROVE  LabInv'
<1> DEFINE old == base["audit.db"]
           new == base'["audit.db"]
<1>1. UNCHANGED <<pc, want, names, made, dest, maker>>
  BY DEF BaselineIsUsed
<1>2. DOMAIN base = Files /\ "audit.db" \in Files /\ "config.db" \in Files
  BY DEF LabInv, LabShape, Files
<1>3. DOMAIN base' = Files /\ \A f \in Files \ {"audit.db"} : base'[f] = base[f]
  BY <1>2 DEF BaselineIsUsed
<1>4. /\ new \in Seq(Events) /\ Verifies(new)
      /\ old # NoFile => /\ old \in Seq(Events) /\ Len(old) <= Len(new)
                         /\ \A i \in DOMAIN old : new[i] = old[i]
  <2>1. CASE old = NoFile
    <3>1. new = << >>
      BY <1>2, <2>1 DEF BaselineIsUsed
    <3> QED
      BY <2>1, <3>1 DEF Verifies
  <2>2. CASE old # NoFile
    <3> DEFINE e == [target |-> "target-001", signed |-> "target-001"]
    <3>1. new = Append(old, e)
      BY <1>2, <2>2 DEF BaselineIsUsed
    <3>2. old \in Seq(Events) /\ Verifies(old)
      BY <2>2 DEF LabInv, LabShape
    <3>3. e \in Events /\ e.target = e.signed
      BY StringAssumption DEF Events
    <3> HIDE DEF e, old, new
    <3>4. /\ new \in Seq(Events) /\ Len(new) = Len(old) + 1 /\ Len(old) \in Nat
          /\ DOMAIN new = 1..(Len(old) + 1) /\ DOMAIN old = 1..Len(old)
          /\ new[Len(old) + 1] = e
          /\ \A i \in 1..Len(old) : new[i] = old[i]
      BY <3>1, <3>2, <3>3
    <3>5. \A i \in 1..(Len(old) + 1) : i \in 1..Len(old) \/ i = Len(old) + 1
      BY <3>4
    <3>6. Verifies(new)
      BY <3>2, <3>3, <3>4, <3>5 DEF Verifies
    <3> QED
      BY <3>2, <3>4, <3>6
  <2> QED
    BY <2>1, <2>2
<1>5. new # NoFile
  BY <1>4, BaselinesAssumption
<1>6. LabShape'
  BY <1>1, <1>2, <1>3, <1>4 DEF LabInv, LabShape
<1>7. RaceInv'
  BY <1>1 DEF LabInv, RaceInv, Dir
<1>8. ASSUME NEW q \in Preparers
      PROVE  Progress(q)' /\ Faithful(q)'
  <2>1. Progress(q) /\ Faithful(q) /\ names[q] \in Seq(Files)
    BY DEF LabInv, LabShape
  <2>2. /\ Dir(q)' = Dir(q) /\ Todo(q)' = Todo(q) /\ Needed(q)' = Needed(q)
        /\ Copied(q)' = Copied(q)
    BY <1>1 DEF Dir, Todo, Needed, Copied
  <2>3. Todo(q) \subseteq Files
    BY <2>1 DEF Todo, Elements
  <2>4. \A f \in Todo(q) : base[f] # NoFile => base'[f] # NoFile
    BY <1>3, <1>5, <2>3
  <2>5. Progress(q)'
    BY <1>1, <2>1, <2>2, <2>4 DEF Progress
  <2>6. ASSUME ConfigCopied(q) PROVE ConfigCopied(q)'
    BY <1>1, <1>2, <1>3, <2>2, <2>6 DEF ConfigCopied
  <2>7. ASSUME AuditCopied(q) PROVE AuditCopied(q)'
    <3> DEFINE events == dest[Dir(q)]["audit.db"]
    <3>1. /\ old \in Seq(Events) /\ events \in Seq(Events)
          /\ Len(events) <= Len(old) /\ \A i \in DOMAIN events : events[i].signed = old[i].signed
      BY <2>7 DEF AuditCopied
    <3>2. Len(old) <= Len(new) /\ \A i \in DOMAIN old : new[i] = old[i]
      BY <1>4, <3>1, BaselinesAssumption
    <3>3. Len(events) \in Nat /\ Len(old) \in Nat /\ Len(new) \in Nat
      BY <1>4, <3>1
    <3>4. \A i \in DOMAIN events : i \in DOMAIN old
      BY <3>1, <3>3
    <3>5. \A i \in DOMAIN events : events[i].signed = new[i].signed
      BY <3>1, <3>2, <3>4
    <3>6. Len(events) <= Len(new)
      BY <3>1, <3>2, <3>3
    <3> QED
      BY <1>1, <1>4, <2>2, <2>7, <3>5, <3>6 DEF AuditCopied
  <2>8. \A f \in Copied(q) : f \in Files
    BY DEF Copied
  <2>9. Faithful(q)'
    BY <1>1, <1>3, <2>1, <2>2, <2>6, <2>7, <2>8 DEF Faithful
  <2> QED
    BY <2>5, <2>9
<1> QED
  BY <1>6, <1>7, <1>8 DEF LabInv

-----------------------------------------------------------------------------
LEMMA LabStep == LabInv /\ [Next]_vars => LabInv'
<1> SUFFICES ASSUME LabInv, [Next]_vars PROVE LabInv'
  OBVIOUS
<1>1. ASSUME NEW p \in Preparers, ValidatePaths(p) PROVE LabInv'
  BY <1>1, MoveKeeps DEF ValidatePaths, Goto
<1>2. ASSUME NEW p \in Preparers, ValidateSource(p) PROVE LabInv'
  BY <1>2, ValidateSourceKeeps
<1>3. ASSUME NEW p \in Preparers, CreateDestination(p) PROVE LabInv'
  BY <1>3, CreateKeeps
<1>4. ASSUME NEW p \in Preparers, Copy(p) PROVE LabInv'
  BY <1>4, CopyKeeps
<1>5. ASSUME NEW p \in Preparers, Change(p) PROVE LabInv'
  BY <1>5, ChangeKeeps
<1>6. ASSUME NEW p \in Preparers, Fails(p) PROVE LabInv'
  BY <1>6, MoveKeeps DEF Fails, Goto
<1>7. CASE BaselineIsUsed
  BY <1>7, BaselineKeeps
<1>8. CASE UNCHANGED vars
  BY <1>8 DEF vars, LabInv, LabShape, RaceInv, Progress, Faithful, ConfigCopied, AuditCopied,
              Copied, Todo, Needed, Dir
<1> QED
  BY <1>1, <1>2, <1>3, <1>4, <1>5, <1>6, <1>7, <1>8 DEF Next

\* LabInv is inductive.
LEMMA LabInvHolds == Spec => []LabInv
<1>1. Init => LabInv
  BY InitLab
<1>2. LabInv /\ [Next]_vars => LabInv'
  BY LabStep
<1> QED
  BY <1>1, <1>2, PTL DEF Spec

(***************************************************************************)
(* Whoever prepare_negative_lab tells that a scenario is ready has a       *)
(* directory to itself, with every file the scenario needs and, but for    *)
(* its change, the baseline's content: O_EXCL and mkdir decide every race, *)
(* for any number of preparers and destinations.                           *)
(***************************************************************************)
THEOREM CopiesAreOwnAndWhole == Spec => []CopyIsOwnAndWhole
<1>1. LabInv => CopyIsOwnAndWhole
  <2> SUFFICES ASSUME LabInv, NEW p \in Preparers, Prepared(p)
               PROVE  /\ Needed(p) \subseteq Copied(p)
                      /\ Copied(p) \subseteq Needed(p) \cup {"audit.db"}
                      /\ \A f \in Copied(p) : maker[Dir(p)][f] = p
                      /\ \A f \in Copied(p) \ {"config.db", "audit.db"} : dest[Dir(p)][f] = base[f]
                      /\ "audit.db" \in Copied(p) =>
                            /\ Len(dest[Dir(p)]["audit.db"]) <= Len(base["audit.db"])
                            /\ \A i \in DOMAIN dest[Dir(p)]["audit.db"] :
                                  dest[Dir(p)]["audit.db"][i].signed = base["audit.db"][i].signed
    BY DEF CopyIsOwnAndWhole, Needed, Copied
  <2>1. pc[p] = "prepared" /\ pc[p] \in Working
    BY DEF Prepared, Working
  <2>2. Todo(p) = {}
    BY <2>1 DEF LabInv, Progress, Todo, Elements
  <2>3. Needed(p) \subseteq Copied(p) /\ Copied(p) \subseteq Needed(p) \cup {"audit.db"}
    BY <2>1, <2>2 DEF LabInv, Progress
  <2>4. "audit.db" \in Copied(p) => AuditCopied(p)
    BY <2>1 DEF LabInv, Faithful
  <2> QED
    BY <2>1, <2>3, <2>4 DEF LabInv, Faithful, AuditCopied
<1> QED
  BY <1>1, LabInvHolds, PTL

-----------------------------------------------------------------------------
(***************************************************************************)
(* What the changed configuration makes AccessService say.                 *)
(***************************************************************************)
PolicyRefuses(policies, user, target) ==
    LET answer == find_matching(policies, user, target)
    IN  answer = Raises \/ evaluate(answer.row).effect # "allow"

AccountRefuses(accounts, target) ==
    LET answer == find_for_target(accounts, target)
    IN  answer.kind # "found" \/ ~ answer.row.enabled

\* The gates in their order.
LEMMA Gates ==
    ASSUME NEW runtime, NEW user, NEW target
    PROVE  LET config == runtime["config.db"]
               refused == Refusal(runtime, user, target)
               policy == PolicyRefuses(config.policies, user.id, target.id)
               account == AccountRefuses(config.accounts, target.id)
               locked == resolve(runtime["vault.db"],
                            find_for_target(config.accounts, target.id).row.credential,
                            runtime["vault.key"]) = Raises
           IN  /\ policy => refused = "policy"
               /\ ~ policy /\ ~ target.enabled => refused = "target"
               /\ ~ policy /\ target.enabled /\ account => refused = "account"
               /\ ~ policy /\ target.enabled /\ ~ account /\ ~ locked /\ target.pin = "wrong"
                     => refused = "host_key"
               /\ refused = "none" =>
                     ~ policy /\ target.enabled /\ ~ account /\ ~ locked /\ target.pin # "wrong"
BY DEF Refusal, PolicyRefuses, AccountRefuses

\* One policy that denies: no user is allowed any target.
LEMMA DenyRefuses ==
    ASSUME NEW d, d.id \in DOMAIN PolicyRank, d.effect = "deny", NEW user, NEW target
    PROVE  PolicyRefuses({d}, user, target)
<1> DEFINE matching == {r \in {d} : r.user = user /\ r.target = target}
           list == Policies(matching)
<1>1. matching = {} \/ matching = {d}
  OBVIOUS
<1>2. /\ find_matching({d}, user, target) # Raises =>
            find_matching({d}, user, target).row = list
  BY DEF find_matching, Found
<1>3. WithEffect(list, "allow") = {} \/ WithEffect(list, "deny") # {}
  <2>1. CASE matching = {}
    <3>1. Cardinality(matching) = 0
      BY <2>1, FS_EmptySet
    <3>2. DOMAIN list = {}
      BY <3>1 DEF Policies, OrderById
    <3> QED
      BY <3>2 DEF WithEffect
  <2>2. CASE matching = {d}
    <3>1. PolicyRank[d.id] \in Nat
      BY RankAssumption
    <3>2. Cardinality({d}) = 1 /\ Cardinality({}) = 0
      BY FS_Singleton, FS_EmptySet
    <3>3. DOMAIN OrderById({d}) = {1}
      <4>1. 1..1 = {1}
        OBVIOUS
      <4> QED
        BY <3>2, <4>1 DEF OrderById
    <3>4. Cardinality({s \in {d} : PolicyRank[s.id] < PolicyRank[d.id]}) = 0
      <4>1. {s \in {d} : PolicyRank[s.id] < PolicyRank[d.id]} = {}
        BY <3>1
      <4> QED
        BY <3>2, <4>1
    <3>5. OrderById({d})[1] = d
      <4>1. 1 \in 1..Cardinality({d}) /\ 1 - 1 = 0
        BY <3>2
      <4>2. OrderById({d})[1] = CHOOSE r \in {d} :
               Cardinality({s \in {d} : PolicyRank[s.id] < PolicyRank[r.id]}) = 1 - 1
        BY <4>1 DEF OrderById
      <4> QED
        BY <3>4, <4>1, <4>2
    <3>6. 1 \in DOMAIN list /\ list[1].effect = "deny"
      BY <2>2, <3>3, <3>5 DEF Policies
    <3> QED
      BY <3>6 DEF WithEffect
  <2> QED
    BY <1>1, <2>1, <2>2
<1> HIDE DEF list
<1>4. evaluate(list).effect # "allow"
  BY <1>3 DEF evaluate, Decision
<1> QED
  BY <1>2, <1>4 DEF PolicyRefuses

\* One account that is disabled: no target has a usable one.
LEMMA DisabledRefuses ==
    ASSUME NEW a, ~ a.enabled, NEW target
    PROVE  AccountRefuses({a}, target)
<1> DEFINE matching == {r \in {a} : r.target = target}
<1>1. matching = {} \/ matching = {a}
  OBVIOUS
<1>2. ~ \E r, s \in matching : r # s
  OBVIOUS
<1>3. find_for_target({a}, target) = FetchOne(matching)
  BY <1>2 DEF find_for_target
<1>4. (CHOOSE r \in {a} : TRUE) = a
  OBVIOUS
<1>5. FetchOne(matching) \in {Absent, Raises, Found(a)}
  BY <1>1, <1>4 DEF FetchOne
<1>6. Absent.kind # "found" /\ Raises.kind # "found" /\ Found(a).row = a
  BY DEF Absent, Raises, Found
<1> QED
  BY <1>3, <1>5, <1>6 DEF AccountRefuses

\* The UPDATE of a configuration with one row changes that row.
LEMMA UpdateFacts ==
    ASSUME NEW c \in Configs, NEW s \in Scenarios, s # "tampered-audit", Selected(s, c) # {}
    PROVE  LET u == Updated(s, c) IN
           /\ s = "deny" =>
                 \E d : u.policies = {d} /\ d.id \in DOMAIN PolicyRank /\ d.effect = "deny"
           /\ s # "deny" => u.policies = c.policies
           /\ s = "disabled-target" => \A t \in u.targets : t.enabled = FALSE
           /\ s = "disabled-account" => \E a : u.accounts = {a} /\ ~ a.enabled
           /\ s \in {"disabled-account", "deny"} => u.targets = c.targets
           /\ s # "disabled-account" => u.accounts = c.accounts
           /\ s = "bad-host-key" =>
                 \A t \in u.targets : /\ t.pin = "wrong"
                                     /\ \A b \in c.targets : t.enabled = b.enabled
<1>1. /\ c \in [policies : SUBSET PolicyRows, targets : SUBSET TargetRows, accounts : SUBSET AccountRows]
      /\ \A x, y \in c.policies : x = y /\ x.id \in DOMAIN PolicyRank
      /\ \A x, y \in c.targets : x = y
      /\ \A x, y \in c.accounts : x = y
  BY DEF Configs
<1> DEFINE old == Selected(s, c)
<1>2. CASE s = "deny"
  <2>1. PICK r \in c.policies : r \in old
    BY <1>2 DEF Selected
  <2>2. old = {r} /\ c.policies = {r} /\ r \in PolicyRows
    BY <1>1, <1>2, <2>1 DEF Selected
  <2> DEFINE d == [r EXCEPT !.effect = "deny"]
  <2>3. Updated(s, c) =
          [c EXCEPT !.policies = (c.policies \ old) \cup {[x EXCEPT !.effect = "deny"] : x \in old}]
    BY <1>2 DEF Updated
  <2>4. (c.policies \ old) \cup {[x EXCEPT !.effect = "deny"] : x \in old} = {d}
    BY <2>2
  <2>5. d.id = r.id /\ d.effect = "deny"
    BY <2>2 DEF PolicyRows
  <2> HIDE DEF d, old
  <2>6. Updated(s, c) = [c EXCEPT !.policies = {d}]
    BY <2>3, <2>4
  <2> QED
    BY <1>1, <1>2, <2>2, <2>5, <2>6
<1>3. CASE s = "disabled-target"
  <2>1. PICK r \in c.targets : r \in old
    BY <1>3 DEF Selected
  <2>2. old = {r} /\ c.targets = {r} /\ r \in TargetRows
    BY <1>1, <1>3, <2>1 DEF Selected
  <2> DEFINE d == [r EXCEPT !.enabled = FALSE]
  <2>3. Updated(s, c) =
          [c EXCEPT !.targets = (c.targets \ old) \cup {[x EXCEPT !.enabled = FALSE] : x \in old}]
    BY <1>3 DEF Updated
  <2>4. (c.targets \ old) \cup {[x EXCEPT !.enabled = FALSE] : x \in old} = {d}
    BY <2>2
  <2>5. d.enabled = FALSE
    BY <2>2 DEF TargetRows
  <2> HIDE DEF d, old
  <2>6. Updated(s, c) = [c EXCEPT !.targets = {d}]
    BY <2>3, <2>4
  <2> QED
    BY <1>1, <1>3, <2>2, <2>5, <2>6
<1>4. CASE s = "disabled-account"
  <2>1. PICK r \in c.accounts : r \in old
    BY <1>4 DEF Selected
  <2>2. old = {r} /\ c.accounts = {r} /\ r \in AccountRows
    BY <1>1, <1>4, <2>1 DEF Selected
  <2> DEFINE d == [r EXCEPT !.enabled = FALSE]
  <2>3. Updated(s, c) =
          [c EXCEPT !.accounts = (c.accounts \ old) \cup {[x EXCEPT !.enabled = FALSE] : x \in old}]
    BY <1>4 DEF Updated
  <2>4. (c.accounts \ old) \cup {[x EXCEPT !.enabled = FALSE] : x \in old} = {d}
    BY <2>2
  <2>5. d.enabled = FALSE
    BY <2>2 DEF AccountRows
  <2> HIDE DEF d, old
  <2>6. Updated(s, c) = [c EXCEPT !.accounts = {d}]
    BY <2>3, <2>4
  <2> QED
    BY <1>1, <1>4, <2>2, <2>5, <2>6
<1>5. CASE s = "bad-host-key"
  <2>1. PICK r \in c.targets : r \in old
    BY <1>5 DEF Selected
  <2>2. old = {r} /\ c.targets = {r} /\ r \in TargetRows
    BY <1>1, <1>5, <2>1 DEF Selected
  <2> DEFINE d == [r EXCEPT !.pin = "wrong"]
  <2>3. Updated(s, c) =
          [c EXCEPT !.targets = (c.targets \ old) \cup {[x EXCEPT !.pin = "wrong"] : x \in old}]
    BY <1>5 DEF Updated
  <2>4. (c.targets \ old) \cup {[x EXCEPT !.pin = "wrong"] : x \in old} = {d}
    BY <2>2
  <2>5. d.pin = "wrong" /\ d.enabled = r.enabled
    BY <2>2 DEF TargetRows
  <2> HIDE DEF d, old
  <2>6. Updated(s, c) = [c EXCEPT !.targets = {d}]
    BY <2>3, <2>4
  <2> QED
    BY <1>1, <1>5, <2>2, <2>5, <2>6
<1> QED
  BY <1>2, <1>3, <1>4, <1>5 DEF Scenarios

(***************************************************************************)
(* A scenario that was reported as prepared blocks access, and at the gate *)
(* it is named after wherever the baseline gives access; a tampered audit  *)
(* log fails verification.  For every baseline that holds one lab, of      *)
(* whatever ids, and all interleavings of any number of preparers.         *)
(***************************************************************************)
THEOREM ScenariosBlock == Spec => []ScenarioBlocks
<1>1. LabInv => ScenarioBlocks
  <2> SUFFICES ASSUME LabInv, NEW p \in Preparers, Prepared(p)
               PROVE  LET copy == dest[Dir(p)] IN
                      IF want[p].scenario = "tampered-audit"
                        THEN ~ Verifies(copy["audit.db"]) /\ Verifies(base["audit.db"])
                        ELSE \A user \in copy["auth.db"], target \in copy["config.db"].targets :
                                /\ Refusal(copy, user, target) # "none"
                                /\ (\E t \in base["config.db"].targets :
                                       t.id = target.id /\ Refusal(base, user, t) = "none")
                                      => Refusal(copy, user, target) = Expected(want[p].scenario)
    BY DEF ScenarioBlocks
  <2> DEFINE copy == dest[Dir(p)]
             s == want[p].scenario
  <2>1. pc[p] = "prepared" /\ pc[p] \in Working
    BY DEF Prepared, Working
  <2>2. Todo(p) = {}
    BY <2>1 DEF LabInv, Progress, Todo, Elements
  <2>3. Needed(p) \subseteq Copied(p) /\ Faithful(p) /\ s \in Scenarios
    BY <2>1, <2>2 DEF LabInv, Progress, LabShape
  <2>4. CASE s = "tampered-audit"
    <3>1. AuditCopied(p)
      BY <2>1, <2>3, <2>4 DEF Needed, Faithful
    <3>2. /\ copy["audit.db"] \in Seq(Events) /\ copy["audit.db"] # << >>
          /\ copy["audit.db"][1].target = "tampered" /\ copy["audit.db"][1].signed # "tampered"
      BY <2>1, <2>4, <3>1 DEF AuditCopied
    <3>3. 1 \in DOMAIN copy["audit.db"]
      BY <3>2
    <3>4. base["audit.db"] # NoFile
      BY <3>1, BaselinesAssumption DEF AuditCopied
    <3> QED
      BY <2>4, <3>2, <3>3, <3>4 DEF Verifies, LabInv, LabShape
  <2>5. CASE s # "tampered-audit"
    <3> DEFINE c == base["config.db"]
               u == copy["config.db"]
    <3>1. {"config.db", "vault.db", "vault.key"} \subseteq Copied(p)
      BY <2>3, <2>5, NeededFiles
    <3>2. copy["vault.db"] = base["vault.db"] /\ copy["vault.key"] = base["vault.key"]
      BY <2>1, <2>3, <3>1 DEF Faithful
    <3>3. c \in Configs /\ Selected(s, c) # {} /\ u = Updated(s, c)
      BY <2>1, <2>3, <3>1 DEF Faithful, ConfigCopied
    <3>4. \A x, y \in c.targets : x = y
      BY <3>3 DEF Configs
    <3> SUFFICES ASSUME NEW user, NEW target \in u.targets
                 PROVE  /\ Refusal(copy, user, target) # "none"
                        /\ \A t \in c.targets :
                              t.id = target.id /\ Refusal(base, user, t) = "none"
                                => Refusal(copy, user, target) = Expected(s)
      BY <2>5
    <3> HIDE DEF copy, s, c, u
    <3>5. CASE s = "deny"
      <4> PICK d : u.policies = {d} /\ d.id \in DOMAIN PolicyRank /\ d.effect = "deny"
        BY <2>3, <2>5, <3>3, <3>5, UpdateFacts, Zenon
      <4>1. PolicyRefuses(u.policies, user.id, target.id)
        BY DenyRefuses
      <4>2. Refusal(copy, user, target) = "policy"
        BY <4>1, Gates DEF u
      <4> QED
        BY <3>5, <4>2 DEF Expected
    <3>6. CASE s = "disabled-target"
      <4>1. u.policies = c.policies /\ target.enabled = FALSE
        BY <2>3, <2>5, <3>3, <3>6, UpdateFacts
      <4>2. Refusal(copy, user, target) \in {"policy", "target"}
        BY <4>1, Gates DEF u
      <4>3. ASSUME NEW t \in c.targets, t.id = target.id, Refusal(base, user, t) = "none"
            PROVE  Refusal(copy, user, target) = "target"
        <5>1. ~ PolicyRefuses(c.policies, user.id, target.id)
          BY <4>3, Gates DEF c
        <5> QED
          BY <4>1, <5>1, Gates DEF u
      <4> QED
        BY <3>6, <4>2, <4>3 DEF Expected
    <3>7. CASE s = "disabled-account"
      <4>1. u.policies = c.policies /\ u.targets = c.targets
        BY <2>3, <2>5, <3>3, <3>7, UpdateFacts
      <4> PICK a : u.accounts = {a} /\ ~ a.enabled
        BY <2>3, <2>5, <3>3, <3>7, UpdateFacts, Zenon
      <4>2. AccountRefuses(u.accounts, target.id)
        BY DisabledRefuses
      <4>3. Refusal(copy, user, target) \in {"policy", "target", "account"}
        BY <4>2, Gates DEF u
      <4>4. ASSUME NEW t \in c.targets, t.id = target.id, Refusal(base, user, t) = "none"
            PROVE  Refusal(copy, user, target) = "account"
        <5>1. target = t
          BY <3>4, <4>1, <4>4
        <5>2. ~ PolicyRefuses(c.policies, user.id, target.id) /\ target.enabled
          BY <4>4, <5>1, Gates DEF c
        <5> QED
          BY <4>1, <4>2, <5>2, Gates DEF u
      <4> QED
        BY <3>7, <4>3, <4>4 DEF Expected
    <3>8. CASE s = "bad-host-key"
      <4>1. /\ u.policies = c.policies /\ u.accounts = c.accounts
            /\ target.pin = "wrong" /\ \A b \in c.targets : target.enabled = b.enabled
        BY <2>3, <2>5, <3>3, <3>8, UpdateFacts
      <4>2. Refusal(copy, user, target) # "none"
        BY <4>1, Gates
      <4>3. ASSUME NEW t \in c.targets, t.id = target.id, Refusal(base, user, t) = "none"
            PROVE  Refusal(copy, user, target) = "host_key"
        <5>1. /\ ~ PolicyRefuses(c.policies, user.id, target.id) /\ t.enabled
              /\ ~ AccountRefuses(c.accounts, target.id)
              /\ resolve(base["vault.db"], find_for_target(c.accounts, target.id).row.credential,
                         base["vault.key"]) # Raises
          BY <4>3, Gates DEF c
        <5>2. target.enabled
          BY <4>1, <4>3, <5>1
        <5> QED
          BY <3>2, <4>1, <5>1, <5>2, Gates DEF u
      <4> QED
        BY <3>8, <4>2, <4>3 DEF Expected
    <3> QED
      BY <2>3, <2>5, <3>5, <3>6, <3>7, <3>8 DEF Scenarios
  <2> QED
    BY <2>4, <2>5
<1> QED
  BY <1>1, LabInvHolds, PTL

=============================================================================
