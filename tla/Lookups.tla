------------------------------- MODULE Lookups -------------------------------
(***************************************************************************)
(* What the repositories and the vault answer, as a function of what their *)
(* tables hold.  A row's field "valid" says that _deserialize, with the    *)
(* checks of the domain objects it builds, accepts it.  Every query may    *)
(* also fail in SQLite; that is the caller's choice.                       *)
(***************************************************************************)
EXTENDS PolicyEvaluator, FiniteSets

CONSTANT PolicyRank     \* where ORDER BY id puts each id of a policy

ASSUME RankAssumption ==
    /\ PolicyRank \in [DOMAIN PolicyRank -> Nat]
    /\ \A i, j \in DOMAIN PolicyRank : PolicyRank[i] = PolicyRank[j] => i = j

Absent == [kind |-> "absent"]
Raises == [kind |-> "raises"]
Found(x) == [kind |-> "found", row |-> x]

\* A row, or None, or the Malformed...Error.
FetchOne(matching) ==
    IF matching = {} THEN Absent
    ELSE LET row == CHOOSE r \in matching : TRUE
         IN  IF row.valid THEN Found(row) ELSE Raises

\* username is UNIQUE, id the primary key: at most one row matches.
find_by_username(users, username) == FetchOne({r \in users : r.username = username})

get(targets, id) == FetchOne({r \in targets : r.id = id})

\* Several accounts for a target are refused as ambiguous.
find_for_target(accounts, target) ==
    LET matching == {r \in accounts : r.target = target}
    IN  IF \E r, s \in matching : r # s THEN Raises ELSE FetchOne(matching)

\* ORDER BY id: each row comes after those whose ids precede its own.
OrderById(rows) ==
    [i \in 1..Cardinality(rows) |->
        CHOOSE r \in rows :
            Cardinality({s \in rows : PolicyRank[s.id] < PolicyRank[r.id]}) = i - 1]

Policies(rows) ==
    [i \in DOMAIN OrderById(rows) |->
        [id |-> OrderById(rows)[i].id, effect |-> OrderById(rows)[i].effect]]

\* Variant: rows that cannot be read are skipped.
find_matching_Skips(policies, user, target) ==
    Found(Policies({r \in policies : r.user = user /\ r.target = target /\ r.valid}))

\* Every matching policy, in the order of their ids; one that cannot be read
\* fails the query.
find_matching(policies, user, target) ==
    LET matching == {r \in policies : r.user = user /\ r.target = target}
    IN  IF \E r \in matching : ~ r.valid THEN Raises ELSE Found(Policies(matching))

\* SQLiteVault.resolve: no row is an error, as is a row that the key at hand
\* does not authenticate.
resolve(vault, id, key) ==
    LET row == FetchOne({r \in vault : r.id = id})
    IN  IF row.kind = "found" /\ row.row.key = key THEN row ELSE Raises

=============================================================================
