------------------------------- MODULE MC_Cli -------------------------------
(* A small instance of Cli for TLC. *)
EXTENDS Cli

\* At most two matching policies, of each effect.
TwoPolicies == <<"policy-a", "policy-b">>
TwoRanks == [id \in {"policy-a", "policy-b"} |-> IF id = "policy-a" THEN 1 ELSE 2]
UpToTwo ==
    UNION {{[i \in 1..n |-> [id |-> TwoPolicies[i], effect |-> f[i]]] : f \in [1..n -> Effects]} :
              n \in 0..2}
    \cup {<<[id |-> "policy-b", effect |-> f]>> : f \in Effects}

User == [id |-> "user-001", username |-> "alice", enabled |-> TRUE, valid |-> TRUE]
Policy(id, user, effect) ==
    [id |-> id, user |-> user, target |-> "target-001", effect |-> effect, valid |-> TRUE]
Server == [id |-> "target-001", enabled |-> TRUE, valid |-> TRUE]
Account(id, target) ==
    [id |-> id, target |-> target, credential |-> "credential-001", enabled |-> TRUE,
     valid |-> TRUE]
Secret(id) == [id |-> id, key |-> "key", valid |-> TRUE]

\* A provisioned lab, with an account of another target beside it.
LabStore ==
    [users |-> {User},
     policies |-> {Policy("policy-a", "user-001", "allow"), Policy("policy-b", "user-002", "allow")},
     targets |-> {Server},
     accounts |-> {Account("account-a", "target-001"), Account("account-b", "target-002")},
     vault |-> {Secret("credential-001")}]

\* Rows removed, disabled, unreadable; another user under the name, a second
\* policy, a second account, another credential, a credential under another key.
SomeContents ==
    [users |-> {{}, {User}, {[User EXCEPT !.enabled = FALSE]}, {[User EXCEPT !.valid = FALSE]},
                {[User EXCEPT !.id = "user-002"]}},
     policies |->
        {{}, {Policy("policy-b", "user-002", "allow")},
         {Policy("policy-a", "user-001", "allow")},
         {[Policy("policy-a", "user-001", "allow") EXCEPT !.valid = FALSE]}}
        \cup {{Policy("policy-a", "user-001", "allow"), Policy("policy-b", "user-001", f)} :
                f \in {"deny", "requires_approval"}}
        \cup {{Policy("policy-a", "user-001", "allow"),
               [Policy("policy-b", "user-001", "deny") EXCEPT !.valid = FALSE]}},
     targets |-> {{}, {Server}, {[Server EXCEPT !.enabled = FALSE]}},
     accounts |->
        {{Account("account-b", "target-002")}, {Account("account-a", "target-001")},
         {[Account("account-a", "target-001") EXCEPT !.enabled = FALSE]},
         {[Account("account-a", "target-001") EXCEPT !.credential = "credential-002"]},
         {Account("account-a", "target-001"), Account("account-b", "target-001")}},
     vault |-> {{}, {Secret("credential-001")}, {Secret("credential-002")},
                {[Secret("credential-001") EXCEPT !.key = "other"]}}]
=============================================================================
