--------------------------- MODULE MC_NegativeLab ---------------------------
(* A small instance of NegativeLab for TLC. *)
EXTENDS NegativeLab, TLC

Ranks == [id \in {"policy-001", "policy-x"} |-> IF id = "policy-001" THEN 1 ELSE 2]

\* The lab provision_lab leaves with these ids, before it is ever used.
Lab(user, target, account, policy) ==
    [f \in Files |->
        CASE f = "vault.key" -> "k1"
          [] f = "audit.key" -> "k2"
          [] f = "auth.db" -> {[id |-> user, username |-> user, enabled |-> TRUE, valid |-> TRUE]}
          [] f = "config.db" ->
                [policies |-> {[id |-> policy, user |-> user, target |-> target,
                                effect |-> "allow", valid |-> TRUE]},
                 targets |-> {[id |-> target, pin |-> "genuine", enabled |-> TRUE, valid |-> TRUE]},
                 accounts |-> {[id |-> account, target |-> target, credential |-> "c",
                                enabled |-> TRUE, valid |-> TRUE]}]
          [] f = "vault.db" -> {[id |-> "c", key |-> "k1", valid |-> TRUE]}
          [] f = "audit.db" -> NoFile]

Default == Lab("user-001", "target-001", "account-001", "policy-001")

\* The default lab, labs with other ids, one half provisioned, one edited by
\* hand, one without its vault, and one with an empty audit log.
SomeBaselines ==
    {Default,
     Lab("user-001", "target-x", "account-001", "policy-001"),
     Lab("user-001", "target-001", "account-x", "policy-x"),
     [Default EXCEPT !["config.db"].policies = {}, !["vault.db"] = {}],
     [Default EXCEPT !["config.db"].targets = {[r EXCEPT !.enabled = FALSE] : r \in @}],
     [Default EXCEPT !["vault.db"] = NoFile],
     [Default EXCEPT !["audit.db"] = << >>]}

LabSymmetry == Permutations(Preparers) \cup Permutations(Destinations)
=============================================================================
