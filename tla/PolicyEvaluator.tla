--------------------------- MODULE PolicyEvaluator ---------------------------
(***************************************************************************)
(* PolicyEvaluator.evaluate (src/application/policy_evaluator.py): from    *)
(* the policies matching a request, in the order the repository returns    *)
(* them, to one decision.  A policy is a record with fields id and effect. *)
(***************************************************************************)
EXTENDS Naturals, Sequences

Effects == {"allow", "deny", "requires_approval"}

WithEffect(policies, effect) ==
    {i \in DOMAIN policies : policies[i].effect = effect}

\* next(policy for policy in policies if policy.effect is effect)
FirstId(policies, effect) ==
    policies[CHOOSE i \in WithEffect(policies, effect) :
                \A j \in WithEffect(policies, effect) : i <= j].id

Decision(effect, reason) == [effect |-> effect, reason |-> reason]

\* Variant: any policy that allows is enough.
evaluate_AllowFirst(policies) ==
    IF WithEffect(policies, "allow") # {}
      THEN Decision("allow", FirstId(policies, "allow"))
      ELSE Decision("deny", "no_matching_policy")

evaluate(policies) ==
    IF WithEffect(policies, "deny") # {}
      THEN Decision("deny", FirstId(policies, "deny"))
    ELSE IF WithEffect(policies, "requires_approval") # {}
      THEN Decision("deny", "approval_not_supported")
    ELSE IF WithEffect(policies, "allow") # {}
      THEN Decision("allow", FirstId(policies, "allow"))
    ELSE Decision("deny", "no_matching_policy")

=============================================================================
