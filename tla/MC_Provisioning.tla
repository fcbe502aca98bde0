--------------------------- MODULE MC_Provisioning ---------------------------
(* Small instances of Provisioning for TLC. *)
EXTENDS Provisioning, TLC

\* The default ids, all other ids, the default ids with another user, with
\* another credential, and with everything but the target changed.
Uniform(id) == [t \in Tables |-> id]
SomeConfigs == {Uniform("default"), Uniform("other")}
    \cup {[Uniform("default") EXCEPT ![t] = "other"] :
             t \in {"pam_users", "vault_credentials"}}
    \cup {[Uniform("other") EXCEPT !["targets"] = "default"]}

RunSymmetry == Permutations(Runs)
=============================================================================
