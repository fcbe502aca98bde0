-------------------------- MODULE MC_AccessService --------------------------
(* Small instances of AccessService for TLC. *)
EXTENDS AccessBroker, TLC

CONSTANT MaxPolicies    \* bound: policies matching one request

PolicyIds == <<"policy-a", "policy-b", "policy-c">>

\* Every list of at most MaxPolicies policies, ids in the order of the query.
AllPolicyLists ==
    UNION {{[i \in 1..n |-> [id |-> PolicyIds[i], effect |-> f[i]]] : f \in [1..n -> Effects]} :
              n \in 0..MaxPolicies}

ProcSymmetry == Permutations(Procs)
=============================================================================
