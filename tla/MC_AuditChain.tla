--------------------------- MODULE MC_AuditChain ---------------------------
(* Small instances of AuditChain for TLC. *)
EXTENDS AuditChain, TLC

ChainSymmetry == Permutations(Writers) \cup Permutations(Verifiers)
                     \cup Permutations(EventIds)
=============================================================================
