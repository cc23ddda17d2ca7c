----------------------------- MODULE MCAuditChain -----------------------------
(* Instances of AuditChain for TLC. *)
EXTENDS AuditChain, TLC

\* Writers run the same code and no property names one of them.
Symmetry == Permutations(Writers)
=============================================================================
