------------------------------ MODULE MCPairing ------------------------------
(* Instances of Pairing for TLC. *)
EXTENDS Pairing, TLC

\* Threads run the same code, and device identifiers are random.
Symmetry == Permutations(Workers) \cup Permutations(Devices)
=============================================================================
