--------------------------- MODULE MCSignedRequests ---------------------------
(* Instances of SignedRequests for TLC. *)
EXTENDS SignedRequests, TLC

\* Workers run the same code, and neither requests nor devices have an order.
Symmetry == Permutations(Writers) \cup Permutations(Requests) \cup Permutations(Devices)
=============================================================================
