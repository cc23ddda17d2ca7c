----------------------------- MODULE MCHandoffs -----------------------------
(* Instances of Handoffs for TLC. *)
EXTENDS Handoffs

CONSTANTS q1, t1, t2, b1, v1

OneRequest == [s \in TuaSessions |-> q1]
=============================================================================
