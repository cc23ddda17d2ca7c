---------------------------- MODULE MCEventStream ----------------------------
(* Instances of EventStream for TLC. *)
EXTENDS EventStream

\* One event, two events, no limit at all, and none.
Limits == {-1, 0, 1, 2}
=============================================================================
