---------------------------- MODULE MCTuiSessions ----------------------------
(* Instances of TuiSessions for TLC. *)
EXTENDS TuiSessions
=============================================================================
