--------------------------- MODULE MCRuntimeClient ---------------------------
(* Instances of RuntimeClient for TLC. *)
EXTENDS RuntimeClient
=============================================================================
