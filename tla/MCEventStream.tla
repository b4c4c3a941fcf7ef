--------------------------- MODULE MCEventStream ---------------------------
(* A list of two events over a buffer of three: both overflow. *)
EXTENDS EventStream
=============================================================================
