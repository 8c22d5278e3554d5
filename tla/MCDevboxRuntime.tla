-------------------------- MODULE MCDevboxRuntime --------------------------
(* The runtime on small instances. *)
EXTENDS RuntimeProperties
=============================================================================
