----------------------------- MODULE MCInstance -----------------------------
(* One instance on a small scale. *)
EXTENDS InstanceProperties
=============================================================================
