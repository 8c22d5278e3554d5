----------------------------- MODULE MCSessions -----------------------------
(* Sessions on small instances: one key that may be raced for two devboxes. *)
EXTENDS SessionProperties
=============================================================================
