----------------------------- MODULE MCDevboxes -----------------------------
(* Devboxes on small instances. *)
EXTENDS DevboxProperties
=============================================================================
