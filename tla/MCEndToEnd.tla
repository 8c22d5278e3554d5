----------------------------- MODULE MCEndToEnd -----------------------------
(* One session end to end on small instances. *)
EXTENDS EndToEndProperties
=============================================================================
