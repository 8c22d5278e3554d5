--------------------------- MODULE MCCliDevboxes ---------------------------
(* One create and one delete, and a second key that only a faulty create would draw. *)
EXTENDS CliDevboxProperties, TLC

CONSTANTS create, d1

OneKey == create :> d1
=============================================================================
