--------------------------- MODULE MCCliSessions ---------------------------
(* One start and one connect or shell, and a second key that only a faulty start would draw. *)
EXTENDS CliSessionProperties, TLC

CONSTANTS start, s1

OneKey == start :> s1
=============================================================================
