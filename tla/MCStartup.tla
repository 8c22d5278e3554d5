----------------------------- MODULE MCStartup -----------------------------
(* Three servers of three releases and two configurations. *)
EXTENDS StartupProperties, TLC

CONSTANTS a, b, c, h1, h2

Files == (a :> 1) @@ (b :> 2) @@ (c :> 3)
Hashes == (a :> h1) @@ (b :> h1) @@ (c :> h2)
=============================================================================
