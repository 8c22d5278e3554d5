----------------------------- MODULE Contracts -----------------------------
(***************************************************************************)
(* The status values of a devbox and of a session, and the moves between   *)
(* them that the shared contract package allows (states.ts).  No code of   *)
(* the server consults these tables: the server's SQL guards are meant to  *)
(* imply them, which is what the refinements of this project check.        *)
(***************************************************************************)

DevboxStatus == {"PROVISIONING", "READY", "FAILED", "DELETING", "DELETED"}

SessionStatus == {"STARTING", "RUNNING", "SUCCEEDED", "FAILED"}

DevboxTransitions ==
  [from \in DevboxStatus |->
     CASE from = "PROVISIONING"        -> {"READY", "FAILED", "DELETING"}
       [] from \in {"READY", "FAILED"} -> {"DELETING"}
       [] from = "DELETING"            -> {"DELETED"}
       [] from = "DELETED"             -> {}]

SessionTransitions ==
  [from \in SessionStatus |->
     CASE from = "STARTING"               -> {"RUNNING", "SUCCEEDED", "FAILED"}
       [] from = "RUNNING"                -> {"SUCCEEDED", "FAILED"}
       [] from \in {"SUCCEEDED", "FAILED"} -> {}]

IsDevboxTransitionAllowed(from, to)  == from = to \/ to \in DevboxTransitions[from]
IsSessionTransitionAllowed(from, to) == from = to \/ to \in SessionTransitions[from]

\* The statuses no move leaves, and those in which a session still counts.
TerminalSession == {s \in SessionStatus : SessionTransitions[s] = {}}
ActiveSession   == SessionStatus \ TerminalSession
=============================================================================
