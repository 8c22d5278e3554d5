--------------------------- MODULE AgentReports ----------------------------
(***************************************************************************)
(* What the backend may assume of the devbox it started a session on: the   *)
(* agent starts once and ends once, it cannot succeed without having         *)
(* started, and a status arrives only while it is the true one.  Reports may *)
(* never arrive, and (once Sessions holds them in flight) may come late.    *)
(***************************************************************************)
VARIABLES agent,    \* "none", "RUNNING", "SUCCEEDED" or "FAILED"
          reports   \* the statuses that have arrived

Init == agent = "none" /\ reports = {}

Starts == agent = "none" /\ agent' = "RUNNING" /\ UNCHANGED reports

Ends ==
  /\ \/ agent = "RUNNING" /\ agent' \in {"SUCCEEDED", "FAILED"}
     \/ agent = "none" /\ agent' = "FAILED"
  /\ UNCHANGED reports

Reported == agent # "none" /\ reports' = reports \cup {agent} /\ UNCHANGED agent

Next == Starts \/ Ends \/ Reported

Spec == Init /\ [][Next]_<<agent, reports>>
=============================================================================
