---------------------------- MODULE InstanceLife ----------------------------
(***************************************************************************)
(* What the backend's lifecycle takes an EC2 instance to be: it boots once,  *)
(* with one report at most, it is terminated once, and a call to terminate   *)
(* it that says it did is right.                                             *)
(***************************************************************************)
CONSTANT Callers

VARIABLES life,     \* of the instance
          verdict,  \* what each call to terminate it has answered
          posted    \* the reports of its bootstrap that reached the backend

vars == <<life, verdict, posted>>

Init ==
  /\ life = "booting"
  /\ verdict = [c \in Callers |-> "none"]
  /\ posted = {}

Boot ==
  /\ life = "booting"
  /\ life' = "booted"
  /\ posted' \in {{}, {"READY"}, {"FAILED"}}
  /\ UNCHANGED verdict

Terminate ==
  /\ life # "terminated"
  /\ life' = "terminated"
  /\ UNCHANGED <<verdict, posted>>

\* "not_found" also of an instance so young that EC2 does not show it yet, never of one that booted.
Answer(c) ==
  /\ verdict[c] = "none"
  /\ \/ verdict' = [verdict EXCEPT ![c] = "failed"]
     \/ life = "terminated" /\ verdict' = [verdict EXCEPT ![c] = "ok"]
     \/ life # "booted" /\ verdict' = [verdict EXCEPT ![c] = "not_found"]
  /\ UNCHANGED <<life, posted>>

Next == Boot \/ Terminate \/ \E c \in Callers : Answer(c)

Spec == Init /\ [][Next]_vars
=============================================================================
