------------------------- MODULE SessionProperties -------------------------
(***************************************************************************)
(* What the backend promises about sessions.                                *)
(***************************************************************************)
EXTENDS Sessions

Row == [status : RowStatus, devbox : Devboxes \cup {None}, overdue : BOOLEAN]

\* The two kinds of work a handler can hold: on a devbox, or on a session's callback.
CreateOrDelete == [pc : {"lock", "insert", "terminate"}, session : SessionKeys \cup {None},
                   devbox : Devboxes, status : {"ABSENT"}]
Transition == [pc : {"transition"}, session : SessionKeys, devbox : {None},
               status : {"RUNNING"} \cup Outcome]

\* The type invariant, with the fact that a dead process has nothing in progress (an
\* open transaction and its row locks end with the connection).
TypeOK ==
  /\ devboxes \in [Devboxes -> DevboxStatus]
  /\ sessions \in [SessionKeys -> Row]
  /\ agents \in [SessionKeys -> {"none", "RUNNING"} \cup Outcome]
  /\ handlers \in [Handlers -> {Idle} \cup CreateOrDelete \cup Transition]
  /\ \A h \in Handlers : handlers[h].pc \in {"lock", "insert"} => handlers[h].session # None
  /\ serving \in BOOLEAN
  /\ inflight \subseteq AnyCallback
  /\ faults \in 0..MaxFaults
  /\ ~serving => AllIdle

\* Callbacks arrive late and out of order, two are handled at once, expiry and deletion
\* write too, and each writes after a stale read; still every status of a session follows
\* from the one before by a move of the shared contract.
SessionStatuses == INSTANCE StatusMachine
  WITH Items <- SessionKeys, First <- "STARTING", Absent <- "ABSENT",
       Allowed <- IsSessionTransitionAllowed,
       status <- [s \in SessionKeys |-> sessions[s].status]

RefinesContract == SessionStatuses!Spec

\* A deleted devbox has no session that counts as active, whichever creations, callbacks
\* and deletions of it were in progress at once.
NoActiveSessionOnDeletedDevbox ==
  \A s \in SessionKeys :
    sessions[s].status \in ActiveSession => devboxes[sessions[s].devbox] # "DELETED"

\* A session comes into being only on a devbox that is READY at that very moment, although
\* the check and the insertion are two statements and a DELETE may come between them.
\* When the key was raced, the losing transaction changes nothing.
CreatedOnReadyDevbox ==
  [][\A s \in SessionKeys :
       sessions'[s].devbox # sessions[s].devbox
         => /\ sessions[s].status = "ABSENT"
            /\ devboxes[sessions'[s].devbox] = "READY"]_vars

\* A session reads SUCCEEDED only if its agent succeeded, and FAILED only if its agent
\* failed, its devbox was deleted, or its deadline passed.
OutcomeIsExplained ==
  \A s \in SessionKeys :
    /\ sessions[s].status = "SUCCEEDED" => agents[s] = "SUCCEEDED"
    /\ sessions[s].status = "FAILED" => \/ agents[s] = "FAILED"
                                        \/ devboxes[sessions[s].devbox] = "DELETED"
                                        \/ sessions[s].overdue

\* The outcome of s is on its way to the backend or is being handled there.
Reporting(s) ==
  \/ \E outcome \in Outcome : Callback(s, outcome) \in inflight
  \/ \E h \in Handlers : At(h, "transition") /\ handlers[h].session = s /\ handlers[h].status \in Outcome

\* An agent that has ended in time is reported unless another fault intervenes, whatever
\* happened to its RUNNING callback, which may be lost, come last or be handled at once.
OutcomeIsReported ==
  \A s \in SessionKeys, n \in 0..MaxFaults :
    Reporting(s) /\ faults = n
      ~> sessions[s].status \in TerminalSession \/ sessions[s].overdue \/ faults > n

\* What the supervisor's comment says: "a transient RUNNING callback failure is nonfatal".
\* A session whose agent started in time is not FAILED in the backend while that agent still
\* runs on a devbox nobody deletes, even when the RUNNING callback was lost.
RunningFailureIsNonfatal ==
  \A s \in SessionKeys :
    []( agents[s] = "RUNNING" /\ ~sessions[s].overdue /\ sessions[s].status = "STARTING"
          => []( sessions[s].status = "FAILED" /\ agents[s] = "RUNNING"
                   => \/ devboxes[sessions[s].devbox] # "READY"
                      \/ Callback(s, "RUNNING") \in inflight ) )
=============================================================================
