------------------------- MODULE InstanceProperties -------------------------
(***************************************************************************)
(* What terminateDevbox and the bootstrap of an instance promise.            *)
(***************************************************************************)
EXTENDS Instance

Finished == {"ok", "not_found", "failed"}

\* The type invariant, with what EC2's states imply: only a young instance is invisible, and
\* no poll loop goes below zero.
TypeOK ==
  /\ instance \in {"pending", "running", "stopped", "shutting-down", "terminated", "gone"}
  /\ visible \in BOOLEAN
  /\ attached \subseteq Volumes /\ disks \subseteq Volumes
  /\ callers \in [Callers -> [pc : {"idle", "terminate", "await_instance", "await_volumes"} \cup Finished,
                              seen : SUBSET Volumes, polls : 0..PollAttempts]]
  /\ boot \in [pc : {"prepare", "fetch", "verify", "setup", "post_ready", "post_failed", "ended"},
               fetched : SUBSET Commits, head : Commits \cup {NoCommit}, setup : BOOLEAN]
  /\ branch \subseteq Commits
  /\ posts \subseteq {"READY", "FAILED"}
  /\ faults \in 0..MaxFaults
  /\ ~visible => instance = "pending"

\* terminateDevbox says it is done only of an instance that is terminated, although
\* TerminateInstances answers long before and another call may be at the same instance.  The
\* early return for an instance EC2 does not find is the answer "not_found", not this one.
SuccessMeansTerminated ==
  \A c \in Callers : callers[c].pc = "ok" => instance \in {"terminated", "gone"}

\* Of the volumes the first describe listed at least one is gone by then: for the one root
\* volume a launch asks for, that is all of them.
SeenVolumeIsGone ==
  \A c \in Callers :
    callers[c].pc = "ok" /\ callers[c].seen # {} => ~(callers[c].seen \subseteq disks)

\* READY is reported only of the requested commit, fetched from the requested branch as it
\* was then and set up, however the branch moves meanwhile, and never along with FAILED.
ReadyIsEarned ==
  "READY" \in posts =>
    /\ boot.head = Wanted /\ Wanted \in boot.fetched /\ boot.setup
    /\ "FAILED" \notin posts

\* The steps of EC2, of terminateDevbox and of the bootstrap add up to the instance the
\* backend's lifecycle reckons with.
Life == INSTANCE InstanceLife
  WITH life <- IF instance \in {"terminated", "gone"} THEN "terminated"
               ELSE IF boot.pc = "ended" THEN "booted" ELSE "booting",
       verdict <- [c \in Callers |-> IF callers[c].pc \in Finished THEN callers[c].pc ELSE "none"],
       posted <- posts

RefinesLife == Life!Spec

\* A call of terminateDevbox ends, in success or in an error, even if EC2 never finishes.
CallEnds ==
  \A c \in Callers : callers[c].pc # "idle" ~> callers[c].pc \in Finished

\* Whoever waits for the instance has seen to it that it ends, also when the call gives up
\* or loses its patience first.
AwaitedIsTerminated ==
  \A c \in Callers : callers[c].pc = "await_instance" ~> instance \in {"terminated", "gone"}
=============================================================================
