------------------------- MODULE DevboxProperties -------------------------
(***************************************************************************)
(* What the devbox lifecycle of the backend promises.                       *)
(***************************************************************************)
EXTENDS Devboxes

\* The type invariant, with the two facts that make a restart clean: a dead process has
\* nothing in progress and nothing to reconcile, and it listens only with an empty list.
TypeOK ==
  /\ rows \in [Devboxes -> Row]
  /\ ec2 \in [Tokens -> Ec2Instance]
  /\ handlers \in [Handlers -> HandlerState]
  /\ phase \in {"down", "reconciling", "serving"}
  /\ queue \subseteq Devboxes
  /\ inflight \subseteq [devbox : Devboxes, status : {"READY", "FAILED"}]
  /\ faults \in 0..MaxFaults
  /\ phase = "down" => AllIdle
  /\ phase # "reconciling" => queue = {}

\* Every status a devbox ever shows follows from the one before by a move of the shared
\* contract, although no code of the server asks that table and although launch failures,
\* late callbacks, deletions and expiry write the status after stale reads.
DevboxStatuses == INSTANCE StatusMachine
  WITH Items <- Devboxes, First <- "PROVISIONING", Absent <- "ABSENT",
       Allowed <- IsDevboxTransitionAllowed, status <- [d \in Devboxes |-> rows[d].status]

RefinesContract == DevboxStatuses!Spec

\* However often a create is replayed, by the CLI's retries, by concurrent requests or by
\* startup reconciliation, EC2 launches at most one instance for a devbox, and the id in
\* the row is that of an instance launched for this row.
OneInstancePerDevbox ==
  /\ \A t1, t2 \in Tokens :
       ec2[t1].state # "absent" /\ ec2[t2].state # "absent" /\ ec2[t1].devbox = ec2[t2].devbox
         => t1 = t2
  /\ \A d \in Devboxes :
       rows[d].instance # None => /\ ec2[rows[d].instance].state # "absent"
                                  /\ ec2[rows[d].instance].devbox = d

\* A handler that will still save or terminate this instance.
InHand(t) ==
  \E h \in Handlers : handlers[h].pc \in {"save", "terminate"} /\ handlers[h].token = t

\* So far no answer of EC2 has been lost, no terminate has failed or has not found what was
\* just launched, and no server has died.
Calm == faults = 0 \/ FaultKinds \cap {"response_lost", "terminate_failed", "not_shown", "crash"} = {}

\* While it is calm no instance outlives its devbox: when the row says DELETED the instance
\* is terminated, or the create handler that launched it still runs and terminates it.  This
\* is the race of DELETE with a RunInstances call in progress.
NoOrphanInstance ==
  Calm => \A t \in Tokens : Alive(t) /\ rows[ec2[t].devbox].status = "DELETED" => InHand(t)

BootedOnRecord(d, t) ==
  /\ rows[d].status \in {"PROVISIONING", "READY", "FAILED"}
  /\ rows[d].instance = t
  /\ ec2[t].state = "booted"

\* Under every fault: an instance that had booted, with its id in the row, while the devbox
\* was not being deleted is terminated by the time the devbox reads DELETED, whatever failed
\* or crashed in between and whoever resumed the deletion.  Of a younger one this is not so:
\* EC2 may not show it to the terminate, and the row is marked all the same.
SavedInstanceIsTerminated ==
  \A d \in Devboxes, t \in Tokens :
    [](BootedOnRecord(d, t) => [](rows[d].status = "DELETED" => ec2[t].state = "terminated"))

\* Somebody is at work on the deletion of d: a request, or a start of the server that lists it.
InDeletion(d) ==
  \/ \E h \in Handlers : handlers[h].devbox = d /\ handlers[h].pc \in {"terminate", "mark_deleted"}
  \/ phase = "down"
  \/ d \in queue

\* A deletion that is under way, or that a restart has to resume, is finished unless another
\* fault interrupts it: also after terminates have failed and servers have died half way.
DeletionCompletes ==
  \A d \in Devboxes, n \in 0..MaxFaults :
    rows[d].status = "DELETING" /\ InDeletion(d) /\ faults = n
      ~> rows[d].status = "DELETED" \/ faults > n

\* A devbox does not stay PROVISIONING without an instance: the launch is saved or failed
\* by its handler, or the next start of the server repeats or expires it.
LaunchSettles ==
  \A d \in Devboxes :
    rows[d].status = "PROVISIONING" /\ rows[d].instance = None
      ~> rows[d].status # "PROVISIONING" \/ rows[d].instance # None

\* What the startup test says ("completes interrupted deletion"): a server that listens and
\* has nothing in progress for a DELETED devbox has left no instance of it running.
DeletedLeavesNothingRunning ==
  \A t \in Tokens :
    /\ phase = "serving"
    /\ Alive(t)
    /\ \A h \in Handlers : handlers[h].devbox # ec2[t].devbox
    => rows[ec2[t].devbox].status # "DELETED"
=============================================================================
