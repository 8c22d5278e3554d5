------------------------------ MODULE Instance ------------------------------
(***************************************************************************)
(* One EC2 instance from RunInstances to the end of its volumes: EC2 itself, *)
(* the user data and the bootstrap that run on it, the remote branch that    *)
(* moves while they do, and the calls of terminateDevbox that describe it,   *)
(* terminate it and poll until it and its volumes are gone.                  *)
(***************************************************************************)
EXTENDS Naturals

CONSTANTS Callers,       \* calls of terminateDevbox for this instance
          Volumes,       \* its EBS volumes; a launch asks for one
          Commits,       \* what the remote branch can hold
          Wanted,        \* the commit of the create request
          PollAttempts,  \* terminationPollAttempts and volumePollAttempts (120)
          FaultKinds,    \* the faults of this environment
          MaxFaults      \* how many faults there may be

ASSUME WantedAssumption == Wanted \in Commits
ASSUME PollAssumption   == PollAttempts \in Nat
ASSUME FaultAssumption  == MaxFaults \in Nat

VARIABLES instance,  \* its state in EC2; "gone" when EC2 has forgotten it
          visible,   \* DescribeInstances has caught up with RunInstances
          attached,  \* the volumes DescribeInstances lists
          disks,     \* the volumes that exist
          callers,   \* where each terminateDevbox is, the volumes it saw, its polls left
          boot,      \* where user data and bootstrap are, what was fetched, checked out, set up
          branch,    \* the commits reachable from the requested branch
          posts,     \* bootstrap reports that reached the backend
          faults     \* faults so far

bootVars == <<boot, branch, posts>>
ec2Vars == <<instance, visible, attached, disks>>
vars == <<ec2Vars, callers, bootVars, faults>>

NoCommit == "no commit"

Init ==
  /\ instance = "pending" /\ visible = FALSE
  /\ attached = {} /\ disks = Volumes
  /\ callers = [c \in Callers |-> [pc |-> "idle", seen |-> {}, polls |-> 0]]
  /\ boot = [pc |-> "prepare", fetched |-> {}, head |-> NoCommit, setup |-> FALSE]
  /\ branch = {Wanted}
  /\ posts = {}
  /\ faults = 0

\* Another fault happens, if this environment still has one to give.
Fault(kind) ==
  /\ kind \in FaultKinds
  /\ faults < MaxFaults
  /\ faults' = faults + 1

(***************************************************************************)
(* EC2.                                                                      *)
(***************************************************************************)
Appears ==
  /\ ~visible
  /\ visible' = TRUE
  /\ attached' \in {{}, Volumes}
  /\ UNCHANGED <<instance, disks, callers, bootVars, faults>>

\* An assumption about EC2: an instance that runs is shown by its describe.
Starts ==
  /\ instance = "pending" /\ visible
  /\ instance' = "running"
  /\ attached' = Volumes
  /\ UNCHANGED <<visible, disks, callers, bootVars, faults>>

\* A shutdown from inside: the launch leaves the default, which stops the instance.
Stops ==
  /\ instance = "running"
  /\ Fault("stopped")
  /\ instance' = "stopped"
  /\ UNCHANGED <<visible, attached, disks, callers, bootVars>>

Dies ==
  /\ instance = "shutting-down"
  /\ instance' = "terminated"
  /\ attached' = {}
  /\ UNCHANGED <<visible, disks, callers, bootVars, faults>>

DiskDeleted(v) ==
  /\ instance \in {"terminated", "gone"} /\ v \in disks
  /\ disks' = disks \ {v}
  /\ UNCHANGED <<instance, visible, attached, callers, bootVars, faults>>

Forgotten ==
  /\ instance = "terminated"
  /\ instance' = "gone"
  /\ UNCHANGED <<visible, attached, disks, callers, bootVars, faults>>

(***************************************************************************)
(* terminateDevbox.                                                          *)
(***************************************************************************)
At(c, pc) == callers[c].pc = pc
Becomes(c, caller) == callers' = [callers EXCEPT ![c] = caller]
Goes(c, pc) == Becomes(c, [callers[c] EXCEPT !.pc = pc])

Found == visible /\ instance # "gone"
Terminal == {"terminated"}
Terminating == {"shutting-down", "terminated"}

\* Mutant: anything that is not running is taken to be on its way out.
NeedsTerminateRunning == instance = "running"

NeedsTerminate == instance \notin Terminating

DescribeBeforeTerminate(c) ==
  /\ At(c, "idle")
  /\ \/ ~Found /\ Goes(c, "not_found")
     \/ /\ Found
        /\ Becomes(c, [pc |-> IF NeedsTerminate THEN "terminate" ELSE "await_instance",
                       seen |-> attached, polls |-> PollAttempts])
  /\ UNCHANGED <<ec2Vars, bootVars, faults>>

TerminateInstances ==
  instance' = IF instance \in {"pending", "running", "stopped"} THEN "shutting-down" ELSE instance

Terminate(c) ==
  /\ At(c, "terminate") /\ instance # "gone"
  /\ TerminateInstances
  /\ Goes(c, "await_instance")
  /\ UNCHANGED <<visible, attached, disks, bootVars, faults>>

\* TerminateInstances of an instance that another call has ended is an error.
TerminateTooLate(c) ==
  /\ At(c, "terminate") /\ instance = "gone"
  /\ Goes(c, "failed")
  /\ UNCHANGED <<ec2Vars, bootVars, faults>>

\* Mutant: the volumes are not awaited.
AfterInstanceNoVolumes(c) == [callers[c] EXCEPT !.pc = "ok"]

AfterInstance(c) ==
  IF callers[c].seen = {}
  THEN [callers[c] EXCEPT !.pc = "ok"]
  ELSE [callers[c] EXCEPT !.pc = "await_volumes", !.polls = PollAttempts]

PollInstance(c) ==
  /\ At(c, "await_instance") /\ callers[c].polls > 0
  /\ Becomes(c, IF ~Found \/ instance \in Terminal THEN AfterInstance(c)
                ELSE [callers[c] EXCEPT !.polls = @ - 1])
  /\ UNCHANGED <<ec2Vars, bootVars, faults>>

\* Mutant: the attempts are not counted.
PollVolumesUncounted(c) ==
  /\ At(c, "await_volumes")
  /\ Becomes(c, IF callers[c].seen \subseteq disks THEN callers[c] ELSE [callers[c] EXCEPT !.pc = "ok"])
  /\ UNCHANGED <<ec2Vars, bootVars, faults>>

\* EC2 answers InvalidVolume.NotFound for the whole list when one volume of it is gone.
PollVolumes(c) ==
  /\ At(c, "await_volumes") /\ callers[c].polls > 0
  /\ Becomes(c, IF callers[c].seen \subseteq disks
                THEN [callers[c] EXCEPT !.polls = @ - 1]
                ELSE [callers[c] EXCEPT !.pc = "ok"])
  /\ UNCHANGED <<ec2Vars, bootVars, faults>>

PollsExhausted(c) ==
  /\ callers[c].pc \in {"await_instance", "await_volumes"} /\ callers[c].polls = 0
  /\ Goes(c, "failed")
  /\ UNCHANGED <<ec2Vars, bootVars, faults>>

\* A call fails, or its answer does; only TerminateInstances may have had its effect.
CallFailed(c) ==
  /\ callers[c].pc \in {"idle", "terminate", "await_instance", "await_volumes"}
  /\ Fault("call_failed")
  /\ Goes(c, "failed")
  /\ UNCHANGED instance \/ (At(c, "terminate") /\ TerminateInstances)
  /\ UNCHANGED <<visible, attached, disks, bootVars>>

(***************************************************************************)
(* User data and bootstrap, while the instance is up.                        *)
(***************************************************************************)
BootAt(pc) == boot.pc = pc /\ instance \in {"running", "shutting-down"}
BootGoes(pc) == boot' = [boot EXCEPT !.pc = pc]
BootOnly == UNCHANGED <<ec2Vars, callers>>

\* Packages, the artifact and its checksum.  set -e: a failure here reports nothing.
Prepare ==
  /\ BootAt("prepare") /\ BootGoes("fetch")
  /\ BootOnly /\ UNCHANGED <<branch, posts, faults>>

PrepareFails ==
  /\ BootAt("prepare") /\ Fault("prepare_failed") /\ BootGoes("ended")
  /\ BootOnly /\ UNCHANGED <<branch, posts>>

Fetch ==
  /\ BootAt("fetch")
  /\ boot' = [boot EXCEPT !.fetched = branch, !.pc = IF branch = {} THEN "post_failed" ELSE "verify"]
  /\ BootOnly /\ UNCHANGED <<branch, posts, faults>>

\* merge-base --is-ancestor, then the checkout and the comparison of HEAD with the request.
CheckOut ==
  /\ BootAt("verify")
  /\ boot' = IF Wanted \in boot.fetched
             THEN [boot EXCEPT !.head = Wanted, !.pc = "setup"]
             ELSE [boot EXCEPT !.pc = "post_failed"]
  /\ BootOnly /\ UNCHANGED <<branch, posts, faults>>

RunSetupCommand ==
  /\ BootAt("setup")
  /\ boot' = [boot EXCEPT !.setup = TRUE, !.pc = "post_ready"]
  /\ BootOnly /\ UNCHANGED <<branch, posts, faults>>

\* Mutant: the exit code of the setup command is not looked at.
StepFailsExceptSetup ==
  /\ boot.pc \in {"fetch", "verify", "setup"} /\ BootAt(boot.pc)
  /\ Fault("step_failed")
  /\ BootGoes(IF boot.pc = "setup" THEN "post_ready" ELSE "post_failed")
  /\ BootOnly /\ UNCHANGED <<branch, posts>>

StepFails ==
  /\ boot.pc \in {"fetch", "verify", "setup"} /\ BootAt(boot.pc)
  /\ Fault("step_failed")
  /\ BootGoes("post_failed")
  /\ BootOnly /\ UNCHANGED <<branch, posts>>

\* Mutant: READY is posted inside the try, so a lost answer is reported as FAILED too.
PostReadyInsideTry ==
  /\ BootAt("post_ready")
  /\ posts' = posts \cup {"READY"}
  /\ BootGoes("ended") \/ BootGoes("post_failed")
  /\ BootOnly /\ UNCHANGED <<branch, faults>>

\* One request, never repeated; whether its answer comes back makes no difference here.
PostReady ==
  /\ BootAt("post_ready")
  /\ posts' = posts \cup {"READY"}
  /\ BootGoes("ended")
  /\ BootOnly /\ UNCHANGED <<branch, faults>>

PostFailed ==
  /\ BootAt("post_failed")
  /\ posts' = posts \cup {"FAILED"}
  /\ BootGoes("ended")
  /\ BootOnly /\ UNCHANGED <<branch, faults>>

PostLost ==
  /\ boot.pc \in {"post_ready", "post_failed"} /\ BootAt(boot.pc)
  /\ Fault("callback_lost")
  /\ BootGoes("ended")
  /\ BootOnly /\ UNCHANGED <<branch, posts>>

\* Pushes, forced ones and the deletion of the branch, while it still matters.
Push ==
  /\ boot.pc \in {"prepare", "fetch"}
  /\ Fault("pushed")
  /\ branch' \in SUBSET Commits
  /\ UNCHANGED <<ec2Vars, callers, boot, posts>>

Ec2 == Appears \/ Starts \/ Dies \/ Forgotten \/ \E v \in Volumes : DiskDeleted(v)

TerminateDevbox(c) ==
  \/ Terminate(c) \/ TerminateTooLate(c)
  \/ PollInstance(c) \/ PollVolumes(c) \/ PollsExhausted(c)

BootstrapStep ==
  Prepare \/ Fetch \/ CheckOut \/ RunSetupCommand \/ PostReady \/ PostFailed

Next ==
  \/ Ec2 \/ Stops
  \/ \E c \in Callers : DescribeBeforeTerminate(c) \/ TerminateDevbox(c) \/ CallFailed(c)
  \/ BootstrapStep \/ PrepareFails \/ StepFails \/ PostLost \/ Push

Spec == Init /\ [][Next]_vars

\* EC2 gets on with what it was told, and a call in progress is answered and polls again.
\* Nobody promises that terminateDevbox is called, or that an instance boots to the end.
Fairness ==
  /\ WF_vars(Dies)
  /\ \A c \in Callers : WF_vars(TerminateDevbox(c))

FairSpec == Spec /\ Fairness
=============================================================================
