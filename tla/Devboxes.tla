------------------------------ MODULE Devboxes ------------------------------
(***************************************************************************)
(* The backend's devbox lifecycle: the devboxes table, the request handlers *)
(* that interleave at every await, the EC2 instances they launch and        *)
(* terminate, the bootstrap callbacks of those instances, the bootstrap     *)
(* deadline, and the loss and restart of the one server process.            *)
(*                                                                          *)
(* A devbox is named by its idempotency key.  An EC2 instance is named by   *)
(* the client token it was launched under: EC2 answers a repeated token     *)
(* with the instance it already has.  A create request whose body hash      *)
(* differs from the row's gets 409 and changes nothing; it is not modelled. *)
(***************************************************************************)
EXTENDS Naturals, Contracts

CONSTANTS Devboxes,     \* idempotency keys, hence devboxes
          Tokens,       \* EC2 client tokens (random UUIDs)
          Handlers,     \* requests the server can have in progress at once
          None,         \* SQL NULL
          FaultKinds,   \* the faults of this environment
          MaxFaults     \* how many faults there may be

AllFaultKinds ==
  {"launch_refused", "response_lost", "terminate_failed", "not_shown", "callback_lost", "crash"}

ASSUME NoneAssumption  == None \notin Devboxes \cup Tokens
ASSUME FaultAssumption == FaultKinds \subseteq AllFaultKinds /\ MaxFaults \in Nat

VARIABLES rows,       \* the devboxes table
          ec2,        \* what EC2 holds under each client token
          handlers,   \* what each request in progress will do next
          phase,      \* of the server process: down, reconciling, serving
          queue,      \* the devboxes startup reconciliation has still to visit
          inflight,   \* bootstrap callbacks sent and not yet received
          faults      \* faults so far

vars == <<rows, ec2, handlers, phase, queue, inflight, faults>>

\* "ABSENT": there is no row with this key yet.
RowStatus == DevboxStatus \cup {"ABSENT"}

NewRow(s, t) == [status |-> s, token |-> t, instance |-> None, overdue |-> FALSE]
NoRow == NewRow("ABSENT", None)

\* A handler between two awaits: its step, the devbox, the client token or
\* instance id in its hands, and the status it read or was asked to set.
HandlerPc == {"launch", "launch_failed", "transition", "save", "terminate", "mark_deleted"}

Task(pc, d, t, s) == [pc |-> pc, devbox |-> d, token |-> t, status |-> s]
Idle == Task("idle", None, None, "ABSENT")

Row == [status : RowStatus, token : Tokens \cup {None}, instance : Tokens \cup {None}, overdue : BOOLEAN]
Ec2Instance == [state : {"absent", "terminated"}, devbox : Devboxes \cup {None}]
               \cup [state : {"booting", "booted"}, devbox : Devboxes]
HandlerState ==
  {Idle} \cup [pc : HandlerPc, devbox : Devboxes, token : Tokens \cup {None}, status : RowStatus]

Init ==
  /\ rows = [d \in Devboxes |-> NoRow]
  /\ ec2 = [t \in Tokens |-> [state |-> "absent", devbox |-> None]]
  /\ handlers = [h \in Handlers |-> Idle]
  /\ phase = "down"
  /\ queue = {}
  /\ inflight = {}
  /\ faults = 0

Alive(t) == ec2[t].state \in {"booting", "booted"}

\* Another fault happens, if this environment still has one to give.
Fault(kind) ==
  /\ kind \in FaultKinds
  /\ faults < MaxFaults
  /\ faults' = faults + 1

At(h, pc) == handlers[h].pc = pc
Becomes(h, task) == handlers' = [handlers EXCEPT ![h] = task]
AllIdle == \A h \in Handlers : handlers[h] = Idle

(***************************************************************************)
(* Statements of the store.                                                 *)
(***************************************************************************)
InsertDevbox(d, t) == rows' = [rows EXCEPT ![d] = NewRow("PROVISIONING", t)]

SetStatus(d, from, to) ==
  rows' = IF rows[d].status \in from THEN [rows EXCEPT ![d].status = to] ELSE rows

\* Mutant: the UPDATE without its WHERE status = 'PROVISIONING'.
TransitionAnyStatus(d, to) == rows' = [rows EXCEPT ![d].status = to]

TransitionDevboxBootstrap(d, to) == SetStatus(d, {"PROVISIONING"}, to)
MarkDevboxDeleting(d) == SetStatus(d, {"PROVISIONING", "READY", "FAILED"}, "DELETING")
MarkDevboxDeleted(d)  == SetStatus(d, {"DELETING"}, "DELETED")

\* COALESCE keeps an instance id already there; the WHERE admits only the same one.
SaveAdmits(d, i) == rows[d].instance \in {None, i}
SaveDevboxLaunch(d, i) ==
  rows' = IF SaveAdmits(d, i) THEN [rows EXCEPT ![d].instance = i] ELSE rows

ExpireOverdueDevboxes ==
  rows' = [d \in Devboxes |->
             IF rows[d].status = "PROVISIONING" /\ rows[d].overdue
             THEN [rows[d] EXCEPT !.status = "FAILED"] ELSE rows[d]]

(***************************************************************************)
(* POST /devboxes: insert the row or find it, then launch if it has no      *)
(* instance.  The launch uses the client token of the row, not a new one.   *)
(***************************************************************************)
\* Mutant: launch under the client token generated for this request instead of the row's.
LaunchTaskNewToken(d, row) ==
  IF row.instance = None /\ row.status = "PROVISIONING"
  THEN Task("launch", d, CHOOSE t \in Tokens : ec2[t].state = "absent", "PROVISIONING")
  ELSE Idle

LaunchTask(d, row) ==
  IF row.instance = None /\ row.status = "PROVISIONING"
  THEN Task("launch", d, row.token, "PROVISIONING")
  ELSE Idle

\* randomUUID: a token that nothing has used.
Fresh(t) == ec2[t].state = "absent" /\ \A d \in Devboxes : rows[d].token # t

CreateDevbox(h, d) ==
  /\ phase = "serving" /\ handlers[h] = Idle
  /\ \/ /\ rows[d].status = "ABSENT"
        /\ \E t \in Tokens :
             /\ Fresh(t)
             /\ InsertDevbox(d, t)
             /\ Becomes(h, LaunchTask(d, rows'[d]))
     \/ /\ rows[d].status # "ABSENT"
        /\ Becomes(h, LaunchTask(d, rows[d]))
        /\ UNCHANGED rows
  /\ UNCHANGED <<ec2, phase, queue, inflight, faults>>

\* EC2: a client token launches one instance, however often it is presented.
Launched(t, d) ==
  IF ec2[t].state = "absent"
  THEN [ec2 EXCEPT ![t] = [state |-> "booting", devbox |-> d]]
  ELSE ec2

LaunchDevbox(h) ==
  /\ At(h, "launch")
  /\ ec2' = Launched(handlers[h].token, handlers[h].devbox)
  /\ Becomes(h, [handlers[h] EXCEPT !.pc = "save"])
  /\ UNCHANGED <<rows, phase, queue, inflight, faults>>

\* No capacity, a bad request, a lost connection before EC2 acted.
LaunchRefused(h) ==
  /\ At(h, "launch")
  /\ Fault("launch_refused")
  /\ Becomes(h, [handlers[h] EXCEPT !.pc = "launch_failed"])
  /\ UNCHANGED <<rows, ec2, phase, queue, inflight>>

\* EC2 launched, but the answer never came or did not parse.
LaunchAnswerLost(h) ==
  /\ At(h, "launch")
  /\ Fault("response_lost")
  /\ ec2' = Launched(handlers[h].token, handlers[h].devbox)
  /\ Becomes(h, [handlers[h] EXCEPT !.pc = "launch_failed"])
  /\ UNCHANGED <<rows, phase, queue, inflight>>

\* The catch block reads the row again and fails it only if still PROVISIONING.
ReadAfterFailedLaunch(h) ==
  /\ At(h, "launch_failed")
  /\ LET d == handlers[h].devbox IN
     Becomes(h, IF rows[d].status = "PROVISIONING" THEN Task("transition", d, None, "FAILED") ELSE Idle)
  /\ UNCHANGED <<rows, ec2, phase, queue, inflight, faults>>

\* The conditional UPDATE of a status read one await earlier.
ApplyTransition(h) ==
  /\ At(h, "transition")
  /\ TransitionDevboxBootstrap(handlers[h].devbox, handlers[h].status)
  /\ Becomes(h, Idle)
  /\ UNCHANGED <<ec2, phase, queue, inflight, faults>>

\* Mutant: only a deletion still in progress terminates the late launch.
AfterSaveDeletingOnly(d, t) ==
  IF SaveAdmits(d, t) /\ rows[d].status = "DELETING"
  THEN Task("terminate", d, t, "DELETING")
  ELSE Idle

\* What the launching handler does with the row its UPDATE returned.
AfterSave(d, t) ==
  IF SaveAdmits(d, t) /\ rows[d].status \in {"DELETING", "DELETED"}
  THEN Task("terminate", d, t, rows[d].status)
  ELSE Idle

SaveLaunch(h) ==
  /\ At(h, "save")
  /\ LET d == handlers[h].devbox
         t == handlers[h].token
     IN SaveDevboxLaunch(d, t) /\ Becomes(h, AfterSave(d, t))
  /\ UNCHANGED <<ec2, phase, queue, inflight, faults>>

(***************************************************************************)
(* DELETE /devboxes/:id, and the second half of a create that lost to it.   *)
(***************************************************************************)
DeletionTask(d, row) ==
  CASE row.status \in {"ABSENT", "DELETED"} -> Idle
    [] row.status \notin {"ABSENT", "DELETED"} /\ row.instance = None
         -> Task("mark_deleted", d, None, row.status)
    [] row.status \notin {"ABSENT", "DELETED"} /\ row.instance # None
         -> Task("terminate", d, row.instance, row.status)

DeleteDevbox(h, d) ==
  /\ phase = "serving" /\ handlers[h] = Idle
  /\ MarkDevboxDeleting(d)
  /\ Becomes(h, DeletionTask(d, rows'[d]))
  /\ UNCHANGED <<ec2, phase, queue, inflight, faults>>

Terminated(t) == [ec2 EXCEPT ![t].state = "terminated"]

\* A launch that found its row already DELETED marks nothing afterwards.
AfterTerminate(h) ==
  IF handlers[h].status = "DELETED" THEN Idle ELSE [handlers[h] EXCEPT !.pc = "mark_deleted"]

TerminateDevbox(h) ==
  /\ At(h, "terminate")
  /\ ec2' = Terminated(handlers[h].token)
  /\ Becomes(h, AfterTerminate(h))
  /\ UNCHANGED <<rows, phase, queue, inflight, faults>>

\* EC2 does not show yet what it has just launched: the describe finds nothing, which is taken
\* for success, and the instance is left alone.  One whose bootstrap ran has long been shown.
InstanceNotShown(h) ==
  /\ At(h, "terminate")
  /\ ec2[handlers[h].token].state = "booting"
  /\ Fault("not_shown")
  /\ Becomes(h, AfterTerminate(h))
  /\ UNCHANGED <<rows, ec2, phase, queue, inflight>>

\* Mutant: the error of a failed terminate is swallowed and the deletion goes on.
TerminateErrorSwallowed(h) ==
  /\ At(h, "terminate")
  /\ Fault("terminate_failed")
  /\ ec2' \in {ec2, Terminated(handlers[h].token)}
  /\ Becomes(h, [handlers[h] EXCEPT !.pc = "mark_deleted"])
  /\ UNCHANGED <<rows, phase, queue, inflight>>

\* The describe, the terminate or the polls after it failed: the instance may be gone or not.
TerminateFailed(h) ==
  /\ At(h, "terminate")
  /\ Fault("terminate_failed")
  /\ ec2' \in {ec2, Terminated(handlers[h].token)}
  /\ Becomes(h, Idle)
  /\ UNCHANGED <<rows, phase, queue, inflight>>

MarkDeleted(h) ==
  /\ At(h, "mark_deleted")
  /\ MarkDevboxDeleted(handlers[h].devbox)
  /\ Becomes(h, Idle)
  /\ UNCHANGED <<ec2, phase, queue, inflight, faults>>

(***************************************************************************)
(* The instance runs its bootstrap once and posts one callback, which may   *)
(* arrive late or never; the handler checks the row, then updates it.       *)
(***************************************************************************)
Bootstrap(t) ==
  /\ ec2[t].state = "booting"
  /\ ec2' = [ec2 EXCEPT ![t].state = "booted"]
  /\ \E outcome \in {"READY", "FAILED"} :
       inflight' = inflight \cup {[devbox |-> ec2[t].devbox, status |-> outcome]}
  /\ UNCHANGED <<rows, handlers, phase, queue, faults>>

UpdateDevboxStatus(h, m) ==
  /\ phase = "serving" /\ handlers[h] = Idle
  /\ m \in inflight
  /\ inflight' = inflight \ {m}
  /\ Becomes(h, IF rows[m.devbox].status = "PROVISIONING" /\ ~rows[m.devbox].overdue
                THEN Task("transition", m.devbox, None, m.status) ELSE Idle)
  /\ UNCHANGED <<rows, ec2, phase, queue, faults>>

CallbackLost(m) ==
  /\ m \in inflight
  /\ Fault("callback_lost")
  /\ inflight' = inflight \ {m}
  /\ UNCHANGED <<rows, ec2, handlers, phase, queue>>

DeadlinePasses(d) ==
  /\ rows[d].status = "PROVISIONING" /\ ~rows[d].overdue
  /\ rows' = [rows EXCEPT ![d].overdue = TRUE]
  /\ UNCHANGED <<ec2, handlers, phase, queue, inflight, faults>>

(***************************************************************************)
(* The process: it dies with everything in progress, and on the way up it   *)
(* expires, lists and reconciles before it listens.                         *)
(***************************************************************************)
\* Mutant: the list of a reconciliation survives the process that made it.
CrashKeepsList ==
  /\ phase # "down"
  /\ Fault("crash")
  /\ phase' = "down"
  /\ handlers' = [h \in Handlers |-> Idle]
  /\ UNCHANGED <<rows, ec2, queue, inflight>>

Crash ==
  /\ phase # "down"
  /\ Fault("crash")
  /\ phase' = "down"
  /\ handlers' = [h \in Handlers |-> Idle]
  /\ queue' = {}
  /\ UNCHANGED <<rows, ec2, inflight>>

\* Mutants: startup lists only one of the two statuses.
ReconcilableProvisioning == {"PROVISIONING"}
ReconcilableDeleting == {"DELETING"}

Reconcilable == {"PROVISIONING", "DELETING"}

Restart ==
  /\ phase = "down"
  /\ ExpireOverdueDevboxes
  /\ queue' = {d \in Devboxes : rows'[d].status \in Reconcilable}
  /\ phase' = "reconciling"
  /\ UNCHANGED <<ec2, handlers, inflight, faults>>

\* One record of the list.  An error in it is caught: the loop goes on when h is idle again.
ReconcileTask(d) ==
  IF rows[d].status = "DELETING" THEN DeletionTask(d, rows[d]) ELSE LaunchTask(d, rows[d])

ReconcileNext(h, d) ==
  /\ phase = "reconciling" /\ AllIdle
  /\ d \in queue
  /\ queue' = queue \ {d}
  /\ Becomes(h, ReconcileTask(d))
  /\ UNCHANGED <<rows, ec2, phase, inflight, faults>>

Listen ==
  /\ phase = "reconciling" /\ queue = {} /\ AllIdle
  /\ phase' = "serving"
  /\ UNCHANGED <<rows, ec2, handlers, queue, inflight, faults>>

HandlerStep(h) ==
  \/ LaunchDevbox(h) \/ LaunchRefused(h) \/ LaunchAnswerLost(h)
  \/ ReadAfterFailedLaunch(h) \/ ApplyTransition(h) \/ SaveLaunch(h)
  \/ TerminateDevbox(h) \/ InstanceNotShown(h) \/ TerminateFailed(h) \/ MarkDeleted(h)

StartUp == Restart \/ Listen \/ \E h \in Handlers, d \in Devboxes : ReconcileNext(h, d)

Next ==
  \/ StartUp \/ Crash
  \/ \E h \in Handlers : HandlerStep(h)
  \/ \E h \in Handlers, d \in Devboxes : CreateDevbox(h, d) \/ DeleteDevbox(h, d)
  \/ \E h \in Handlers, m \in inflight : UpdateDevboxStatus(h, m)
  \/ \E m \in inflight : CallbackLost(m)
  \/ \E t \in Tokens : Bootstrap(t)
  \/ \E d \in Devboxes : DeadlinePasses(d)

Spec == Init /\ [][Next]_vars

\* Every await of a handler ends (AWS calls and their polls are bounded, the database
\* answers or fails), and the platform restarts a dead server, which then works through
\* its list: as often as there are faults, if MaxFaults is at most the three retries of
\* railway.json.  Nobody promises that a user repeats a request or that a deadline is noticed.
Fairness == WF_vars(StartUp) /\ \A h \in Handlers : WF_vars(HandlerStep(h))

FairSpec == Spec /\ Fairness
=============================================================================
