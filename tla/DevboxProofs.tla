---------------------------- MODULE DevboxProofs ----------------------------
(***************************************************************************)
(* Theorems about Devboxes, for any number of devboxes, tokens, requests    *)
(* and faults.                                                              *)
(***************************************************************************)
EXTENDS DevboxProperties, TLAPS

\* A task at a step of its own, built from values of the right kinds, is a handler state.
LEMMA TaskType ==
  ASSUME NEW pc \in HandlerPc, NEW d \in Devboxes,
         NEW t \in Tokens \cup {None}, NEW s \in RowStatus
  PROVE  Task(pc, d, t, s) \in HandlerState
BY DEF Task, HandlerState

\* A handler at a step has a devbox and a process to run in.
LEMMA AtWork ==
  ASSUME TypeOK, NEW h \in Handlers, NEW pc \in HandlerPc, At(h, pc)
  PROVE  /\ handlers[h] \in [pc : HandlerPc, devbox : Devboxes,
                             token : Tokens \cup {None}, status : RowStatus]
         /\ handlers[h].devbox \in Devboxes
         /\ handlers[h].token \in Tokens \cup {None}
         /\ handlers[h].status \in RowStatus
         /\ handlers[h] # Idle
         /\ phase # "down"
<1>1. handlers[h] \in HandlerState
  BY DEF TypeOK
<1>2. handlers[h] # Idle
  BY DEF At, Idle, Task, HandlerPc
<1>3. handlers[h] \in [pc : HandlerPc, devbox : Devboxes,
                       token : Tokens \cup {None}, status : RowStatus]
  BY <1>1, <1>2 DEF HandlerState
<1>4. phase # "down"
  BY <1>2 DEF TypeOK, AllIdle
<1>5. QED BY <1>2, <1>3, <1>4

\* What a handler turns to after reading a row is a handler state.
LEMMA NextTaskType ==
  ASSUME NEW d \in Devboxes, NEW row \in Row
  PROVE  LaunchTask(d, row) \in HandlerState /\ DeletionTask(d, row) \in HandlerState
<1>1. row.token \in Tokens \cup {None} /\ row.instance \in Tokens \cup {None}
  BY DEF Row
<1>2. {"launch", "terminate", "mark_deleted"} \subseteq HandlerPc
      /\ {"PROVISIONING", "DELETING"} \subseteq RowStatus
      /\ Idle \in HandlerState
  BY DEF HandlerPc, RowStatus, DevboxStatus, HandlerState
<1>3. LaunchTask(d, row) \in HandlerState
  BY <1>1, <1>2, TaskType DEF LaunchTask
<1>4. DeletionTask(d, row) \in HandlerState
  <2>1. CASE row.status \in {"ABSENT", "DELETED"}
    BY <2>1, <1>2 DEF DeletionTask
  <2>2. CASE row.status \notin {"ABSENT", "DELETED"}
    BY <2>2, <1>1, <1>2, TaskType DEF DeletionTask, Row
  <2>3. QED BY <2>1, <2>2
<1>5. QED BY <1>3, <1>4

\* Every statement of the store leaves a well-formed table.
LEMMA StoreType ==
  ASSUME rows \in [Devboxes -> Row], NEW d \in Devboxes
  PROVE  /\ \A t \in Tokens : InsertDevbox(d, t) => rows' \in [Devboxes -> Row]
         /\ \A to \in RowStatus : TransitionDevboxBootstrap(d, to) => rows' \in [Devboxes -> Row]
         /\ MarkDevboxDeleting(d) => rows' \in [Devboxes -> Row]
         /\ MarkDevboxDeleted(d) => rows' \in [Devboxes -> Row]
         /\ \A t \in Tokens \cup {None} : SaveDevboxLaunch(d, t) => rows' \in [Devboxes -> Row]
<1> USE DEF Row, RowStatus, DevboxStatus
<1>1. \A t \in Tokens : InsertDevbox(d, t) => rows' \in [Devboxes -> Row]
  BY DEF InsertDevbox, NewRow
<1>2. \A from : \A to \in RowStatus : SetStatus(d, from, to) => rows' \in [Devboxes -> Row]
  BY DEF SetStatus
<1>3. \A to \in RowStatus : TransitionDevboxBootstrap(d, to) => rows' \in [Devboxes -> Row]
  BY <1>2 DEF TransitionDevboxBootstrap
<1>4. MarkDevboxDeleting(d) => rows' \in [Devboxes -> Row]
  BY <1>2 DEF MarkDevboxDeleting
<1>5. MarkDevboxDeleted(d) => rows' \in [Devboxes -> Row]
  BY <1>2 DEF MarkDevboxDeleted
<1>6. \A t \in Tokens \cup {None} : SaveDevboxLaunch(d, t) => rows' \in [Devboxes -> Row]
  BY DEF SaveDevboxLaunch
<1>7. QED BY <1>1, <1>3, <1>4, <1>5, <1>6

\* So does the expiry at startup.
LEMMA ExpiryType ==
  ASSUME rows \in [Devboxes -> Row], ExpireOverdueDevboxes
  PROVE  rows' \in [Devboxes -> Row]
BY DEF ExpireOverdueDevboxes, Row, RowStatus, DevboxStatus

\* EC2's two reactions leave well-formed instances.
LEMMA Ec2Type ==
  ASSUME ec2 \in [Tokens -> Ec2Instance], NEW t, NEW d \in Devboxes
  PROVE  Launched(t, d) \in [Tokens -> Ec2Instance] /\ Terminated(t) \in [Tokens -> Ec2Instance]
BY DEF Launched, Terminated, Ec2Instance

\* The handler part of an action: one handler gets a well-formed state.
LEMMA BecomesType ==
  ASSUME handlers \in [Handlers -> HandlerState], NEW h \in Handlers,
         NEW w \in HandlerState, Becomes(h, w)
  PROVE  handlers' \in [Handlers -> HandlerState]
BY DEF Becomes

\* A fault is counted, within the bound.
LEMMA FaultType ==
  ASSUME faults \in 0..MaxFaults, NEW kind, Fault(kind)
  PROVE  faults' \in 0..MaxFaults
BY FaultAssumption DEF Fault

\* A handler that moves in a live process keeps the type invariant if what it writes is typed.
LEMMA MoveType ==
  ASSUME TypeOK, NEW h \in Handlers, NEW w \in HandlerState, Becomes(h, w), phase # "down",
         rows' \in [Devboxes -> Row], ec2' \in [Tokens -> Ec2Instance],
         UNCHANGED <<phase, queue>>, inflight' \subseteq inflight, faults' \in 0..MaxFaults
  PROVE  TypeOK'
BY BecomesType DEF TypeOK

\* One step of a handler at work keeps the types.
LEMMA HandlerStepType ==
  ASSUME TypeOK, NEW h \in Handlers, HandlerStep(h)
  PROVE  TypeOK'
<1> DEFINE d == handlers[h].devbox
           t == handlers[h].token
<1>0. /\ rows \in [Devboxes -> Row] /\ ec2 \in [Tokens -> Ec2Instance] /\ faults \in 0..MaxFaults
      /\ {"save", "launch_failed", "transition", "terminate", "mark_deleted"} \subseteq HandlerPc
      /\ {"PROVISIONING", "FAILED", "DELETED", "DELETING", "ABSENT"} \subseteq RowStatus
      /\ Idle \in HandlerState
  BY DEF TypeOK, HandlerPc, RowStatus, DevboxStatus, HandlerState
<1>1. CASE LaunchDevbox(h)
  <2>1. At(h, "launch") /\ "launch" \in HandlerPc
    BY <1>1 DEF LaunchDevbox, HandlerPc
  <2>2. [handlers[h] EXCEPT !.pc = "save"] \in HandlerState
    BY <2>1, <1>0, AtWork DEF HandlerState
  <2>3. ec2' \in [Tokens -> Ec2Instance]
    BY <2>1, <1>0, <1>1, AtWork, Ec2Type DEF LaunchDevbox
  <2>4. QED BY <2>1, <2>2, <2>3, <1>0, <1>1, AtWork, MoveType DEF LaunchDevbox
<1>2. CASE LaunchRefused(h)
  <2>1. At(h, "launch") /\ "launch" \in HandlerPc
    BY <1>2 DEF LaunchRefused, HandlerPc
  <2>2. [handlers[h] EXCEPT !.pc = "launch_failed"] \in HandlerState
    BY <2>1, <1>0, AtWork DEF HandlerState
  <2>3. QED BY <2>1, <2>2, <1>0, <1>2, AtWork, MoveType, FaultType DEF LaunchRefused
<1>3. CASE LaunchAnswerLost(h)
  <2>1. At(h, "launch") /\ "launch" \in HandlerPc
    BY <1>3 DEF LaunchAnswerLost, HandlerPc
  <2>2. [handlers[h] EXCEPT !.pc = "launch_failed"] \in HandlerState
    BY <2>1, <1>0, AtWork DEF HandlerState
  <2>3. ec2' \in [Tokens -> Ec2Instance]
    BY <2>1, <1>0, <1>3, AtWork, Ec2Type DEF LaunchAnswerLost
  <2>4. QED BY <2>1, <2>2, <2>3, <1>0, <1>3, AtWork, MoveType, FaultType DEF LaunchAnswerLost
<1>4. CASE ReadAfterFailedLaunch(h)
  <2>1. At(h, "launch_failed") /\ "launch_failed" \in HandlerPc
    BY <1>4 DEF ReadAfterFailedLaunch, HandlerPc
  <2>2. Task("transition", d, None, "FAILED") \in HandlerState
    BY <2>1, <1>0, AtWork, TaskType
  <2>3. QED BY <2>1, <2>2, <1>0, <1>4, AtWork, MoveType DEF ReadAfterFailedLaunch
<1>5. CASE ApplyTransition(h)
  <2>1. At(h, "transition") /\ "transition" \in HandlerPc
    BY <1>5 DEF ApplyTransition, HandlerPc
  <2>2. rows' \in [Devboxes -> Row]
    BY <2>1, <1>0, <1>5, AtWork, StoreType DEF ApplyTransition
  <2>3. QED BY <2>1, <2>2, <1>0, <1>5, AtWork, MoveType DEF ApplyTransition
<1>6. CASE SaveLaunch(h)
  <2>1. At(h, "save") /\ "save" \in HandlerPc
    BY <1>6 DEF SaveLaunch, HandlerPc
  <2>2. rows' \in [Devboxes -> Row]
    BY <2>1, <1>0, <1>6, AtWork, StoreType DEF SaveLaunch
  <2>3. AfterSave(d, t) \in HandlerState
    BY <2>1, <1>0, AtWork, TaskType DEF AfterSave
  <2>4. QED BY <2>1, <2>2, <2>3, <1>0, <1>6, AtWork, MoveType DEF SaveLaunch
<1>7. CASE TerminateDevbox(h) \/ InstanceNotShown(h)
  <2>1. At(h, "terminate") /\ "terminate" \in HandlerPc
    BY <1>7 DEF TerminateDevbox, InstanceNotShown, HandlerPc
  <2>2. AfterTerminate(h) \in HandlerState
    BY <2>1, <1>0, AtWork DEF HandlerState, AfterTerminate
  <2>3. ec2' \in [Tokens -> Ec2Instance]
    BY <2>1, <1>0, <1>7, AtWork, Ec2Type DEF TerminateDevbox, InstanceNotShown
  <2>4. CASE TerminateDevbox(h)
    BY <2>1, <2>2, <2>3, <2>4, <1>0, AtWork, MoveType DEF TerminateDevbox
  <2>5. CASE InstanceNotShown(h)
    BY <2>1, <2>2, <2>3, <2>5, <1>0, AtWork, MoveType, FaultType DEF InstanceNotShown
  <2>6. QED BY <1>7, <2>4, <2>5
<1>8. CASE TerminateFailed(h)
  <2>1. At(h, "terminate") /\ "terminate" \in HandlerPc
    BY <1>8 DEF TerminateFailed, HandlerPc
  <2>2. ec2' \in [Tokens -> Ec2Instance]
    BY <2>1, <1>0, <1>8, AtWork, Ec2Type DEF TerminateFailed
  <2>3. QED BY <2>1, <2>2, <1>0, <1>8, AtWork, MoveType, FaultType DEF TerminateFailed
<1>9. CASE MarkDeleted(h)
  <2>1. At(h, "mark_deleted") /\ "mark_deleted" \in HandlerPc
    BY <1>9 DEF MarkDeleted, HandlerPc
  <2>2. rows' \in [Devboxes -> Row]
    BY <2>1, <1>0, <1>9, AtWork, StoreType DEF MarkDeleted
  <2>3. QED BY <2>1, <2>2, <1>0, <1>9, AtWork, MoveType DEF MarkDeleted
<1>10. QED
  BY <1>1, <1>2, <1>3, <1>4, <1>5, <1>6, <1>7, <1>8, <1>9 DEF HandlerStep

\* A request or a callback that arrives keeps the types.
LEMMA RequestType ==
  ASSUME TypeOK, NEW h \in Handlers,
         \/ \E d \in Devboxes : CreateDevbox(h, d) \/ DeleteDevbox(h, d)
         \/ \E m \in inflight : UpdateDevboxStatus(h, m)
  PROVE  TypeOK'
<1>0. rows \in [Devboxes -> Row] /\ ec2 \in [Tokens -> Ec2Instance] /\ faults \in 0..MaxFaults
  BY DEF TypeOK
<1>1. ASSUME NEW d \in Devboxes, CreateDevbox(h, d) PROVE TypeOK'
  <2>1. rows' \in [Devboxes -> Row]
    BY <1>0, <1>1, StoreType DEF CreateDevbox
  <2>2. LaunchTask(d, rows'[d]) \in HandlerState /\ LaunchTask(d, rows[d]) \in HandlerState
    BY <1>0, <2>1, NextTaskType
  <2>3. QED BY <2>1, <2>2, <1>0, <1>1, MoveType DEF CreateDevbox
<1>2. ASSUME NEW d \in Devboxes, DeleteDevbox(h, d) PROVE TypeOK'
  <2>1. rows' \in [Devboxes -> Row]
    BY <1>0, <1>2, StoreType DEF DeleteDevbox
  <2>2. DeletionTask(d, rows'[d]) \in HandlerState
    BY <2>1, NextTaskType
  <2>3. QED BY <2>1, <2>2, <1>0, <1>2, MoveType DEF DeleteDevbox
<1>3. ASSUME NEW m \in inflight, UpdateDevboxStatus(h, m) PROVE TypeOK'
  <2>1. m.devbox \in Devboxes /\ m.status \in RowStatus
    BY DEF TypeOK, RowStatus, DevboxStatus
  <2>2. Task("transition", m.devbox, None, m.status) \in HandlerState /\ Idle \in HandlerState
    BY <2>1, TaskType DEF HandlerPc, HandlerState
  <2>3. inflight' \subseteq inflight
    BY <1>3 DEF UpdateDevboxStatus
  <2>4. QED BY <2>2, <2>3, <1>0, <1>3, MoveType DEF UpdateDevboxStatus
<1>4. QED BY <1>1, <1>2, <1>3

\* So does everything the process does on its way down and up.
LEMMA ProcessType ==
  ASSUME TypeOK, StartUp \/ Crash
  PROVE  TypeOK'
<1>0. rows \in [Devboxes -> Row] /\ ec2 \in [Tokens -> Ec2Instance] /\ faults \in 0..MaxFaults
      /\ Idle \in HandlerState
  BY DEF TypeOK, HandlerState
<1>1. CASE Restart
  BY <1>1, <1>0, ExpiryType DEF Restart, TypeOK
<1>2. CASE Listen
  BY <1>2 DEF Listen, TypeOK
<1>3. ASSUME NEW h \in Handlers, NEW d \in Devboxes, ReconcileNext(h, d) PROVE TypeOK'
  <2>1. ReconcileTask(d) \in HandlerState
    BY <1>0, NextTaskType DEF ReconcileTask
  <2>2. handlers' \in [Handlers -> HandlerState]
    BY <2>1, <1>3, BecomesType DEF ReconcileNext, TypeOK
  <2>3. QED BY <2>2, <1>3 DEF ReconcileNext, TypeOK
<1>4. CASE Crash
  <2>1. faults' \in 0..MaxFaults
    BY <1>0, <1>4, FaultType DEF Crash
  <2>2. QED BY <2>1, <1>0, <1>4 DEF Crash, TypeOK, AllIdle
<1>5. QED BY <1>1, <1>2, <1>3, <1>4 DEF StartUp

\* And everything that happens outside it.
LEMMA OutsideType ==
  ASSUME TypeOK,
         \/ \E m \in inflight : CallbackLost(m)
         \/ \E t \in Tokens : Bootstrap(t)
         \/ \E d \in Devboxes : DeadlinePasses(d)
  PROVE  TypeOK'
<1>1. ASSUME NEW m \in inflight, CallbackLost(m) PROVE TypeOK'
  BY <1>1, FaultType DEF CallbackLost, TypeOK, AllIdle
<1>2. ASSUME NEW t \in Tokens, Bootstrap(t) PROVE TypeOK'
  <2>0. ec2[t].devbox \in Devboxes
    BY <1>2 DEF Bootstrap, TypeOK, Ec2Instance
  <2>1. ec2' \in [Tokens -> Ec2Instance]
    BY <1>2 DEF Bootstrap, TypeOK, Ec2Instance
  <2>2. QED BY <2>0, <2>1, <1>2 DEF Bootstrap, TypeOK, AllIdle
<1>3. ASSUME NEW d \in Devboxes, DeadlinePasses(d) PROVE TypeOK'
  <2>1. rows' \in [Devboxes -> Row]
    BY <1>3 DEF DeadlinePasses, TypeOK, Row
  <2>2. QED BY <2>1, <1>3 DEF DeadlinePasses, TypeOK, AllIdle
<1>4. QED BY <1>1, <1>2, <1>3
LEMMA StepType == TypeOK /\ [Next]_vars => TypeOK'
<1> SUFFICES ASSUME TypeOK, [Next]_vars PROVE TypeOK'
  OBVIOUS
<1>1. CASE UNCHANGED vars
  BY <1>1 DEF vars, TypeOK, AllIdle
<1>2. CASE Next
  BY <1>2, HandlerStepType, RequestType, ProcessType, OutsideType DEF Next
<1>3. QED BY <1>1, <1>2

LEMMA InitType == Init => TypeOK
BY FaultAssumption
DEF Init, TypeOK, NoRow, NewRow, Row, RowStatus, Ec2Instance, HandlerState, AllIdle

\* The type invariant holds, and a dead process has nothing in progress.
THEOREM TypeCorrect == Spec => []TypeOK
<1>1. QED BY InitType, StepType, PTL DEF Spec

(***************************************************************************)
(* One instance per devbox.  The inductive invariant follows the client     *)
(* token: it is the row's own name at EC2, so every launch of the row meets *)
(* the same instance, and the id in the row can only be that token's.       *)
(***************************************************************************)

\* A task refers to its devbox's own token, and past the launch to an instance of it.
NamedTask(w, r, e) ==
  /\ w.pc \in {"launch", "save", "terminate"} => w.token \in Tokens /\ w.token = r[w.devbox].token
  /\ w.pc \in {"save", "terminate"} => e[w.token].state # "absent" /\ e[w.token].devbox = w.devbox
  /\ w.pc = "transition" => w.status \in {"READY", "FAILED"}

Named == \A h \in Handlers : NamedTask(handlers[h], rows, ec2)

\* Tokens are names: a row has one, no two rows share one, instances are under their rows'.
Names ==
  /\ \A d \in Devboxes : rows[d].status = "ABSENT" <=> rows[d].token = None
  /\ \A d1, d2 \in Devboxes : rows[d1].token # None /\ rows[d1].token = rows[d2].token => d1 = d2
  /\ \A t \in Tokens : ec2[t].state # "absent" =>
       ec2[t].devbox \in Devboxes /\ rows[ec2[t].devbox].token = t
  /\ \A d \in Devboxes : rows[d].instance # None =>
       /\ rows[d].instance = rows[d].token
       /\ ec2[rows[d].instance].state # "absent" /\ ec2[rows[d].instance].devbox = d

NameInv == TypeOK /\ Names /\ Named

\* A step that keeps the tokens of existing rows and the launched instances.
Grows ==
  /\ \A d \in Devboxes : rows[d].token # None => rows'[d].token = rows[d].token
  /\ \A t \in Tokens : ec2[t].state # "absent" =>
       ec2'[t].state # "absent" /\ ec2'[t].devbox = ec2[t].devbox

\* A step that changes nothing that Names speaks of.
SameNames ==
  /\ \A d \in Devboxes : /\ rows'[d].token = rows[d].token
                         /\ rows'[d].instance = rows[d].instance
                         /\ rows'[d].status = "ABSENT" <=> rows[d].status = "ABSENT"
  /\ \A t \in Tokens : /\ ec2'[t].devbox = ec2[t].devbox
                       /\ ec2'[t].state = "absent" <=> ec2[t].state = "absent"

\* Names proves the property.
LEMMA NamesGiveOneInstance == TypeOK /\ Names => OneInstancePerDevbox
BY DEF Names, OneInstancePerDevbox

LEMMA SameNamesKeeps ==
  ASSUME TypeOK, Names, SameNames
  PROVE  Names' /\ Grows
<1>1. \A d \in Devboxes : rows[d].instance \in Tokens \cup {None}
  BY DEF TypeOK, Row
<1>2. QED BY <1>1, NoneAssumption DEF Names, SameNames, Grows

\* What a handler holds stays right while others move.
LEMMA TaskFrame ==
  ASSUME NoneAssumption, Grows, NEW w \in HandlerState, NamedTask(w, rows, ec2)
  PROVE  NamedTask(w, rows', ec2')
<1>1. CASE w = Idle
  BY <1>1 DEF Idle, Task, NamedTask
<1>2. CASE w # Idle
  <2>1. w.devbox \in Devboxes
    BY <1>2 DEF HandlerState
  <2>2. QED BY <2>1, NoneAssumption DEF NamedTask, Grows
<1>3. QED BY <1>1, <1>2

LEMMA NamedFrame ==
  ASSUME TypeOK, Named, Grows, handlers' = handlers
  PROVE  Named'
<1>1. SUFFICES ASSUME NEW g \in Handlers PROVE NamedTask(handlers[g], rows', ec2')
  BY DEF Named
<1>2. handlers[g] \in HandlerState /\ NamedTask(handlers[g], rows, ec2)
  BY DEF TypeOK, Named
<1>3. QED BY <1>2, TaskFrame, NoneAssumption

LEMMA NamedMove ==
  ASSUME TypeOK, Named, Grows, NEW h \in Handlers, NEW w, Becomes(h, w),
         NamedTask(w, rows', ec2')
  PROVE  Named'
<1>1. SUFFICES ASSUME NEW g \in Handlers PROVE NamedTask(handlers'[g], rows', ec2')
  BY DEF Named
<1>2. CASE g = h
  BY <1>2 DEF Becomes, TypeOK
<1>3. CASE g # h
  <2>1. handlers'[g] = handlers[g] /\ handlers[g] \in HandlerState /\ NamedTask(handlers[g], rows, ec2)
    BY <1>3 DEF Becomes, TypeOK, Named
  <2>2. QED BY <2>1, TaskFrame, NoneAssumption
<1>4. QED BY <1>2, <1>3

\* An idle handler, and one about to fail or mark a row, holds no token.
LEMMA TokenlessTask ==
  ASSUME NEW w, NEW r, NEW e,
         \/ w.pc \in {"idle", "launch_failed", "mark_deleted"}
         \/ w.pc = "transition" /\ w.status \in {"READY", "FAILED"}
  PROVE  NamedTask(w, r, e)
BY DEF NamedTask

\* Updates of a status keep the names.
LEMMA StatusKeepsNames ==
  ASSUME TypeOK, NEW d \in Devboxes, NEW from \in SUBSET DevboxStatus, NEW to \in DevboxStatus,
         SetStatus(d, from, to), ec2' = ec2
  PROVE  SameNames
<1>1. "ABSENT" \notin DevboxStatus
  BY DEF DevboxStatus
<1>2. QED BY <1>1 DEF SetStatus, SameNames, TypeOK, Row
\* A task built after reading row d of this table is right for this table.
LEMMA ReadTaskNamed ==
  ASSUME TypeOK, Names, NEW d \in Devboxes, NEW w,
         w = LaunchTask(d, rows[d]) \/ w = DeletionTask(d, rows[d])
  PROVE  NamedTask(w, rows, ec2)
<1>0. rows[d] \in Row /\ rows[d].token \in Tokens \cup {None} /\ rows[d].instance \in Tokens \cup {None}
  BY DEF TypeOK, Row
<1>1. CASE w = LaunchTask(d, rows[d])
  <2>1. rows[d].status = "PROVISIONING" => rows[d].token \in Tokens
    BY <1>0 DEF Names
  <2>2. QED BY <1>1, <2>1 DEF LaunchTask, Task, Idle, NamedTask
<1>2. CASE w = DeletionTask(d, rows[d])
  <2>1. CASE w.pc = "terminate"
    <3>1. w = Task("terminate", d, rows[d].instance, rows[d].status) /\ rows[d].instance # None
      BY <1>2, <2>1 DEF DeletionTask, Task, Idle
    <3>2. w.token = rows[d].instance /\ w.devbox = d
      BY <3>1 DEF Task
    <3>3. QED BY <2>1, <3>1, <3>2, <1>0, NoneAssumption DEF Names, NamedTask
  <2>2. CASE w.pc # "terminate"
    BY <1>2, <2>2 DEF DeletionTask, Task, Idle, NamedTask
  <2>3. QED BY <2>1, <2>2
<1>3. QED BY <1>1, <1>2
ReadTasksNamed ==
  \A d \in Devboxes : /\ NamedTask(LaunchTask(d, rows[d]), rows, ec2)
                      /\ NamedTask(DeletionTask(d, rows[d]), rows, ec2)

LEMMA NamesNameTasks == TypeOK /\ Names => ReadTasksNamed
BY ReadTaskNamed DEF ReadTasksNamed

\* Launching d under its row's token keeps the names.
LEMMA LaunchKeepsNames ==
  ASSUME TypeOK, Names, NEW t \in Tokens, NEW d \in Devboxes, rows[d].token = t,
         ec2' = Launched(t, d), rows' = rows
  PROVE  Names' /\ Grows /\ ec2'[t].state # "absent" /\ ec2'[t].devbox = d
<1>1. CASE ec2[t].state = "absent"
  <2>1. /\ ec2'[t].state = "booting" /\ ec2'[t].devbox = d
        /\ \A u \in Tokens : u # t => ec2'[u] = ec2[u]
    BY <1>1 DEF Launched, TypeOK
  <2>2. Grows
    BY <2>1, <1>1 DEF Grows
  <2>3. \A i \in Devboxes : rows[i].instance \in Tokens \cup {None}
    BY DEF TypeOK, Row
  <2>4. Names'
    BY <2>1, <2>3, <1>1, NoneAssumption DEF Names
  <2>5. QED BY <2>1, <2>2, <2>4
<1>2. CASE ec2[t].state # "absent"
  <2>1. ec2' = ec2
    BY <1>2 DEF Launched
  <2>2. SameNames
    BY <2>1 DEF SameNames
  <2>3. ec2[t].devbox = d
    BY <1>2, NoneAssumption DEF Names
  <2>4. QED BY <2>1, <2>2, <2>3, <1>2, SameNamesKeeps
<1>3. QED BY <1>1, <1>2

\* A step of a handler keeps names and tasks right.
LEMMA HandlerStepNames ==
  ASSUME NameInv, NEW h \in Handlers, HandlerStep(h)
  PROVE  Names' /\ Named'
<1> DEFINE d == handlers[h].devbox
           t == handlers[h].token
<1>0. TypeOK /\ Names /\ Named /\ NamedTask(handlers[h], rows, ec2) /\ handlers[h] \in HandlerState
  BY DEF NameInv, Named, TypeOK
<1>1. ASSUME NEW pc \in HandlerPc, At(h, pc) PROVE d \in Devboxes
  BY <1>0, <1>1, AtWork
<1>2. CASE LaunchDevbox(h) \/ LaunchAnswerLost(h)
  <2>1. At(h, "launch") /\ ec2' = Launched(t, d) /\ rows' = rows
    BY <1>2 DEF LaunchDevbox, LaunchAnswerLost
  <2>2. d \in Devboxes /\ t \in Tokens /\ rows[d].token = t
    BY <1>0, <1>1, <2>1 DEF At, HandlerPc, NamedTask
  <2>3. Names' /\ Grows /\ ec2'[t].state # "absent" /\ ec2'[t].devbox = d
    BY <1>0, <2>1, <2>2, LaunchKeepsNames
  <2>4. CASE LaunchDevbox(h)
    <3> DEFINE w == [handlers[h] EXCEPT !.pc = "save"]
    <3>1. w.pc = "save" /\ w.devbox = d /\ w.token = t
      BY <2>1, <1>0, AtWork DEF HandlerPc
    <3>2. NamedTask(w, rows', ec2')
      BY <3>1, <2>1, <2>2, <2>3 DEF NamedTask
    <3>3. Becomes(h, w)
      BY <2>4 DEF LaunchDevbox
    <3>4. QED BY <3>2, <3>3, <2>3, <1>0, NamedMove
  <2>5. CASE LaunchAnswerLost(h)
    <3> DEFINE w == [handlers[h] EXCEPT !.pc = "launch_failed"]
    <3>1. w.pc = "launch_failed"
      BY <2>1, <1>0, AtWork DEF HandlerPc
    <3>2. NamedTask(w, rows', ec2')
      BY <3>1, TokenlessTask
    <3>3. Becomes(h, w)
      BY <2>5 DEF LaunchAnswerLost
    <3>4. QED BY <3>2, <3>3, <2>3, <1>0, NamedMove
  <2>6. QED BY <1>2, <2>4, <2>5
<1>3. CASE LaunchRefused(h)
  <2> DEFINE w == [handlers[h] EXCEPT !.pc = "launch_failed"]
  <2>1. w.pc = "launch_failed"
    BY <1>3, <1>0, AtWork DEF LaunchRefused, HandlerPc
  <2>2. Becomes(h, w) /\ SameNames
    BY <1>3 DEF LaunchRefused, SameNames
  <2>3. QED BY <2>1, <2>2, <1>0, TokenlessTask, SameNamesKeeps, NamedMove
<1>4. CASE ReadAfterFailedLaunch(h)
  <2>1. PICK w : Becomes(h, w) /\ (w = Task("transition", d, None, "FAILED") \/ w = Idle)
    BY <1>4 DEF ReadAfterFailedLaunch
  <2>2. NamedTask(w, rows', ec2')
    BY <2>1, TokenlessTask DEF Task, Idle
  <2>3. SameNames
    BY <1>4 DEF ReadAfterFailedLaunch, SameNames
  <2>4. QED BY <2>1, <2>2, <2>3, <1>0, SameNamesKeeps, NamedMove
<1>5. CASE ApplyTransition(h)
  <2>1. d \in Devboxes /\ handlers[h].status \in {"READY", "FAILED"}
    BY <1>5, <1>0, <1>1 DEF ApplyTransition, HandlerPc, NamedTask, At
  <2>2. SameNames
    BY <1>5, <1>0, <2>1, StatusKeepsNames
    DEF ApplyTransition, TransitionDevboxBootstrap, DevboxStatus
  <2>3. NamedTask(Idle, rows', ec2') /\ Becomes(h, Idle)
    BY <1>5, TokenlessTask DEF ApplyTransition, Idle, Task
  <2>4. QED BY <2>2, <2>3, <1>0, SameNamesKeeps, NamedMove
<1>6. CASE SaveLaunch(h)
  <2>1. /\ d \in Devboxes /\ t \in Tokens /\ rows[d].token = t
        /\ ec2[t].state # "absent" /\ ec2[t].devbox = d
    BY <1>6, <1>0, <1>1 DEF SaveLaunch, HandlerPc, NamedTask, At
  <2>2. SaveDevboxLaunch(d, t) /\ Becomes(h, AfterSave(d, t)) /\ ec2' = ec2
    BY <1>6 DEF SaveLaunch
  <2>3. rows' = [rows EXCEPT ![d].instance = t]
    BY <2>1, <2>2, <1>0 DEF SaveDevboxLaunch, SaveAdmits, Names
  <2>4. /\ \A i \in Devboxes : rows'[i].token = rows[i].token /\ rows'[i].status = rows[i].status
        /\ \A i \in Devboxes : rows'[i].instance = IF i = d THEN t ELSE rows[i].instance
    BY <2>3, <2>1, <1>0 DEF TypeOK, Row
  <2>5. Grows
    BY <2>2, <2>4 DEF Grows
  <2>6. Names'
    BY <2>1, <2>2, <2>4, <1>0 DEF Names
  <2>7. NamedTask(AfterSave(d, t), rows', ec2')
    BY <2>1, <2>2, <2>4 DEF AfterSave, NamedTask, Task, Idle
  <2>8. QED BY <2>2, <2>5, <2>6, <2>7, <1>0, NamedMove
<1>7. CASE TerminateDevbox(h) \/ InstanceNotShown(h) \/ TerminateFailed(h)
  <2>1. t \in Tokens /\ ec2[t].state # "absent" /\ rows' = rows /\ ec2' \in {ec2, Terminated(t)}
    BY <1>7, <1>0 DEF TerminateDevbox, InstanceNotShown, TerminateFailed, NamedTask, At
  <2>2. SameNames
    BY <2>1, <1>0 DEF SameNames, Terminated, TypeOK, Ec2Instance
  <2>3. PICK w : Becomes(h, w) /\ w.pc \in {"idle", "mark_deleted"}
    BY <1>7, <1>0, AtWork
    DEF TerminateDevbox, InstanceNotShown, TerminateFailed, AfterTerminate, HandlerPc, Idle, Task
  <2>4. NamedTask(w, rows', ec2')
    BY <2>3, TokenlessTask
  <2>5. QED BY <2>2, <2>3, <2>4, <1>0, SameNamesKeeps, NamedMove
<1>8. CASE MarkDeleted(h)
  <2>1. d \in Devboxes
    BY <1>8, <1>1 DEF MarkDeleted, HandlerPc
  <2>2. SameNames
    BY <1>8, <1>0, <2>1, StatusKeepsNames DEF MarkDeleted, MarkDevboxDeleted, DevboxStatus
  <2>3. NamedTask(Idle, rows', ec2') /\ Becomes(h, Idle)
    BY <1>8, TokenlessTask DEF MarkDeleted, Idle, Task
  <2>4. QED BY <2>2, <2>3, <1>0, SameNamesKeeps, NamedMove
<1>9. QED
  BY <1>2, <1>3, <1>4, <1>5, <1>6, <1>7, <1>8 DEF HandlerStep
\* A request or a callback that arrives keeps names and tasks right.
LEMMA RequestNames ==
  ASSUME NameInv, NEW h \in Handlers,
         \/ \E d \in Devboxes : CreateDevbox(h, d) \/ DeleteDevbox(h, d)
         \/ \E m \in inflight : UpdateDevboxStatus(h, m)
  PROVE  Names' /\ Named'
<1>0. TypeOK /\ Names /\ Named
  BY DEF NameInv
<1>1. ASSUME NEW d \in Devboxes, CreateDevbox(h, d) PROVE Names' /\ Named'
  <2>0. TypeOK' /\ ec2' = ec2
    BY <1>0, <1>1, RequestType DEF CreateDevbox
  <2>1. CASE rows[d].status = "ABSENT"
    <3>1. PICK t \in Tokens : Fresh(t) /\ InsertDevbox(d, t) /\ Becomes(h, LaunchTask(d, rows'[d]))
      BY <1>1, <2>1 DEF CreateDevbox
    <3>2. /\ rows[d].token = None /\ rows[d].instance = None
          /\ ec2[t].state = "absent" /\ \A i \in Devboxes : rows[i].token # t
      BY <3>1, <2>1, <1>0 DEF Fresh, Names
    <3>3. /\ rows'[d].token = t /\ rows'[d].instance = None /\ rows'[d].status = "PROVISIONING"
          /\ \A i \in Devboxes \ {d} : rows'[i] = rows[i]
      BY <3>1, <1>0 DEF InsertDevbox, NewRow, TypeOK
    <3>4. Grows
      BY <2>0, <3>2, <3>3 DEF Grows
    <3>5. Names'
      BY <2>0, <3>2, <3>3, <1>0, NoneAssumption DEF Names, TypeOK
    <3>6. NamedTask(LaunchTask(d, rows'[d]), rows', ec2')
      BY <3>3, <2>1 DEF LaunchTask, Task, NamedTask
    <3>7. QED BY <3>1, <3>4, <3>5, <3>6, <1>0, NamedMove
  <2>2. CASE rows[d].status # "ABSENT"
    <3>1. rows' = rows /\ Becomes(h, LaunchTask(d, rows[d]))
      BY <1>1, <2>2 DEF CreateDevbox
    <3>2. SameNames
      BY <2>0, <3>1 DEF SameNames
    <3>3. NamedTask(LaunchTask(d, rows[d]), rows', ec2')
      BY <2>0, <3>1, <1>0, ReadTaskNamed
    <3>4. QED BY <3>1, <3>2, <3>3, <1>0, SameNamesKeeps, NamedMove
  <2>3. QED BY <2>1, <2>2
<1>2. ASSUME NEW d \in Devboxes, DeleteDevbox(h, d) PROVE Names' /\ Named'
  <2>0. TypeOK' /\ ec2' = ec2
    BY <1>0, <1>2, RequestType DEF DeleteDevbox
  <2>1. SameNames
    BY <2>0, <1>0, <1>2, StatusKeepsNames DEF DeleteDevbox, MarkDevboxDeleting, DevboxStatus
  <2>2. Names' /\ Grows
    BY <2>1, <1>0, SameNamesKeeps
  <2>3. ReadTasksNamed'
    BY <2>0, <2>2, NamesNameTasks, PTL
  <2>4. NamedTask(DeletionTask(d, rows'[d]), rows', ec2')
    BY <2>3 DEF ReadTasksNamed
  <2>5. QED BY <2>2, <2>4, <1>0, <1>2, NamedMove DEF DeleteDevbox
<1>3. ASSUME NEW m \in inflight, UpdateDevboxStatus(h, m) PROVE Names' /\ Named'
  <2>1. m.status \in {"READY", "FAILED"}
    BY <1>0 DEF TypeOK
  <2>2. PICK w : Becomes(h, w) /\ (w = Task("transition", m.devbox, None, m.status) \/ w = Idle)
    BY <1>3 DEF UpdateDevboxStatus
  <2>3. NamedTask(w, rows', ec2')
    BY <2>1, <2>2, TokenlessTask DEF Task, Idle
  <2>4. SameNames
    BY <1>3 DEF UpdateDevboxStatus, SameNames
  <2>5. QED BY <2>2, <2>3, <2>4, <1>0, SameNamesKeeps, NamedMove
<1>4. QED BY <1>1, <1>2, <1>3
\* So does the process on its way down and up, and what happens outside it.
LEMMA ProcessNames ==
  ASSUME NameInv, StartUp \/ Crash
  PROVE  Names' /\ Named'
<1>0. TypeOK /\ Names /\ Named
  BY DEF NameInv
<1>1. CASE Restart
  <2>1. SameNames
    BY <1>1, <1>0 DEF Restart, ExpireOverdueDevboxes, SameNames, TypeOK, Row
  <2>2. QED BY <2>1, <1>1, <1>0, SameNamesKeeps, NamedFrame DEF Restart
<1>2. CASE Listen
  <2>1. SameNames
    BY <1>2 DEF Listen, SameNames
  <2>2. QED BY <2>1, <1>2, <1>0, SameNamesKeeps, NamedFrame DEF Listen
<1>3. ASSUME NEW h \in Handlers, NEW d \in Devboxes, ReconcileNext(h, d) PROVE Names' /\ Named'
  <2>1. SameNames /\ rows' = rows /\ ec2' = ec2 /\ Becomes(h, ReconcileTask(d))
    BY <1>3 DEF ReconcileNext, SameNames
  <2>2. NamedTask(ReconcileTask(d), rows', ec2')
    BY <2>1, <1>0, NamesNameTasks DEF ReadTasksNamed, ReconcileTask
  <2>3. QED BY <2>1, <2>2, <1>0, SameNamesKeeps, NamedMove
<1>4. CASE Crash
  <2>1. SameNames
    BY <1>4 DEF Crash, SameNames
  <2>2. \A h \in Handlers : NamedTask(handlers'[h], rows', ec2')
    BY <1>4, TokenlessTask DEF Crash, Idle, Task
  <2>3. QED BY <2>1, <2>2, <1>0, SameNamesKeeps DEF Named
<1>5. QED BY <1>1, <1>2, <1>3, <1>4 DEF StartUp

LEMMA OutsideNames ==
  ASSUME NameInv,
         \/ \E m \in inflight : CallbackLost(m)
         \/ \E t \in Tokens : Bootstrap(t)
         \/ \E d \in Devboxes : DeadlinePasses(d)
  PROVE  Names' /\ Named'
<1>0. TypeOK /\ Names /\ Named
  BY DEF NameInv
<1>1. SameNames /\ handlers' = handlers
  <2>1. CASE \E m \in inflight : CallbackLost(m)
    BY <2>1 DEF CallbackLost, SameNames
  <2>2. CASE \E t \in Tokens : Bootstrap(t)
    BY <2>2, <1>0 DEF Bootstrap, SameNames, TypeOK, Ec2Instance
  <2>3. CASE \E d \in Devboxes : DeadlinePasses(d)
    BY <2>3, <1>0 DEF DeadlinePasses, SameNames, TypeOK, Row
  <2>4. QED BY <2>1, <2>2, <2>3
<1>2. QED BY <1>0, <1>1, SameNamesKeeps, NamedFrame

LEMMA StepNames == NameInv /\ [Next]_vars => NameInv'
<1> SUFFICES ASSUME NameInv, [Next]_vars PROVE NameInv'
  OBVIOUS
<1>1. TypeOK'
  BY StepType DEF NameInv
<1>2. Names' /\ Named'
  <2>1. CASE UNCHANGED vars
    BY <2>1 DEF vars, NameInv, Names, Named
  <2>2. CASE Next
    BY <2>2, HandlerStepNames, RequestNames, ProcessNames, OutsideNames DEF Next
  <2>3. QED BY <2>1, <2>2
<1>3. QED BY <1>1, <1>2 DEF NameInv

LEMMA InitNames == Init => NameInv
<1> SUFFICES ASSUME Init PROVE Names /\ Named
  BY InitType DEF NameInv
<1>1. Names
  BY DEF Init, NoRow, NewRow, Names
<1>2. Named
  BY TokenlessTask DEF Init, Named, Idle, Task
<1>3. QED BY <1>1, <1>2

THEOREM NamesInvariant == Spec => []NameInv
<1>1. QED BY InitNames, StepNames, PTL DEF Spec

\* EC2 launches at most one instance for a devbox, under every fault and interleaving.
THEOREM AtMostOneInstance == Spec => []OneInstancePerDevbox
<1>1. NameInv => OneInstancePerDevbox
  BY NamesGiveOneInstance DEF NameInv
<1>2. QED BY <1>1, NamesInvariant, PTL
(***************************************************************************)
(* The statuses implement the shared contract.                              *)
(***************************************************************************)
ContractMove(d) ==
  \/ rows[d].status = "ABSENT" /\ rows'[d].status = "PROVISIONING"
  \/ rows[d].status # "ABSENT" /\ IsDevboxTransitionAllowed(rows[d].status, rows'[d].status)
  \/ rows'[d].status = rows[d].status

\* An UPDATE guarded by the statuses the contract allows to move there follows the contract.
LEMMA GuardedUpdate ==
  ASSUME TypeOK, NEW d \in Devboxes, NEW from \in SUBSET DevboxStatus, NEW to,
         \A s \in from : to \in DevboxTransitions[s],
         SetStatus(d, from, to)
  PROVE  \A i \in Devboxes : ContractMove(i)
<1>1. "ABSENT" \notin from
  BY DEF DevboxStatus
<1>2. QED BY <1>1 DEF SetStatus, ContractMove, IsDevboxTransitionAllowed, TypeOK, Row

LEMMA SameStatus ==
  ASSUME \A i \in Devboxes : rows'[i].status = rows[i].status
  PROVE  \A i \in Devboxes : ContractMove(i)
BY DEF ContractMove

LEMMA ContractTable ==
  /\ \A to \in {"READY", "FAILED"} : \A s \in {"PROVISIONING"} : to \in DevboxTransitions[s]
  /\ \A s \in {"PROVISIONING", "READY", "FAILED"} : "DELETING" \in DevboxTransitions[s]
  /\ \A s \in {"DELETING"} : "DELETED" \in DevboxTransitions[s]
  /\ {"PROVISIONING", "READY", "FAILED", "DELETING"} \subseteq DevboxStatus
BY DEF DevboxTransitions, DevboxStatus

LEMMA StepFollowsContract ==
  ASSUME NameInv, Next
  PROVE  \A i \in Devboxes : ContractMove(i)
<1>0. TypeOK /\ Named
  BY DEF NameInv
<1>1. ASSUME NEW h \in Handlers, ApplyTransition(h) PROVE \A i \in Devboxes : ContractMove(i)
  <2>1. handlers[h].devbox \in Devboxes /\ handlers[h].status \in {"READY", "FAILED"}
    BY <1>0, <1>1, AtWork DEF ApplyTransition, HandlerPc, Named, NamedTask, At
  <2>2. QED BY <2>1, <1>0, <1>1, GuardedUpdate, ContractTable
            DEF ApplyTransition, TransitionDevboxBootstrap
<1>2. ASSUME NEW h \in Handlers, MarkDeleted(h) PROVE \A i \in Devboxes : ContractMove(i)
  <2>1. handlers[h].devbox \in Devboxes
    BY <1>0, <1>2, AtWork DEF MarkDeleted, HandlerPc
  <2>2. QED BY <2>1, <1>0, <1>2, GuardedUpdate, ContractTable DEF MarkDeleted, MarkDevboxDeleted
<1>3. ASSUME NEW h \in Handlers, NEW d \in Devboxes, DeleteDevbox(h, d)
      PROVE  \A i \in Devboxes : ContractMove(i)
  BY <1>0, <1>3, GuardedUpdate, ContractTable DEF DeleteDevbox, MarkDevboxDeleting
<1>4. ASSUME NEW h \in Handlers, SaveLaunch(h) PROVE \A i \in Devboxes : ContractMove(i)
  <2>1. \A i \in Devboxes : rows'[i].status = rows[i].status
    BY <1>0, <1>4 DEF SaveLaunch, SaveDevboxLaunch, TypeOK, Row
  <2>2. QED BY <2>1, SameStatus
<1>5. ASSUME NEW h \in Handlers, NEW d \in Devboxes, CreateDevbox(h, d)
      PROVE  \A i \in Devboxes : ContractMove(i)
  BY <1>0, <1>5 DEF CreateDevbox, InsertDevbox, NewRow, ContractMove, TypeOK, Row
<1>6. CASE Restart
  BY <1>0, <1>6, ContractTable
  DEF Restart, ExpireOverdueDevboxes, ContractMove, IsDevboxTransitionAllowed, TypeOK, Row
<1>7. ASSUME NEW d \in Devboxes, DeadlinePasses(d) PROVE \A i \in Devboxes : ContractMove(i)
  <2>1. \A i \in Devboxes : rows'[i].status = rows[i].status
    BY <1>0, <1>7 DEF DeadlinePasses, TypeOK, Row
  <2>2. QED BY <2>1, SameStatus
<1>8. CASE rows' = rows
  BY <1>8, SameStatus
<1>9. QED
  BY <1>1, <1>2, <1>3, <1>4, <1>5, <1>6, <1>7, <1>8
  DEF Next, StartUp, HandlerStep, LaunchDevbox, LaunchRefused, LaunchAnswerLost,
      ReadAfterFailedLaunch, TerminateDevbox, InstanceNotShown, TerminateFailed, UpdateDevboxStatus,
      CallbackLost, Bootstrap, Listen, ReconcileNext, Crash

\* The devbox table implements the contract's status machine.
THEOREM ContractRefined == Spec => RefinesContract
<1>1. Init => DevboxStatuses!Init
  BY DEF Init, NoRow, NewRow, DevboxStatuses!Init
<1>2. NameInv /\ [Next]_vars => [DevboxStatuses!Next]_[d \in Devboxes |-> rows[d].status]
  <2> SUFFICES ASSUME NameInv, [Next]_vars
               PROVE  [DevboxStatuses!Next]_[d \in Devboxes |-> rows[d].status]
    OBVIOUS
  <2>1. CASE UNCHANGED vars
    BY <2>1 DEF vars
  <2>2. CASE Next
    <3>1. \A i \in Devboxes : ContractMove(i)
      BY <2>2, StepFollowsContract
    <3>2. DevboxStatuses!Next
      BY <3>1 DEF ContractMove, DevboxStatuses!Next, DevboxStatuses!Created, DevboxStatuses!Moved
    <3>3. QED BY <3>2
  <2>3. QED BY <2>1, <2>2
<1>3. QED
  BY <1>1, <1>2, NamesInvariant, PTL DEF Spec, RefinesContract, DevboxStatuses!Spec
(***************************************************************************)
(* No instance outlives its devbox when no answer of EC2 is lost, terminates *)
(* find their instance and do not fail, and the process lives on.           *)
(* NoOrphanInstance alone is not inductive: a handler about to mark a row    *)
(* DELETED may have read an empty instance id before the launch was saved,  *)
(* and is harmless only because the launching handler is then still on its  *)
(* way to the terminate.                                                    *)
(***************************************************************************)
NoOrphan ==
  \A t \in Tokens : Alive(t) /\ rows[ec2[t].devbox].status = "DELETED" => InHand(t)

InSave(t) == \E h \in Handlers : handlers[h].pc = "save" /\ handlers[h].token = t

Deleted == {"DELETING", "DELETED"}

\* An instance that runs is in its row, or its launch is about to be saved.
RunningIsKnown ==
  \A t \in Tokens : Alive(t) => rows[ec2[t].devbox].instance = t \/ InSave(t)

\* Who is about to mark a row DELETED leaves behind someone about to terminate.
MarkingIsSafe ==
  \A t \in Tokens, h \in Handlers :
    Alive(t) /\ At(h, "mark_deleted") /\ handlers[h].devbox = ec2[t].devbox
      /\ rows[ec2[t].devbox].status = "DELETING" => InHand(t)

\* Only rows in deletion are terminated for or marked.
DeletionBegun ==
  \A h \in Handlers :
    handlers[h].pc \in {"terminate", "mark_deleted"} => rows[handlers[h].devbox].status \in Deleted

OrphanInv == NoOrphan /\ RunningIsKnown /\ MarkingIsSafe /\ DeletionBegun

\* Steps that start no deletion, launch nothing, and take no instance out of a hand.
Harmless ==
  /\ \A t \in Tokens : Alive(t)' => Alive(t) /\ ec2'[t].devbox = ec2[t].devbox
  /\ \A d \in Devboxes :
       /\ rows'[d].instance = rows[d].instance
       /\ \/ rows'[d].status = rows[d].status
          \/ rows[d].status \notin Deleted /\ rows'[d].status \notin Deleted
  /\ \A g \in Handlers :
       \/ handlers'[g] = handlers[g]
       \/ /\ handlers[g].pc \notin {"save", "terminate"}
          /\ handlers'[g].pc \notin {"terminate", "mark_deleted"}

LEMMA AliveIsNamed ==
  ASSUME NameInv, NEW t \in Tokens, Alive(t)
  PROVE  ec2[t].devbox \in Devboxes /\ rows[ec2[t].devbox].token = t
BY DEF NameInv, Names, Alive

LEMMA HeldIsNamed ==
  ASSUME NameInv, NEW h \in Handlers, handlers[h].pc \in {"launch", "save", "terminate"}
  PROVE  /\ handlers[h].devbox \in Devboxes /\ handlers[h].token \in Tokens
         /\ rows[handlers[h].devbox].token = handlers[h].token
         /\ handlers[h].pc # "launch" => ec2[handlers[h].token].devbox = handlers[h].devbox
<1>1. At(h, handlers[h].pc) /\ handlers[h].pc \in HandlerPc
  BY DEF At, HandlerPc
<1>2. QED BY <1>1, AtWork DEF NameInv, Named, NamedTask

LEMMA HarmlessKeeps ==
  ASSUME NameInv, OrphanInv, Harmless
  PROVE  OrphanInv'
<1>1. ASSUME NEW t \in Tokens PROVE (InHand(t) => InHand(t)') /\ (InSave(t) => InSave(t)')
  BY DEF Harmless, InHand, InSave
<1>2. NoOrphan'
  BY <1>1, AliveIsNamed DEF OrphanInv, NoOrphan, Harmless, Deleted
<1>3. RunningIsKnown'
  BY <1>1, AliveIsNamed DEF OrphanInv, RunningIsKnown, Harmless
<1>4. MarkingIsSafe'
  BY <1>1, AliveIsNamed DEF OrphanInv, MarkingIsSafe, Harmless, Deleted, At
<1>5. DeletionBegun'
  <2> SUFFICES ASSUME NEW h \in Handlers, handlers'[h].pc \in {"terminate", "mark_deleted"}
               PROVE  rows'[handlers'[h].devbox].status \in Deleted
    BY DEF DeletionBegun
  <2>1. handlers'[h] = handlers[h]
    BY DEF Harmless
  <2>2. rows[handlers[h].devbox].status \in Deleted
    BY <2>1 DEF OrphanInv, DeletionBegun
  <2>3. At(h, handlers[h].pc) /\ handlers[h].pc \in HandlerPc
    BY <2>1 DEF At, HandlerPc
  <2>4. handlers[h].devbox \in Devboxes
    BY <2>3, AtWork DEF NameInv
  <2>5. QED BY <2>1, <2>2, <2>4 DEF Harmless
<1>6. QED BY <1>2, <1>3, <1>4, <1>5 DEF OrphanInv
\* Only handler h moved, so what others hold is still held.
LEMMA OthersHold ==
  ASSUME TypeOK, NEW h \in Handlers, NEW w, Becomes(h, w), NEW t \in Tokens
  PROVE  /\ handlers'[h] = w
         /\ \A g \in Handlers \ {h} : handlers'[g] = handlers[g]
         /\ InHand(t) /\ handlers[h].token # t => InHand(t)'
         /\ InSave(t) /\ handlers[h].token # t => InSave(t)'
         /\ InHand(t) /\ handlers[h].pc \notin {"save", "terminate"} => InHand(t)'
         /\ InSave(t) /\ handlers[h].pc # "save" => InSave(t)'
         /\ w.pc \in {"save", "terminate"} /\ w.token = t => InHand(t)'
         /\ w.pc = "save" /\ w.token = t => InSave(t)'
BY DEF Becomes, InHand, InSave, TypeOK

LEMMA LaunchKeepsOrphanInv ==
  ASSUME NameInv, OrphanInv, NEW h \in Handlers, LaunchDevbox(h)
  PROVE  OrphanInv'
<1>d. PICK d : d = handlers[h].devbox
  OBVIOUS
<1>t. PICK t : t = handlers[h].token
  OBVIOUS
<1>w. PICK w : w = [handlers[h] EXCEPT !.pc = "save"]
  OBVIOUS
<1> USE <1>d, <1>t, <1>w
<1>0. TypeOK /\ handlers[h].pc = "launch" /\ rows' = rows /\ Becomes(h, w)
  BY DEF NameInv, LaunchDevbox, At
<1>1. t \in Tokens /\ d \in Devboxes /\ rows[d].token = t
  BY <1>0, HeldIsNamed
<1>2. w.pc = "save" /\ w.token = t
  BY <1>0, AtWork DEF At, HandlerPc
<1>3. \A u \in Tokens \ {t} : ec2'[u] = ec2[u]
  BY DEF LaunchDevbox, Launched, NameInv, TypeOK
<1>4. \A u \in Tokens : (InHand(u) => InHand(u)') /\ (InSave(u) => InSave(u)')
  BY <1>0, OthersHold
<1>5. InHand(t)' /\ InSave(t)'
  BY <1>0, <1>1, <1>2, OthersHold
<1>6. NoOrphan'
  BY <1>0, <1>3, <1>4, <1>5 DEF OrphanInv, NoOrphan, Alive
<1>7. RunningIsKnown'
  BY <1>0, <1>3, <1>4, <1>5 DEF OrphanInv, RunningIsKnown, Alive
<1>8. \A g \in Handlers : handlers'[g] = handlers[g] \/ handlers'[g].pc = "save"
  BY <1>0, <1>1, <1>2, OthersHold
<1>9. MarkingIsSafe'
  BY <1>0, <1>3, <1>4, <1>5, <1>8 DEF OrphanInv, MarkingIsSafe, Alive, At
<1>10. DeletionBegun'
  BY <1>0, <1>8 DEF OrphanInv, DeletionBegun
<1>11. QED BY <1>6, <1>7, <1>9, <1>10 DEF OrphanInv

LEMMA SaveKeepsOrphanInv ==
  ASSUME NameInv, OrphanInv, NEW h \in Handlers, SaveLaunch(h)
  PROVE  OrphanInv'
<1>d. PICK d : d = handlers[h].devbox
  OBVIOUS
<1>t. PICK t : t = handlers[h].token
  OBVIOUS
<1>w. PICK w : w = AfterSave(d, t)
  OBVIOUS
<1> USE <1>d, <1>t, <1>w
<1>0. TypeOK /\ Names /\ handlers[h].pc = "save" /\ ec2' = ec2 /\ Becomes(h, w) /\ SaveDevboxLaunch(d, t)
  BY DEF NameInv, SaveLaunch, At
<1>1. t \in Tokens /\ d \in Devboxes /\ rows[d].token = t
  BY <1>0, HeldIsNamed
<1>2. SaveAdmits(d, t)
  BY <1>0, <1>1 DEF Names, SaveAdmits
<1>3. /\ \A i \in Devboxes : rows'[i].status = rows[i].status
      /\ \A i \in Devboxes : rows'[i].instance = IF i = d THEN t ELSE rows[i].instance
  BY <1>0, <1>1, <1>2 DEF SaveDevboxLaunch, TypeOK, Row
<1>4. w.pc \in {"idle", "terminate"} /\ (rows[d].status \in Deleted => w.pc = "terminate" /\ w.token = t)
      /\ (w.pc = "terminate" => w.devbox = d /\ rows[d].status \in Deleted)
  BY <1>2 DEF AfterSave, Task, Idle, Deleted
<1>5. \A u \in Tokens \ {t} : (InHand(u) => InHand(u)') /\ (InSave(u) => InSave(u)')
  BY <1>0, OthersHold
<1>6. rows[d].status \in Deleted => InHand(t)'
  BY <1>0, <1>1, <1>4, OthersHold
<1>7. \A u \in Tokens : Alive(u) => /\ ec2[u].devbox \in Devboxes
                                     /\ rows[ec2[u].devbox].token = u
                                     /\ (u # t => ec2[u].devbox # d)
                                     /\ (u = t => ec2[u].devbox = d)
  BY <1>0, <1>1, AliveIsNamed, HeldIsNamed
<1>8. NoOrphan'
  BY <1>0, <1>3, <1>5, <1>6, <1>7 DEF OrphanInv, NoOrphan, Alive, Deleted
<1>9. RunningIsKnown'
  BY <1>0, <1>3, <1>5, <1>7 DEF OrphanInv, RunningIsKnown, Alive
<1>10. \A g \in Handlers : handlers'[g] = handlers[g] \/ (g = h /\ handlers'[g] = w)
  BY <1>0, <1>1, OthersHold
<1>11. MarkingIsSafe'
  BY <1>0, <1>3, <1>4, <1>5, <1>6, <1>7, <1>10 DEF OrphanInv, MarkingIsSafe, Alive, Deleted, At
<1>12. \A g \in Handlers : handlers[g].pc \in {"terminate", "mark_deleted"} => handlers[g].devbox \in Devboxes
  BY <1>0, AtWork DEF At, HandlerPc
<1>13. DeletionBegun'
  BY <1>0, <1>1, <1>3, <1>4, <1>10, <1>12 DEF OrphanInv, DeletionBegun
<1>14. QED BY <1>8, <1>9, <1>11, <1>13 DEF OrphanInv

LEMMA TerminateKeepsOrphanInv ==
  ASSUME NameInv, OrphanInv, NEW h \in Handlers, TerminateDevbox(h)
  PROVE  OrphanInv'
<1>d. PICK d : d = handlers[h].devbox
  OBVIOUS
<1>t. PICK t : t = handlers[h].token
  OBVIOUS
<1> USE <1>d, <1>t
<1>0. TypeOK /\ handlers[h].pc = "terminate" /\ rows' = rows /\ ec2' = Terminated(t)
  BY DEF NameInv, TerminateDevbox, At
<1>1. t \in Tokens /\ d \in Devboxes /\ rows[d].token = t
  BY <1>0, HeldIsNamed
<1>2. PICK w : Becomes(h, w) /\ (w.pc = "idle" \/ (w.pc = "mark_deleted" /\ w.devbox = d))
  <2> DEFINE next == [handlers[h] EXCEPT !.pc = "mark_deleted"]
  <2>1. next.pc = "mark_deleted" /\ next.devbox = d
    BY <1>0, AtWork DEF At, HandlerPc
  <2>2. Idle.pc = "idle"
    BY DEF Idle, Task
  <2>3. Becomes(h, Idle) \/ Becomes(h, next)
    <3>1. CASE handlers[h].status = "DELETED"
      BY <3>1 DEF TerminateDevbox, AfterTerminate
    <3>2. CASE handlers[h].status # "DELETED"
      BY <3>2 DEF TerminateDevbox, AfterTerminate
    <3>3. QED BY <3>1, <3>2
  <2>4. CASE Becomes(h, Idle)
    BY <2>2, <2>4
  <2>5. CASE Becomes(h, next)
    BY <2>1, <2>5
  <2>6. QED BY <2>3, <2>4, <2>5
<1>3. /\ \A u \in Tokens \ {t} : ec2'[u] = ec2[u]
      /\ ec2'[t].state = "terminated"
  BY <1>0, <1>1 DEF Terminated, TypeOK, Ec2Instance
<1>4. \A u \in Tokens \ {t} : (InHand(u) => InHand(u)') /\ (InSave(u) => InSave(u)')
  BY <1>0, <1>2, OthersHold
<1>5. \A g \in Handlers : handlers'[g] = handlers[g] \/ (g = h /\ handlers'[g] = w)
  BY <1>0, <1>1, <1>2, OthersHold
<1>6. \A u \in Tokens : Alive(u)' => u # t /\ Alive(u) /\ ec2[u].devbox # d
  BY <1>1, <1>3, AliveIsNamed DEF Alive
<1>7. NoOrphan'
  BY <1>0, <1>3, <1>4, <1>6 DEF OrphanInv, NoOrphan
<1>8. RunningIsKnown'
  BY <1>0, <1>3, <1>4, <1>6 DEF OrphanInv, RunningIsKnown
<1>9. MarkingIsSafe'
  BY <1>0, <1>2, <1>3, <1>4, <1>5, <1>6 DEF OrphanInv, MarkingIsSafe, At
<1>10. DeletionBegun'
  BY <1>0, <1>2, <1>5 DEF OrphanInv, DeletionBegun
<1>11. QED BY <1>7, <1>8, <1>9, <1>10 DEF OrphanInv

LEMMA MarkKeepsOrphanInv ==
  ASSUME NameInv, OrphanInv, NEW h \in Handlers, MarkDeleted(h)
  PROVE  OrphanInv'
<1>d. PICK d : d = handlers[h].devbox
  OBVIOUS
<1> USE <1>d
<1>0. TypeOK /\ At(h, "mark_deleted") /\ handlers[h].pc = "mark_deleted" /\ ec2' = ec2 /\ Becomes(h, Idle)
      /\ MarkDevboxDeleted(d)
  BY DEF NameInv, MarkDeleted, At
<1>1. d \in Devboxes
  BY <1>0, AtWork DEF HandlerPc
<1>2. \A i \in Devboxes :
        /\ rows'[i].instance = rows[i].instance
        /\ \/ rows'[i].status = rows[i].status
           \/ i = d /\ rows[i].status = "DELETING" /\ rows'[i].status = "DELETED"
  BY <1>0, <1>1 DEF MarkDevboxDeleted, SetStatus, TypeOK, Row
<1>3. \A u \in Tokens : (InHand(u) => InHand(u)') /\ (InSave(u) => InSave(u)')
  BY <1>0, OthersHold
<1>4. NoOrphan'
  BY <1>0, <1>1, <1>2, <1>3, AliveIsNamed DEF OrphanInv, NoOrphan, MarkingIsSafe, Alive
<1>5. RunningIsKnown'
  BY <1>0, <1>2, <1>3, AliveIsNamed DEF OrphanInv, RunningIsKnown, Alive
<1>6. \A g \in Handlers : handlers'[g] = handlers[g] \/ handlers'[g].pc = "idle"
  BY <1>0 DEF Becomes, TypeOK, Idle, Task
<1>7. MarkingIsSafe'
  BY <1>0, <1>2, <1>3, <1>6, AliveIsNamed DEF OrphanInv, MarkingIsSafe, Alive, At
<1>8. \A g \in Handlers : handlers[g].pc \in {"terminate", "mark_deleted"} => handlers[g].devbox \in Devboxes
  BY <1>0, AtWork DEF At, HandlerPc
<1>9. DeletionBegun'
  BY <1>2, <1>6, <1>8 DEF OrphanInv, DeletionBegun, Deleted
<1>10. QED BY <1>4, <1>5, <1>7, <1>9 DEF OrphanInv
\* An idle handler that begins or resumes the deletion of d.
LEMMA DeletionTaskKeeps ==
  ASSUME NameInv, OrphanInv, NEW h \in Handlers, handlers[h] = Idle, NEW d \in Devboxes,
         Becomes(h, DeletionTask(d, rows'[d])), ec2' = ec2,
         \A i \in Devboxes : rows'[i].instance = rows[i].instance,
         \A i \in Devboxes \ {d} : rows'[i].status = rows[i].status,
         \/ rows'[d].status = rows[d].status /\ rows[d].status \in Deleted \cup {"ABSENT"}
         \/ rows[d].status \notin Deleted /\ rows'[d].status = "DELETING"
  PROVE  OrphanInv'
<1>w. PICK w : w = DeletionTask(d, rows'[d])
  OBVIOUS
<1>0. TypeOK /\ Becomes(h, w) /\ handlers[h].pc = "idle"
  BY <1>w DEF NameInv, Idle, Task
<1>1. \A u \in Tokens : (InHand(u) => InHand(u)') /\ (InSave(u) => InSave(u)')
  BY <1>0, OthersHold
<1>2. \A u \in Tokens : Alive(u) => ec2[u].devbox \in Devboxes
  BY AliveIsNamed
<1>3. w = Idle \/ ( /\ rows'[d].status \in Deleted /\ w.devbox = d
                    /\ \/ w.pc = "mark_deleted" /\ rows[d].instance = None
                       \/ w.pc = "terminate" /\ w.token = rows[d].instance /\ rows[d].instance # None )
  <2>1. CASE rows'[d].status \in {"ABSENT", "DELETED"}
    BY <2>1, <1>w DEF DeletionTask
  <2>2. CASE rows'[d].status \notin {"ABSENT", "DELETED"}
    BY <2>2, <1>w DEF DeletionTask, Task, Deleted
  <2>3. QED BY <2>1, <2>2
<1>4. \A g \in Handlers : handlers'[g] = handlers[g] \/ (g = h /\ handlers'[g] = w)
  BY <1>0 DEF Becomes, TypeOK
<1>5. NoOrphan'
  BY <1>1, <1>2 DEF OrphanInv, NoOrphan, Alive, Deleted
<1>6. RunningIsKnown'
  BY <1>1, <1>2 DEF OrphanInv, RunningIsKnown, Alive
<1>7. DeletionBegun'
  <2> SUFFICES ASSUME NEW g \in Handlers, handlers'[g].pc \in {"terminate", "mark_deleted"}
               PROVE  rows'[handlers'[g].devbox].status \in Deleted
    BY DEF DeletionBegun
  <2>1. CASE handlers'[g] = handlers[g]
    <3>1. handlers[g].devbox \in Devboxes
      BY <1>0, <2>1, AtWork DEF At, HandlerPc
    <3>2. rows[handlers[g].devbox].status \in Deleted
      BY <2>1 DEF OrphanInv, DeletionBegun
    <3>3. QED BY <2>1, <3>1, <3>2 DEF Deleted
  <2>2. CASE handlers'[g] = w
    BY <2>2, <1>3 DEF Idle, Task
  <2>3. QED BY <2>1, <2>2, <1>4
<1>8. MarkingIsSafe'
  <2> SUFFICES ASSUME NEW u \in Tokens, NEW g \in Handlers, Alive(u), handlers'[g].pc = "mark_deleted",
                      handlers'[g].devbox = ec2[u].devbox, rows'[ec2[u].devbox].status = "DELETING"
               PROVE  InHand(u)'
    BY DEF MarkingIsSafe, Alive, At
  <2>1. CASE handlers'[g] = handlers[g]
    <3>1. rows[ec2[u].devbox].status \in Deleted
      BY <2>1 DEF OrphanInv, DeletionBegun
    <3>2. rows[ec2[u].devbox].status = "DELETING"
      BY <3>1, <1>2 DEF Deleted
    <3>3. InHand(u)
      BY <2>1, <3>2 DEF OrphanInv, MarkingIsSafe, At
    <3>4. QED BY <3>3, <1>1
  <2>2. CASE handlers'[g] = w /\ w # handlers[g]
    <3>1. ec2[u].devbox = d /\ rows[d].instance = None
      BY <2>2, <1>3 DEF Idle, Task
    <3>2. InSave(u)
      BY <3>1, NoneAssumption DEF OrphanInv, RunningIsKnown
    <3>3. InHand(u)
      BY <3>2 DEF InSave, InHand
    <3>4. QED BY <3>3, <1>1
  <2>3. QED BY <2>1, <2>2, <1>4
<1>9. QED BY <1>5, <1>6, <1>7, <1>8 DEF OrphanInv

LEMMA DeleteKeepsOrphanInv ==
  ASSUME NameInv, OrphanInv, NEW h \in Handlers, NEW d \in Devboxes, DeleteDevbox(h, d)
  PROVE  OrphanInv'
<1>1. TypeOK /\ ec2' = ec2 /\ handlers[h] = Idle /\ Becomes(h, DeletionTask(d, rows'[d]))
      /\ MarkDevboxDeleting(d)
  BY DEF NameInv, DeleteDevbox
<1>2. rows[d].status \in DevboxStatus \cup {"ABSENT"}
  BY <1>1 DEF TypeOK, Row, RowStatus
<1>3. /\ \A i \in Devboxes : rows'[i].instance = rows[i].instance
      /\ \A i \in Devboxes \ {d} : rows'[i].status = rows[i].status
      /\ \/ rows'[d].status = rows[d].status /\ rows[d].status \notin {"PROVISIONING", "READY", "FAILED"}
         \/ rows[d].status \in {"PROVISIONING", "READY", "FAILED"} /\ rows'[d].status = "DELETING"
  BY <1>1 DEF MarkDevboxDeleting, SetStatus, TypeOK, Row
<1>4. \/ rows'[d].status = rows[d].status /\ rows[d].status \in Deleted \cup {"ABSENT"}
      \/ rows[d].status \notin Deleted /\ rows'[d].status = "DELETING"
  BY <1>2, <1>3 DEF Deleted, DevboxStatus
<1>5. QED BY <1>1, <1>3, <1>4, DeletionTaskKeeps

\* A step that starts a launch, or nothing, is harmless.
LEMMA HarmlessHandler ==
  ASSUME TypeOK, NEW h \in Handlers, NEW w, Becomes(h, w),
         handlers[h].pc \notin {"save", "terminate"}, w.pc \notin {"terminate", "mark_deleted"}
  PROVE  \A g \in Handlers :
           \/ handlers'[g] = handlers[g]
           \/ /\ handlers[g].pc \notin {"save", "terminate"}
              /\ handlers'[g].pc \notin {"terminate", "mark_deleted"}
BY DEF Becomes, TypeOK

LEMMA ReconcileKeepsOrphanInv ==
  ASSUME NameInv, OrphanInv, NEW h \in Handlers, NEW d \in Devboxes, ReconcileNext(h, d)
  PROVE  OrphanInv'
<1>1. TypeOK /\ rows' = rows /\ ec2' = ec2 /\ handlers[h] = Idle /\ Becomes(h, ReconcileTask(d))
  BY DEF NameInv, ReconcileNext, AllIdle
<1>2. CASE rows[d].status = "DELETING"
  BY <1>1, <1>2, DeletionTaskKeeps DEF ReconcileTask, Deleted
<1>3. CASE rows[d].status # "DELETING"
  <2>1. PICK w : Becomes(h, w) /\ w = LaunchTask(d, rows[d])
    BY <1>1, <1>3 DEF ReconcileTask
  <2>2. w.pc \in {"idle", "launch"} /\ handlers[h].pc = "idle"
    BY <2>1, <1>1 DEF LaunchTask, Task, Idle
  <2>3. Harmless
    BY <2>1, <2>2, <1>1, HarmlessHandler DEF Harmless, Alive
  <2>4. QED BY <2>3, HarmlessKeeps
<1>4. QED BY <1>2, <1>3
\* The steps of a handler that only fail, answer or write a bootstrap status.
LEMMA QuietHandlerStep ==
  ASSUME NameInv, NEW h \in Handlers,
         LaunchRefused(h) \/ ReadAfterFailedLaunch(h) \/ ApplyTransition(h)
  PROVE  Harmless
<1>0. TypeOK /\ Named
  BY DEF NameInv
<1>1. CASE LaunchRefused(h)
  <2>1. PICK w : Becomes(h, w) /\ w = [handlers[h] EXCEPT !.pc = "launch_failed"]
    BY <1>1 DEF LaunchRefused
  <2>2. w.pc = "launch_failed" /\ handlers[h].pc = "launch"
    BY <2>1, <1>0, <1>1, AtWork DEF LaunchRefused, At, HandlerPc
  <2>3. QED BY <2>1, <2>2, <1>0, <1>1, HarmlessHandler DEF Harmless, LaunchRefused, Alive
<1>2. CASE ReadAfterFailedLaunch(h)
  <2>1. PICK w : Becomes(h, w) /\ w \in {Task("transition", handlers[h].devbox, None, "FAILED"), Idle}
    BY <1>2 DEF ReadAfterFailedLaunch
  <2>2. w.pc \in {"transition", "idle"} /\ handlers[h].pc = "launch_failed"
    BY <2>1, <1>2 DEF ReadAfterFailedLaunch, At, Task, Idle
  <2>3. QED BY <2>1, <2>2, <1>0, <1>2, HarmlessHandler DEF Harmless, ReadAfterFailedLaunch, Alive
<1>3. CASE ApplyTransition(h)
  <2>1. Becomes(h, Idle) /\ Idle.pc = "idle" /\ handlers[h].pc = "transition" /\ ec2' = ec2
    BY <1>3 DEF ApplyTransition, At, Idle, Task
  <2>2. handlers[h].devbox \in Devboxes /\ handlers[h].status \in {"READY", "FAILED"}
    BY <1>0, <1>3, AtWork DEF ApplyTransition, HandlerPc, Named, NamedTask, At
  <2>3. \A d \in Devboxes :
          /\ rows'[d].instance = rows[d].instance
          /\ \/ rows'[d].status = rows[d].status
             \/ rows[d].status = "PROVISIONING" /\ rows'[d].status \in {"READY", "FAILED"}
    BY <2>2, <1>0, <1>3 DEF ApplyTransition, TransitionDevboxBootstrap, SetStatus, TypeOK, Row
  <2>4. QED BY <2>1, <2>3, <1>0, HarmlessHandler DEF Harmless, Alive, Deleted
<1>4. QED BY <1>1, <1>2, <1>3

\* A create request starts a row or a launch; a callback starts a status update.
LEMMA QuietRequest ==
  ASSUME NameInv, NEW h \in Handlers,
         (\E d \in Devboxes : CreateDevbox(h, d)) \/ (\E m \in inflight : UpdateDevboxStatus(h, m))
  PROVE  Harmless
<1>0. TypeOK /\ Names
  BY DEF NameInv
<1>1. ASSUME NEW d \in Devboxes, CreateDevbox(h, d) PROVE Harmless
  <2>1. PICK w : Becomes(h, w) /\ (w = LaunchTask(d, rows[d]) \/ w = LaunchTask(d, rows'[d]))
    BY <1>1 DEF CreateDevbox
  <2>2. w.pc \in {"launch", "idle"} /\ handlers[h].pc = "idle" /\ ec2' = ec2
    BY <2>1, <1>1 DEF CreateDevbox, LaunchTask, Task, Idle
  <2>3. \A i \in Devboxes :
          /\ rows'[i].instance = rows[i].instance
          /\ \/ rows'[i].status = rows[i].status
             \/ rows[i].status = "ABSENT" /\ rows'[i].status = "PROVISIONING"
    <3>1. CASE rows[d].status = "ABSENT"
      <4>1. PICK t \in Tokens : InsertDevbox(d, t)
        BY <1>1, <3>1 DEF CreateDevbox
      <4>2. rows[d].instance = None
        <5>1. rows[d].token = None
          BY <3>1, <1>0 DEF Names
        <5>2. QED BY <5>1, <1>0 DEF Names
      <4>3. QED BY <3>1, <4>1, <4>2, <1>0 DEF InsertDevbox, NewRow, TypeOK, Row
    <3>2. CASE rows[d].status # "ABSENT"
      BY <3>2, <1>1 DEF CreateDevbox
    <3>3. QED BY <3>1, <3>2
  <2>4. QED BY <2>1, <2>2, <2>3, <1>0, HarmlessHandler DEF Harmless, Alive, Deleted
<1>2. ASSUME NEW m \in inflight, UpdateDevboxStatus(h, m) PROVE Harmless
  <2>1. PICK w : Becomes(h, w) /\ w \in {Task("transition", m.devbox, None, m.status), Idle}
    BY <1>2 DEF UpdateDevboxStatus
  <2>2. w.pc \in {"transition", "idle"} /\ handlers[h].pc = "idle"
    BY <2>1, <1>2 DEF UpdateDevboxStatus, Task, Idle
  <2>3. QED BY <2>1, <2>2, <1>0, <1>2, HarmlessHandler DEF Harmless, UpdateDevboxStatus, Alive
<1>3. QED BY <1>1, <1>2

\* Everything outside a handler.
LEMMA QuietWorld ==
  ASSUME NameInv,
         \/ UNCHANGED vars \/ Restart \/ Listen
         \/ \E m \in inflight : CallbackLost(m)
         \/ \E t \in Tokens : Bootstrap(t)
         \/ \E d \in Devboxes : DeadlinePasses(d)
  PROVE  Harmless
<1>0. TypeOK
  BY DEF NameInv
<1>1. CASE UNCHANGED vars
  BY <1>1 DEF vars, Harmless, Alive
<1>2. CASE Restart
  <2>1. \A d \in Devboxes :
          /\ rows'[d].instance = rows[d].instance
          /\ \/ rows'[d].status = rows[d].status
             \/ rows[d].status = "PROVISIONING" /\ rows'[d].status = "FAILED"
    BY <1>0, <1>2 DEF Restart, ExpireOverdueDevboxes, TypeOK, Row
  <2>2. QED BY <2>1, <1>2 DEF Restart, Harmless, Alive, Deleted
<1>3. CASE Listen
  BY <1>3 DEF Listen, Harmless, Alive
<1>4. CASE \E m \in inflight : CallbackLost(m)
  BY <1>4 DEF CallbackLost, Harmless, Alive
<1>5. CASE \E t \in Tokens : Bootstrap(t)
  BY <1>0, <1>5 DEF Bootstrap, Harmless, Alive, TypeOK, Ec2Instance
<1>6. CASE \E d \in Devboxes : DeadlinePasses(d)
  BY <1>0, <1>6 DEF DeadlinePasses, Harmless, Alive, TypeOK, Row
<1>7. QED BY <1>1, <1>2, <1>3, <1>4, <1>5, <1>6

LEMMA StepOrphanInv ==
  ASSUME Calm', NameInv, OrphanInv, [Next]_vars
  PROVE  OrphanInv'
<1>1. ~Fault("response_lost") /\ ~Fault("terminate_failed") /\ ~Fault("not_shown") /\ ~Fault("crash")
  BY DEF Calm, Fault, NameInv, TypeOK
<1>2. ASSUME NEW h \in Handlers, HandlerStep(h) PROVE OrphanInv'
  <2>1. \/ LaunchRefused(h) \/ ReadAfterFailedLaunch(h) \/ ApplyTransition(h)
        \/ LaunchDevbox(h) \/ SaveLaunch(h) \/ TerminateDevbox(h) \/ MarkDeleted(h)
    BY <1>1, <1>2 DEF HandlerStep, LaunchAnswerLost, TerminateFailed, InstanceNotShown
  <2>2. QED BY <2>1, QuietHandlerStep, HarmlessKeeps, LaunchKeepsOrphanInv, SaveKeepsOrphanInv,
               TerminateKeepsOrphanInv, MarkKeepsOrphanInv
<1>3. ASSUME NEW h \in Handlers, NEW d \in Devboxes,
             CreateDevbox(h, d) \/ DeleteDevbox(h, d) \/ ReconcileNext(h, d)
      PROVE  OrphanInv'
  BY <1>3, QuietRequest, HarmlessKeeps, DeleteKeepsOrphanInv, ReconcileKeepsOrphanInv
<1>4. ASSUME NEW h \in Handlers, NEW m \in inflight, UpdateDevboxStatus(h, m) PROVE OrphanInv'
  BY <1>4, QuietRequest, HarmlessKeeps
<1>5. ~Crash
  BY <1>1 DEF Crash
<1>6. CASE UNCHANGED vars
  BY <1>6, QuietWorld, HarmlessKeeps
<1>7. CASE Next
  BY <1>2, <1>3, <1>4, <1>5, <1>7, QuietWorld, HarmlessKeeps DEF Next, StartUp
<1>8. QED BY <1>6, <1>7

\* While it is calm no instance outlives its devbox: a running instance of a DELETED row is in
\* the hands of the create handler that will terminate it, in every interleaving of creates,
\* replays, deletes and callbacks.
THEOREM DeletedIsTerminated == Spec => []NoOrphanInstance
<1>1. Init => OrphanInv
  BY DEF Init, NoRow, NewRow, Idle, Task, OrphanInv, NoOrphan, RunningIsKnown,
         MarkingIsSafe, DeletionBegun, Alive, At
<1>2. NameInv /\ [Next]_vars /\ Calm' => Calm
  <2>1. [Next]_vars /\ faults \in Nat => faults' = faults \/ faults' = faults + 1
    BY DEF Next, vars, StartUp, HandlerStep, Restart, Listen, ReconcileNext, Crash, Fault, LaunchDevbox,
           LaunchRefused, LaunchAnswerLost, ReadAfterFailedLaunch, ApplyTransition, SaveLaunch,
           TerminateDevbox, InstanceNotShown, TerminateFailed, MarkDeleted, CreateDevbox, DeleteDevbox,
           UpdateDevboxStatus, CallbackLost, Bootstrap, DeadlinePasses
  <2>2. QED BY <2>1 DEF Calm, NameInv, TypeOK
<1>3. NameInv /\ (Calm => OrphanInv) /\ [Next]_vars => (Calm => OrphanInv)'
  BY <1>2, StepOrphanInv
<1>4. (Calm => OrphanInv) => NoOrphanInstance
  BY DEF OrphanInv, NoOrphan, NoOrphanInstance
<1>5. QED BY <1>1, <1>3, <1>4, NamesInvariant, PTL DEF Spec

(***************************************************************************)
(* Under every fault: a deletion that can see the id of a booted instance    *)
(* terminates it before it marks the row.  The id never changes, so whoever  *)
(* deletes the devbox, or resumes its deletion, terminates this instance,    *)
(* and since it has booted EC2 shows it to them.                             *)
(***************************************************************************)

\* The id of t, which has booted, is in d's row, and nobody marks it DELETED before t is terminated.
Kept(d, t) ==
  /\ rows[d].instance = t
  /\ ec2[t].state \in {"booted", "terminated"}
  /\ rows[d].status = "DELETED" => ec2[t].state = "terminated"
  /\ \A h \in Handlers :
       handlers[h].pc = "mark_deleted" /\ handlers[h].devbox = d => ec2[t].state = "terminated"

\* How a handler comes to mark: it has terminated, or thinks so, or it read a row without an id.
LEMMA HowToMark ==
  ASSUME NameInv, [Next]_vars, NEW h \in Handlers, handlers'[h].pc = "mark_deleted"
  PROVE  \/ handlers'[h] = handlers[h]
         \/ (TerminateDevbox(h) \/ InstanceNotShown(h)) /\ handlers'[h].devbox = handlers[h].devbox
         \/ /\ rows'[handlers'[h].devbox].instance = None
            /\ rows'[handlers'[h].devbox].status = "DELETING"
<1> DEFINE Goal == \/ handlers'[h] = handlers[h]
                   \/ (TerminateDevbox(h) \/ InstanceNotShown(h)) /\ handlers'[h].devbox = handlers[h].devbox
                   \/ /\ rows'[handlers'[h].devbox].instance = None
                      /\ rows'[handlers'[h].devbox].status = "DELETING"
<1>0. /\ \A g \in Handlers : \A w : Becomes(g, w) => handlers'[h] = IF g = h THEN w ELSE handlers[h]
      /\ TypeOK /\ Idle.pc = "idle"
  BY DEF NameInv, Becomes, TypeOK, Idle, Task
<1>1. ASSUME NEW d \in Devboxes, handlers'[h] = DeletionTask(d, rows'[d]),
             rows'[d].status \in Deleted \cup {"ABSENT"}
      PROVE  Goal
  <2>1. rows'[d].status = "DELETING"
    BY <1>0, <1>1 DEF DeletionTask, Deleted
  <2>2. CASE rows'[d].instance = None
    <3>1. handlers'[h] = Task("mark_deleted", d, None, "DELETING")
      BY <1>1, <2>1, <2>2 DEF DeletionTask
    <3>2. QED BY <2>1, <2>2, <3>1 DEF Task
  <2>3. CASE rows'[d].instance # None
    BY <1>1, <2>1, <2>3 DEF DeletionTask, Task
  <2>4. QED BY <2>2, <2>3
<1>2. ASSUME NEW g \in Handlers, NEW d \in Devboxes, DeleteDevbox(g, d) PROVE Goal
  <2>1. rows'[d].status \in Deleted \cup {"ABSENT"}
    BY <1>0, <1>2 DEF DeleteDevbox, MarkDevboxDeleting, SetStatus, TypeOK, Row, RowStatus, DevboxStatus, Deleted
  <2>2. QED BY <1>0, <1>1, <1>2, <2>1 DEF DeleteDevbox
<1>3. ASSUME NEW g \in Handlers, NEW d \in Devboxes, ReconcileNext(g, d) PROVE Goal
  <2>1. CASE rows[d].status = "DELETING"
    BY <1>0, <1>1, <1>3, <2>1 DEF ReconcileNext, ReconcileTask, Deleted
  <2>2. CASE rows[d].status # "DELETING"
    BY <1>0, <1>3, <2>2 DEF ReconcileNext, ReconcileTask, LaunchTask, Task
  <2>3. QED BY <2>1, <2>2
<1>4. ASSUME NEW g \in Handlers, TerminateDevbox(g) \/ InstanceNotShown(g) PROVE Goal
  <2>1. CASE g = h
    <3>1. handlers[h] \in [pc : HandlerPc, devbox : Devboxes, token : Tokens \cup {None}, status : RowStatus]
      BY <1>0, <1>4, <2>1, AtWork DEF TerminateDevbox, InstanceNotShown, HandlerPc
    <3>2. handlers'[h] = Idle \/ handlers'[h] = [handlers[h] EXCEPT !.pc = "mark_deleted"]
      BY <1>0, <1>4, <2>1 DEF TerminateDevbox, InstanceNotShown, AfterTerminate
    <3>3. QED BY <1>0, <1>4, <2>1, <3>1, <3>2
  <2>2. CASE g # h
    BY <1>0, <1>4, <2>2 DEF TerminateDevbox, InstanceNotShown
  <2>3. QED BY <2>1, <2>2
<1>5. ASSUME NEW g \in Handlers,
             LaunchDevbox(g) \/ LaunchRefused(g) \/ LaunchAnswerLost(g)
      PROVE  Goal
  <2>1. CASE g = h
    <3>1. handlers[h] \in [pc : HandlerPc, devbox : Devboxes, token : Tokens \cup {None}, status : RowStatus]
      BY <1>0, <1>5, <2>1, AtWork DEF LaunchDevbox, LaunchRefused, LaunchAnswerLost, HandlerPc
    <3>2. handlers'[h].pc \in {"save", "launch_failed"}
      BY <1>0, <1>5, <2>1, <3>1 DEF LaunchDevbox, LaunchRefused, LaunchAnswerLost
    <3>3. QED BY <3>2
  <2>2. CASE g # h
    BY <1>0, <1>5, <2>2 DEF LaunchDevbox, LaunchRefused, LaunchAnswerLost
  <2>3. QED BY <2>1, <2>2
<1>6. ASSUME NEW g \in Handlers, ReadAfterFailedLaunch(g) \/ SaveLaunch(g) PROVE Goal
  BY <1>0, <1>6 DEF ReadAfterFailedLaunch, SaveLaunch, AfterSave, Task
<1>7. ASSUME NEW g \in Handlers, Becomes(g, Idle) PROVE Goal
  BY <1>0, <1>7
<1>8. ASSUME NEW g \in Handlers, NEW d \in Devboxes, CreateDevbox(g, d) PROVE Goal
  BY <1>0, <1>8 DEF CreateDevbox, LaunchTask, Task
<1>9. ASSUME NEW g \in Handlers, NEW m \in inflight, UpdateDevboxStatus(g, m) PROVE Goal
  BY <1>0, <1>9 DEF UpdateDevboxStatus, Task
<1>10. CASE Crash
  BY <1>0, <1>10 DEF Crash
<1>11. QED
  BY <1>2, <1>3, <1>4, <1>5, <1>6, <1>7, <1>8, <1>9, <1>10
  DEF Next, vars, StartUp, HandlerStep, ApplyTransition, TerminateFailed, MarkDeleted, Restart, Listen,
      CallbackLost, Bootstrap, DeadlinePasses

\* A row's instance id is written once.
LEMMA InstanceIdStays ==
  ASSUME NameInv, [Next]_vars, NEW d \in Devboxes, rows[d].instance # None
  PROVE  rows'[d].instance = rows[d].instance
<1>0. TypeOK /\ rows[d].status # "ABSENT"
  BY DEF NameInv, Names
<1>1. ASSUME NEW h \in Handlers, SaveLaunch(h) PROVE rows'[d].instance = rows[d].instance
  BY <1>0, <1>1 DEF SaveLaunch, SaveDevboxLaunch, SaveAdmits, TypeOK, Row
<1>2. ASSUME NEW h \in Handlers, NEW e \in Devboxes, CreateDevbox(h, e) PROVE rows'[d].instance = rows[d].instance
  BY <1>0, <1>2 DEF CreateDevbox, InsertDevbox, TypeOK
<1>3. ASSUME NEW e, NEW from, NEW to, SetStatus(e, from, to) PROVE rows'[d].instance = rows[d].instance
  BY <1>0, <1>3 DEF SetStatus, TypeOK, Row
<1>4. CASE Restart
  BY <1>0, <1>4 DEF Restart, ExpireOverdueDevboxes, TypeOK, Row
<1>5. ASSUME NEW e \in Devboxes, DeadlinePasses(e) PROVE rows'[d].instance = rows[d].instance
  BY <1>0, <1>5 DEF DeadlinePasses, TypeOK, Row
<1>6. QED
  BY <1>1, <1>2, <1>3, <1>4, <1>5
  DEF Next, vars, StartUp, HandlerStep, LaunchDevbox, LaunchRefused, LaunchAnswerLost, ReadAfterFailedLaunch,
      ApplyTransition, TransitionDevboxBootstrap, TerminateDevbox, InstanceNotShown, TerminateFailed,
      MarkDeleted, MarkDevboxDeleted,
      DeleteDevbox, MarkDevboxDeleting, UpdateDevboxStatus, CallbackLost, Bootstrap, Listen, ReconcileNext, Crash

\* An instance that has booted does so once and is never launched again; a terminated one stays so.
LEMMA BootedForGood ==
  ASSUME NameInv, [Next]_vars, NEW t \in Tokens
  PROVE  /\ ec2[t].state = "terminated" => ec2'[t].state = "terminated"
         /\ ec2[t].state = "booted" => ec2'[t].state \in {"booted", "terminated"}
<1> DEFINE Goal == /\ ec2[t].state = "terminated" => ec2'[t].state = "terminated"
                   /\ ec2[t].state = "booted" => ec2'[t].state \in {"booted", "terminated"}
<1>0. TypeOK
  BY DEF NameInv
<1>1. ASSUME NEW h \in Handlers, LaunchDevbox(h) \/ LaunchAnswerLost(h) PROVE Goal
  BY <1>0, <1>1 DEF LaunchDevbox, LaunchAnswerLost, Launched, TypeOK
<1>2. ASSUME NEW h \in Handlers, TerminateDevbox(h) \/ TerminateFailed(h) PROVE Goal
  BY <1>0, <1>2 DEF TerminateDevbox, TerminateFailed, Terminated, TypeOK, Ec2Instance
<1>3. ASSUME NEW u \in Tokens, Bootstrap(u) PROVE Goal
  BY <1>0, <1>3 DEF Bootstrap, TypeOK
<1>4. QED
  BY <1>1, <1>2, <1>3
  DEF Next, vars, StartUp, HandlerStep, LaunchRefused, ReadAfterFailedLaunch, ApplyTransition, SaveLaunch,
      InstanceNotShown, MarkDeleted, CreateDevbox, DeleteDevbox, UpdateDevboxStatus, CallbackLost,
      DeadlinePasses, Restart, Listen, ReconcileNext, Crash

\* Rows become DELETED by being marked.
LEMMA HowToDelete ==
  ASSUME NameInv, [Next]_vars, NEW d \in Devboxes, rows[d].status # "DELETED", rows'[d].status = "DELETED"
  PROVE  \E h \in Handlers : MarkDeleted(h) /\ handlers[h].devbox = d
<1>0. TypeOK /\ Named
  BY DEF NameInv
<1>1. ASSUME NEW h \in Handlers, ApplyTransition(h) PROVE FALSE
  <2>1. handlers[h].status \in {"READY", "FAILED"}
    BY <1>0, <1>1 DEF ApplyTransition, Named, NamedTask, At
  <2>2. QED BY <1>0, <1>1, <2>1 DEF ApplyTransition, TransitionDevboxBootstrap, SetStatus, TypeOK, Row
<1>2. ASSUME NEW h \in Handlers, MarkDeleted(h) PROVE handlers[h].devbox = d
  BY <1>0, <1>2 DEF MarkDeleted, MarkDevboxDeleted, SetStatus, TypeOK
<1>3. ASSUME NEW h \in Handlers, NEW e \in Devboxes, CreateDevbox(h, e) \/ DeleteDevbox(h, e) PROVE FALSE
  BY <1>0, <1>3 DEF CreateDevbox, InsertDevbox, NewRow, DeleteDevbox, MarkDevboxDeleting, SetStatus, TypeOK, Row
<1>4. ASSUME NEW h \in Handlers, SaveLaunch(h) PROVE FALSE
  BY <1>0, <1>4 DEF SaveLaunch, SaveDevboxLaunch, TypeOK, Row
<1>5. ASSUME Restart \/ \E e \in Devboxes : DeadlinePasses(e) PROVE FALSE
  BY <1>0, <1>5 DEF Restart, ExpireOverdueDevboxes, DeadlinePasses, TypeOK, Row
<1>6. QED
  BY <1>1, <1>2, <1>3, <1>4, <1>5
  DEF Next, vars, StartUp, HandlerStep, LaunchDevbox, LaunchRefused, LaunchAnswerLost, ReadAfterFailedLaunch,
      TerminateDevbox, InstanceNotShown, TerminateFailed, UpdateDevboxStatus, CallbackLost, Bootstrap,
      Listen, ReconcileNext, Crash

\* How a handler comes to terminate: the row it read is in deletion.
LEMMA HowToTerminate ==
  ASSUME NameInv, [Next]_vars, NEW h \in Handlers, handlers'[h].pc = "terminate"
  PROVE  \/ handlers'[h] = handlers[h]
         \/ rows'[handlers'[h].devbox].status \in Deleted
<1> DEFINE Goal == \/ handlers'[h] = handlers[h]
                   \/ rows'[handlers'[h].devbox].status \in Deleted
<1>0. /\ \A g \in Handlers : \A w : Becomes(g, w) => handlers'[h] = IF g = h THEN w ELSE handlers[h]
      /\ TypeOK /\ Idle.pc = "idle"
  BY DEF NameInv, Becomes, TypeOK, Idle, Task
<1>1. ASSUME NEW d \in Devboxes, handlers'[h] = DeletionTask(d, rows'[d]),
             rows'[d].status \in Deleted \cup {"ABSENT"}
      PROVE  Goal
  <2>1. rows'[d].status = "DELETING"
    BY <1>0, <1>1 DEF DeletionTask, Deleted
  <2>2. handlers'[h].devbox = d
    BY <1>1, <2>1 DEF DeletionTask, Task
  <2>3. QED BY <2>1, <2>2 DEF Deleted
<1>2. ASSUME NEW g \in Handlers, NEW d \in Devboxes, DeleteDevbox(g, d) PROVE Goal
  <2>1. rows'[d].status \in Deleted \cup {"ABSENT"}
    BY <1>0, <1>2 DEF DeleteDevbox, MarkDevboxDeleting, SetStatus, TypeOK, Row, RowStatus, DevboxStatus, Deleted
  <2>2. QED BY <1>0, <1>1, <1>2, <2>1 DEF DeleteDevbox
<1>3. ASSUME NEW g \in Handlers, NEW d \in Devboxes, ReconcileNext(g, d) PROVE Goal
  <2>1. CASE rows[d].status = "DELETING"
    BY <1>0, <1>1, <1>3, <2>1 DEF ReconcileNext, ReconcileTask, Deleted
  <2>2. CASE rows[d].status # "DELETING"
    BY <1>0, <1>3, <2>2 DEF ReconcileNext, ReconcileTask, LaunchTask, Task
  <2>3. QED BY <2>1, <2>2
<1>4. ASSUME NEW g \in Handlers, SaveLaunch(g) PROVE Goal
  <2>d. PICK d : d = handlers[g].devbox
    OBVIOUS
  <2>1. d \in Devboxes
    BY <1>0, <1>4, <2>d, AtWork DEF SaveLaunch, HandlerPc
  <2>2. rows'[d].status = rows[d].status
    BY <1>0, <1>4, <2>1 DEF SaveLaunch, SaveDevboxLaunch, TypeOK, Row
  <2>3. Becomes(g, AfterSave(d, handlers[g].token))
    BY <1>4, <2>d DEF SaveLaunch
  <2>4. CASE g = h /\ rows[d].status \in Deleted
    <3>1. handlers'[h] = Task("terminate", d, handlers[g].token, rows[d].status)
      BY <1>0, <2>3, <2>4 DEF AfterSave
    <3>2. QED BY <2>2, <2>4, <3>1 DEF Task
  <2>5. QED BY <1>0, <2>3, <2>4 DEF AfterSave, Deleted
<1>5. ASSUME NEW g \in Handlers,
             LaunchDevbox(g) \/ LaunchRefused(g) \/ LaunchAnswerLost(g)
             \/ TerminateDevbox(g) \/ InstanceNotShown(g)
      PROVE  Goal
  <2>1. CASE g = h
    <3>1. handlers[h] \in [pc : HandlerPc, devbox : Devboxes, token : Tokens \cup {None}, status : RowStatus]
      BY <1>0, <1>5, <2>1, AtWork DEF LaunchDevbox, LaunchRefused, LaunchAnswerLost, TerminateDevbox,
         InstanceNotShown, HandlerPc
    <3>2. handlers'[h].pc \in {"save", "launch_failed", "mark_deleted", "idle"}
      BY <1>0, <1>5, <2>1, <3>1 DEF LaunchDevbox, LaunchRefused, LaunchAnswerLost, TerminateDevbox,
         InstanceNotShown, AfterTerminate, Idle, Task
    <3>3. QED BY <3>2
  <2>2. CASE g # h
    BY <1>0, <1>5, <2>2 DEF LaunchDevbox, LaunchRefused, LaunchAnswerLost, TerminateDevbox, InstanceNotShown
  <2>3. QED BY <2>1, <2>2
<1>6. ASSUME NEW g \in Handlers, ReadAfterFailedLaunch(g) PROVE Goal
  BY <1>0, <1>6 DEF ReadAfterFailedLaunch, Task
<1>7. ASSUME NEW g \in Handlers, Becomes(g, Idle) PROVE Goal
  BY <1>0, <1>7
<1>8. ASSUME NEW g \in Handlers, NEW d \in Devboxes, CreateDevbox(g, d) PROVE Goal
  BY <1>0, <1>8 DEF CreateDevbox, LaunchTask, Task
<1>9. ASSUME NEW g \in Handlers, NEW m \in inflight, UpdateDevboxStatus(g, m) PROVE Goal
  BY <1>0, <1>9 DEF UpdateDevboxStatus, Task
<1>10. CASE Crash
  BY <1>0, <1>10 DEF Crash
<1>11. QED
  BY <1>2, <1>3, <1>4, <1>5, <1>6, <1>7, <1>8, <1>9, <1>10
  DEF Next, vars, StartUp, HandlerStep, ApplyTransition, TerminateFailed, MarkDeleted, Restart, Listen,
      CallbackLost, Bootstrap, DeadlinePasses

\* A deletion is begun before anyone terminates or marks, and is never undone.
LEMMA DeletionBegunStep ==
  ASSUME NameInv, DeletionBegun, [Next]_vars
  PROVE  DeletionBegun'
<1> SUFFICES ASSUME NEW h \in Handlers, handlers'[h].pc \in {"terminate", "mark_deleted"}
             PROVE  rows'[handlers'[h].devbox].status \in Deleted
  BY DEF DeletionBegun
<1>1. ASSUME handlers[h].pc \in {"terminate", "mark_deleted"}, handlers'[h].devbox = handlers[h].devbox
      PROVE  rows'[handlers'[h].devbox].status \in Deleted
  <2>d. PICK d : d = handlers[h].devbox
    OBVIOUS
  <2>1. At(h, handlers[h].pc) /\ handlers[h].pc \in HandlerPc
    BY <1>1 DEF At, HandlerPc
  <2>2. d \in Devboxes /\ rows[d].status \in Deleted
    BY <1>1, <2>1, <2>d, AtWork DEF NameInv, DeletionBegun
  <2>3. CASE Next
    <3>1. ContractMove(d)
      BY <2>2, <2>3, StepFollowsContract
    <3>2. QED BY <1>1, <2>2, <2>d, <3>1
              DEF ContractMove, IsDevboxTransitionAllowed, DevboxTransitions, DevboxStatus, Deleted
  <2>4. CASE UNCHANGED vars
    BY <1>1, <2>2, <2>4, <2>d DEF vars
  <2>5. QED BY <2>3, <2>4
<1>2. CASE handlers'[h] = handlers[h]
  BY <1>1, <1>2
<1>3. CASE (TerminateDevbox(h) \/ InstanceNotShown(h)) /\ handlers'[h].devbox = handlers[h].devbox
  BY <1>1, <1>3 DEF TerminateDevbox, InstanceNotShown, At
<1>4. QED BY <1>2, <1>3, HowToMark, HowToTerminate DEF Deleted

LEMMA DeletionIsBegun == Spec => []DeletionBegun
<1>1. Init => DeletionBegun
  BY DEF Init, Idle, Task, DeletionBegun
<1>2. NameInv /\ DeletionBegun /\ [Next]_vars => DeletionBegun'
  BY DeletionBegunStep
<1>3. QED BY <1>1, <1>2, NamesInvariant, PTL DEF Spec

\* Every step keeps a known instance that has booted from outliving its row.
LEMMA KeptStep ==
  ASSUME NameInv, [Next]_vars, NEW d \in Devboxes, NEW t \in Tokens, Kept(d, t)
  PROVE  Kept(d, t)'
<1>1. rows[d].instance # None /\ rows'[d].instance = t
  BY NoneAssumption, InstanceIdStays DEF Kept
<1>2. /\ ec2[t].state = "terminated" => ec2'[t].state = "terminated"
      /\ ec2'[t].state \in {"booted", "terminated"}
  BY BootedForGood DEF Kept
<1>3. ASSUME NEW h \in Handlers, handlers'[h].pc = "mark_deleted", handlers'[h].devbox = d
      PROVE  ec2'[t].state = "terminated"
  <2>1. CASE handlers'[h] = handlers[h]
    BY <1>2, <1>3, <2>1 DEF Kept
  <2>2. CASE (TerminateDevbox(h) \/ InstanceNotShown(h)) /\ handlers'[h].devbox = handlers[h].devbox
    <3>1. handlers[h].token = rows[d].token
      BY <1>3, <2>2, HeldIsNamed DEF TerminateDevbox, InstanceNotShown, At
    <3>2. rows[d].token = t
      BY <1>1 DEF NameInv, Names, Kept
    <3>3. ~InstanceNotShown(h)
      BY <3>1, <3>2 DEF InstanceNotShown, Kept
    <3>4. QED BY <2>2, <3>1, <3>2, <3>3 DEF TerminateDevbox, Terminated, NameInv, TypeOK, Ec2Instance
  <2>3. CASE rows'[handlers'[h].devbox].instance = None
    BY <1>1, <1>3, <2>3, NoneAssumption
  <2>4. QED BY <1>3, <2>1, <2>2, <2>3, HowToMark
<1>4. ASSUME rows'[d].status = "DELETED" PROVE ec2'[t].state = "terminated"
  <2>1. CASE rows[d].status = "DELETED"
    BY <1>2, <2>1 DEF Kept
  <2>2. CASE rows[d].status # "DELETED"
    BY <1>2, <1>4, <2>2, HowToDelete DEF Kept, MarkDeleted, At
  <2>3. QED BY <2>1, <2>2
<1>5. QED BY <1>1, <1>2, <1>3, <1>4 DEF Kept

\* Under every fault, for any number of devboxes, tokens and requests: once an instance that has
\* booted is in the row of a devbox that nobody deletes, the devbox reads DELETED only when that
\* instance is terminated.  That it has booted is needed: EC2 may hide a younger one.
THEOREM SavedIsTerminated == Spec => SavedInstanceIsTerminated
<1> SUFFICES ASSUME NEW d \in Devboxes, NEW t \in Tokens
             PROVE  Spec => [](BootedOnRecord(d, t)
                                 => [](rows[d].status = "DELETED" => ec2[t].state = "terminated"))
  BY DEF SavedInstanceIsTerminated
<1>1. DeletionBegun /\ BootedOnRecord(d, t) => Kept(d, t)
  BY DEF DeletionBegun, BootedOnRecord, Kept, Deleted
<1>2. NameInv /\ Kept(d, t) /\ [Next]_vars => Kept(d, t)'
  BY KeptStep
<1>3. Kept(d, t) => (rows[d].status = "DELETED" => ec2[t].state = "terminated")
  BY DEF Kept
<1>4. QED BY <1>1, <1>2, <1>3, NamesInvariant, DeletionIsBegun, PTL DEF Spec

\* What the startup test promises is true as long as no answer of EC2 is lost, every terminate
\* succeeds and finds its instance, and no server dies: then a DELETED devbox that nobody works on
\* has no running instance.  Each of the four faults that Calm excludes breaks it; the run that
\* refutes the promise takes the crash.
THEOREM NothingRunsWhenCalm == Spec => [](Calm => DeletedLeavesNothingRunning)
<1>1. NameInv /\ NoOrphanInstance => (Calm => DeletedLeavesNothingRunning)
  <2> SUFFICES ASSUME NameInv, NoOrphanInstance, Calm, NEW t \in Tokens, Alive(t),
                      rows[ec2[t].devbox].status = "DELETED"
               PROVE  \E h \in Handlers : handlers[h].devbox = ec2[t].devbox
    BY DEF DeletedLeavesNothingRunning
  <2>1. PICK h \in Handlers : handlers[h].pc \in {"save", "terminate"} /\ handlers[h].token = t
    BY DEF NoOrphanInstance, InHand
  <2>2. QED BY <2>1, HeldIsNamed
<1>2. QED BY <1>1, NamesInvariant, DeletedIsTerminated, PTL
=============================================================================
