--------------------------- MODULE SessionProofs ---------------------------
(***************************************************************************)
(* Theorems about Sessions, for any number of sessions, devboxes, requests  *)
(* and faults.                                                              *)
(***************************************************************************)
EXTENDS SessionProperties, TLAPS

\* A handler at a step holds the kind of work that step is for.
LEMMA AtWork ==
  ASSUME TypeOK, NEW h \in Handlers
  PROVE  /\ \A pc \in {"lock", "insert", "terminate"} : At(h, pc) => handlers[h] \in CreateOrDelete
         /\ \A pc \in {"lock", "insert"} : At(h, pc) => handlers[h].session \in SessionKeys
         /\ At(h, "transition") => handlers[h] \in Transition
         /\ handlers[h] \in {Idle} \cup CreateOrDelete \cup Transition
         /\ handlers[h] # Idle => serving
<1>1. handlers[h] \in {Idle} \cup CreateOrDelete \cup Transition
  BY DEF TypeOK
<1>2. \A pc \in {"lock", "insert", "terminate"} : At(h, pc) => handlers[h] \in CreateOrDelete
  BY <1>1 DEF At, Idle, Task, Transition
<1>3. At(h, "transition") => handlers[h] \in Transition
  BY <1>1 DEF At, Idle, Task, CreateOrDelete
<1>4. \A pc \in {"lock", "insert"} : At(h, pc) => handlers[h].session \in SessionKeys
  BY <1>2 DEF TypeOK, At, CreateOrDelete
<1>5. handlers[h] # Idle => serving
  BY DEF TypeOK, AllIdle
<1>6. QED BY <1>1, <1>2, <1>3, <1>4, <1>5

\* The work given out to handlers is well typed.
LEMMA TaskType ==
  /\ \A s \in SessionKeys, d \in Devboxes : Task("lock", s, d, "ABSENT") \in CreateOrDelete
  /\ \A d \in Devboxes : Task("terminate", None, d, "ABSENT") \in CreateOrDelete
  /\ \A s \in SessionKeys, status \in {"RUNNING"} \cup Outcome :
       Task("transition", s, None, status) \in Transition
BY DEF Task, CreateOrDelete, Transition

\* Giving one handler well-typed work, or none, keeps the handlers well typed.
LEMMA BecomesType ==
  ASSUME TypeOK, NEW h \in Handlers, NEW task, Becomes(h, task),
         task \in {Idle} \cup CreateOrDelete \cup Transition,
         task.pc \in {"lock", "insert"} => task.session # None
  PROVE  /\ handlers' \in [Handlers -> {Idle} \cup CreateOrDelete \cup Transition]
         /\ \A k \in Handlers : handlers'[k].pc \in {"lock", "insert"} => handlers'[k].session # None
BY DEF TypeOK, Becomes

\* Every step keeps the type invariant.
LEMMA TypeStep == TypeOK /\ [Next]_vars => TypeOK'
<1> SUFFICES ASSUME TypeOK, [Next]_vars PROVE TypeOK'
  OBVIOUS
<1> USE NoneAssumption, FaultAssumption
<1>i. Idle \in {Idle} /\ ~(Idle.pc \in {"lock", "insert"})
  BY DEF Idle, Task
<1>s. \A status \in SessionStatus, d \in Devboxes \cup {None} : NewRow(status, d) \in Row
  BY DEF NewRow, Row, RowStatus
<1>1. CASE Restart
  <2>1. sessions' \in [SessionKeys -> Row]
    BY <1>1 DEF TypeOK, Restart, Row, RowStatus, SessionStatus
  <2>2. QED BY <1>1, <2>1 DEF TypeOK, Restart, AllIdle
<1>2. CASE Crash
  <2>1. AllIdle' /\ handlers' \in [Handlers -> {Idle}]
    BY <1>2 DEF Crash, AllIdle
  <2>2. faults' \in 0..MaxFaults
    BY <1>2 DEF Crash, Fault, TypeOK
  <2>3. QED BY <1>2, <2>1, <2>2, <1>i DEF TypeOK, Crash
<1>3. ASSUME NEW h \in Handlers, HandlerStep(h) PROVE TypeOK'
  <2>1. CASE LockDevbox(h)
    <3>1. handlers[h] \in CreateOrDelete /\ handlers[h].session # None /\ serving
      BY <2>1, AtWork, <1>i DEF LockDevbox, At, Idle, Task
    <3>2. [handlers[h] EXCEPT !.pc = "insert"] \in CreateOrDelete
          /\ [handlers[h] EXCEPT !.pc = "insert"].session # None
      BY <3>1 DEF CreateOrDelete
    <3>3. /\ handlers' \in [Handlers -> {Idle} \cup CreateOrDelete \cup Transition]
          /\ \A k \in Handlers : handlers'[k].pc \in {"lock", "insert"} => handlers'[k].session # None
      <4>1. CASE devboxes[handlers[h].devbox] = "READY"
        BY <2>1, <3>2, <4>1, BecomesType DEF LockDevbox
      <4>2. CASE devboxes[handlers[h].devbox] # "READY"
        BY <2>1, <1>i, <4>2, BecomesType DEF LockDevbox
      <4>3. QED BY <4>1, <4>2
    <3>4. QED BY <2>1, <3>1, <3>3 DEF LockDevbox, TypeOK
  <2>2. CASE InsertSession(h)
    <3>1. handlers[h].session \in SessionKeys /\ handlers[h].devbox \in Devboxes /\ serving
      BY <2>2, AtWork DEF InsertSession, At, Idle, Task, CreateOrDelete
    <3>2. sessions' \in [SessionKeys -> Row]
      BY <2>2, <3>1, <1>s DEF InsertSession, TypeOK, SessionStatus
    <3>3. Becomes(h, Idle)
      BY <2>2 DEF InsertSession
    <3>4. QED BY <2>2, <3>1, <3>2, <3>3, <1>i, BecomesType DEF InsertSession, TypeOK
  <2>3. CASE TransitionSession(h)
    <3>1. handlers[h].session \in SessionKeys /\ handlers[h].status \in RowStatus /\ serving
      BY <2>3, AtWork DEF TransitionSession, At, Idle, Task, Transition, RowStatus, SessionStatus, Outcome
    <3>2. sessions' \in [SessionKeys -> Row]
      BY <2>3, <3>1 DEF TransitionSession, TypeOK, Row
    <3>3. Becomes(h, Idle)
      BY <2>3 DEF TransitionSession
    <3>4. QED BY <2>3, <3>1, <3>2, <3>3, <1>i, BecomesType DEF TransitionSession, TypeOK
  <2>4. CASE MarkDevboxDeleted(h)
    <3>1. handlers[h].devbox \in Devboxes /\ serving
      BY <2>4, AtWork DEF MarkDevboxDeleted, At, Idle, Task, CreateOrDelete
    <3>2. sessions' \in [SessionKeys -> Row]
      BY <2>4 DEF MarkDevboxDeleted, TypeOK, Row, RowStatus, SessionStatus
    <3>3. devboxes' \in [Devboxes -> DevboxStatus]
      BY <2>4 DEF MarkDevboxDeleted, TypeOK, DevboxStatus
    <3>4. Becomes(h, Idle)
      BY <2>4 DEF MarkDevboxDeleted
    <3>5. QED BY <2>4, <3>1, <3>2, <3>3, <3>4, <1>i, BecomesType DEF MarkDevboxDeleted, TypeOK
  <2>5. CASE TerminateFailed(h)
    <3>1. serving
      BY <2>5, AtWork DEF TerminateFailed, At, Idle, Task
    <3>2. Becomes(h, Idle) /\ faults' \in 0..MaxFaults
      BY <2>5 DEF TerminateFailed, Fault, TypeOK
    <3>3. QED BY <2>5, <3>1, <3>2, <1>i, BecomesType DEF TerminateFailed, TypeOK
  <2>6. QED BY <1>3, <2>1, <2>2, <2>3, <2>4, <2>5 DEF HandlerStep
<1>4. ASSUME NEW h \in Handlers, NEW s \in SessionKeys, NEW d \in Devboxes, CreateSession(h, s, d)
      PROVE  TypeOK'
  <2>1. Task("lock", s, d, "ABSENT") \in CreateOrDelete /\ Task("lock", s, d, "ABSENT").session # None
    BY TaskType DEF Task
  <2>2. CASE sessions[s].status = "ABSENT"
    BY <1>4, <2>1, <2>2, BecomesType DEF CreateSession, Accepts, TypeOK
  <2>3. CASE sessions[s].status # "ABSENT"
    BY <1>4, <2>3, <1>i, BecomesType DEF CreateSession, Accepts, TypeOK
  <2>4. QED BY <2>2, <2>3
<1>5. ASSUME NEW h \in Handlers, NEW d \in Devboxes, DeleteDevbox(h, d) PROVE TypeOK'
  <2>1. /\ Task("terminate", None, d, "ABSENT") \in CreateOrDelete
        /\ Task("terminate", None, d, "ABSENT").pc = "terminate"
    BY TaskType DEF Task
  <2>2. devboxes' \in [Devboxes -> DevboxStatus]
    BY <1>5 DEF DeleteDevbox, TypeOK, DevboxStatus
  <2>3. CASE devboxes[d] = "DELETED"
    BY <1>5, <2>2, <2>3, <1>i, BecomesType DEF DeleteDevbox, Accepts, TypeOK
  <2>4. CASE devboxes[d] # "DELETED"
    BY <1>5, <2>1, <2>2, <2>4, BecomesType DEF DeleteDevbox, Accepts, TypeOK
  <2>5. QED BY <2>3, <2>4
<1>6. ASSUME NEW d \in Devboxes, Bootstrapped(d) PROVE TypeOK'
  BY <1>6 DEF Bootstrapped, TypeOK, DevboxStatus, AllIdle
<1>7. ASSUME NEW s \in SessionKeys, AgentStarts(s) PROVE TypeOK'
  BY <1>7 DEF AgentStarts, Post, Callback, TypeOK, AnyCallback, AllIdle
<1>8. ASSUME NEW s \in SessionKeys, DeadlinePasses(s) PROVE TypeOK'
  <2>1. sessions' \in [SessionKeys -> Row]
    BY <1>8 DEF DeadlinePasses, TypeOK, Row
  <2>2. QED BY <1>8, <2>1 DEF DeadlinePasses, TypeOK, AllIdle
<1>9. ASSUME NEW s \in SessionKeys, NEW outcome \in Outcome, AgentEnds(s, outcome) PROVE TypeOK'
  BY <1>9 DEF AgentEnds, Post, Callback, TypeOK, AnyCallback, AllIdle
<1>10. ASSUME NEW m \in inflight, NEW h \in Handlers, UpdateSessionStatus(h, m) PROVE TypeOK'
  <2>1. m \in AnyCallback
    BY DEF TypeOK
  <2>2. /\ Task("transition", m.session, None, m.status) \in Transition
        /\ Task("transition", m.session, None, m.status).pc = "transition"
    BY <2>1, TaskType DEF AnyCallback, Task
  <2>3. \/ Becomes(h, Task("transition", m.session, None, m.status))
        \/ Becomes(h, Idle)
    BY <1>10 DEF UpdateSessionStatus
  <2>4. QED BY <1>10, <2>2, <2>3, <1>i, BecomesType DEF UpdateSessionStatus, Accepts, TypeOK
<1>11. ASSUME NEW m \in inflight, CallbackLost(m) PROVE TypeOK'
  <2>1. faults' \in 0..MaxFaults
    BY <1>11 DEF CallbackLost, Fault, TypeOK
  <2>2. QED BY <1>11, <2>1 DEF CallbackLost, TypeOK, AllIdle
<1>12. CASE UNCHANGED vars
  BY <1>12 DEF vars, TypeOK, AllIdle
<1>13. QED
  BY <1>1, <1>2, <1>3, <1>4, <1>5, <1>6, <1>7, <1>8, <1>9, <1>10, <1>11, <1>12 DEF Next, Receive

LEMMA InitType == Init => TypeOK
<1> SUFFICES ASSUME Init PROVE TypeOK
  OBVIOUS
<1>2. sessions \in [SessionKeys -> Row] /\ devboxes \in [Devboxes -> DevboxStatus]
  BY DEF Init, NewRow, Row, RowStatus, DevboxStatus
<1>3. handlers \in [Handlers -> {Idle}] /\ Idle.pc = "idle"
  BY DEF Init, Idle, Task
<1>4. faults \in 0..MaxFaults
  BY FaultAssumption DEF Init
<1>5. QED BY <1>2, <1>3, <1>4 DEF Init, TypeOK, AllIdle

\* Type correctness: every reachable state is well typed, and a dead server holds nothing.
THEOREM TypeCorrect == Spec => []TypeOK
BY InitType, TypeStep, PTL DEF Spec

(***************************************************************************)
(* The inductive invariant behind the other theorems: a transaction that is *)
(* about to insert has its devbox READY (nobody can move the row while it   *)
(* is locked); an outcome that is on its way, in the network or in a        *)
(* handler, is the one the agent had; an existing session has a devbox.     *)
(***************************************************************************)
Locked == \A h \in Handlers : At(h, "insert") => devboxes[handlers[h].devbox] = "READY"

Truthful ==
  /\ \A m \in inflight : m.status \in Outcome => agents[m.session] = m.status
  /\ \A h \in Handlers : At(h, "transition") /\ handlers[h].status \in Outcome
                           => agents[handlers[h].session] = handlers[h].status

Placed == \A s \in SessionKeys : sessions[s].status # "ABSENT" => sessions[s].devbox \in Devboxes

SessionInv == TypeOK /\ Locked /\ Truthful /\ Placed

(***************************************************************************)
(* Everything that can happen to one session in one step.                   *)
(***************************************************************************)
SetTo(s, status) == sessions'[s] = [sessions[s] EXCEPT !.status = status]

Created(s) ==
  /\ sessions[s].status = "ABSENT"
  /\ \E d \in Devboxes : sessions'[s] = NewRow("STARTING", d) /\ devboxes[d] = "READY" /\ devboxes' = devboxes

Expired(s) == ~serving /\ Expires(sessions[s]) /\ SetTo(s, "FAILED")

FailedByDeletion(s) ==
  sessions[s].status \in ActiveSession /\ SetTo(s, "FAILED") /\ devboxes'[sessions[s].devbox] = "DELETED"

CalledBack(s) ==
  \E to \in {"RUNNING"} \cup Outcome :
    /\ sessions[s].status \in TransitionFrom(to) /\ SetTo(s, to)
    /\ to \in Outcome => agents[s] = to
    /\ devboxes' = devboxes

RanLate(s) == sessions'[s] = [sessions[s] EXCEPT !.overdue = TRUE] /\ devboxes' = devboxes

Changed(s) ==
  Created(s) \/ Expired(s) \/ FailedByDeletion(s) \/ CalledBack(s) \/ RanLate(s)

\* The active statuses, spelled out.
LEMMA Active == ActiveSession = {"STARTING", "RUNNING"} /\ TerminalSession = {"SUCCEEDED", "FAILED"}
BY DEF ActiveSession, TerminalSession, SessionStatus, SessionTransitions

\* A step changes a session only in one of these ways.
LEMMA OnlyThese ==
  ASSUME SessionInv, [Next]_vars, NEW s \in SessionKeys
  PROVE  sessions'[s] = sessions[s] \/ Changed(s)
<1> USE DEF SessionInv
<1>1. CASE Restart
  BY <1>1 DEF Restart, Changed, Expired, SetTo
<1>2. ASSUME NEW h \in Handlers, InsertSession(h) PROVE sessions'[s] = sessions[s] \/ Changed(s)
  <2>1. handlers[h].session \in SessionKeys /\ handlers[h].devbox \in Devboxes
    BY <1>2, AtWork DEF InsertSession, CreateOrDelete
  <2>2. devboxes[handlers[h].devbox] = "READY"
    BY <1>2 DEF InsertSession, Locked
  <2>3. QED BY <1>2, <2>1, <2>2 DEF InsertSession, TypeOK, Changed, Created
<1>3. ASSUME NEW h \in Handlers, TransitionSession(h) PROVE sessions'[s] = sessions[s] \/ Changed(s)
  <2>1. handlers[h].session \in SessionKeys /\ handlers[h].status \in {"RUNNING"} \cup Outcome
    BY <1>3, AtWork DEF TransitionSession, Transition
  <2>2. handlers[h].status \in Outcome => agents[handlers[h].session] = handlers[h].status
    BY <1>3 DEF TransitionSession, Truthful
  <2>3. QED BY <1>3, <2>1, <2>2 DEF TransitionSession, TypeOK, Changed, CalledBack, SetTo
<1>4. ASSUME NEW h \in Handlers, MarkDevboxDeleted(h) PROVE sessions'[s] = sessions[s] \/ Changed(s)
  <2>1. handlers[h].devbox \in Devboxes
    BY <1>4, AtWork DEF MarkDevboxDeleted, CreateOrDelete
  <2>2. QED BY <1>4, <2>1 DEF MarkDevboxDeleted, TypeOK, Changed, FailedByDeletion, SetTo, OnDeleted
<1>5. ASSUME NEW r \in SessionKeys, DeadlinePasses(r) PROVE sessions'[s] = sessions[s] \/ Changed(s)
  BY <1>5 DEF DeadlinePasses, TypeOK, Changed, RanLate
<1>6. QED
  BY <1>1, <1>2, <1>3, <1>4, <1>5
  DEF Next, HandlerStep, Crash, LockDevbox, TerminateFailed, CreateSession, DeleteDevbox, Bootstrapped,
      AgentStarts, AgentEnds, Receive, UpdateSessionStatus, CallbackLost, vars

\* A devbox that is deleted stays deleted.
LEMMA DeletedForGood ==
  ASSUME TypeOK, [Next]_vars, NEW d \in Devboxes, devboxes[d] = "DELETED"
  PROVE  devboxes'[d] = "DELETED"
<1>1. ASSUME NEW h \in Handlers, MarkDevboxDeleted(h) PROVE devboxes'[d] = "DELETED"
  BY <1>1 DEF MarkDevboxDeleted, TypeOK
<1>2. ASSUME NEW h \in Handlers, NEW e \in Devboxes, DeleteDevbox(h, e) PROVE devboxes'[d] = "DELETED"
  BY <1>2 DEF DeleteDevbox, TypeOK
<1>3. ASSUME NEW e \in Devboxes, Bootstrapped(e) PROVE devboxes'[d] = "DELETED"
  BY <1>3 DEF Bootstrapped, TypeOK
<1>4. QED
  BY <1>1, <1>2, <1>3
  DEF Next, HandlerStep, Restart, Crash, LockDevbox, InsertSession, TransitionSession, TerminateFailed,
      CreateSession, AgentStarts, AgentEnds, DeadlinePasses, Receive, UpdateSessionStatus, CallbackLost, vars

\* An agent's outcome is final.
LEMMA OutcomeForGood ==
  ASSUME TypeOK, [Next]_vars, NEW s \in SessionKeys, agents[s] \in Outcome
  PROVE  agents'[s] = agents[s]
<1>1. ASSUME NEW r \in SessionKeys, AgentStarts(r) PROVE agents'[s] = agents[s]
  BY <1>1 DEF AgentStarts, TypeOK, Outcome
<1>2. ASSUME NEW r \in SessionKeys, NEW outcome \in Outcome, AgentEnds(r, outcome)
      PROVE  agents'[s] = agents[s]
  BY <1>2 DEF AgentEnds, TypeOK, Outcome
<1>3. QED
  BY <1>1, <1>2
  DEF Next, HandlerStep, Restart, Crash, LockDevbox, InsertSession, TransitionSession, MarkDevboxDeleted,
      TerminateFailed, CreateSession, DeleteDevbox, Bootstrapped, DeadlinePasses, Receive,
      UpdateSessionStatus, CallbackLost, vars

\* How the handlers change in one step: one of them gets a new task, or all are dropped.
LEMMA HandlersMove ==
  ASSUME SessionInv, [Next]_vars, NEW h \in Handlers
  PROVE  \/ handlers'[h] = handlers[h]
         \/ handlers'[h].pc \notin {"insert", "transition"}
         \/ LockDevbox(h) /\ devboxes[handlers[h].devbox] = "READY"
         \/ \E m \in inflight : UpdateSessionStatus(h, m) /\ handlers'[h] = Task("transition", m.session, None, m.status)
<1> DEFINE Goal == \/ handlers'[h] = handlers[h]
                   \/ handlers'[h].pc \notin {"insert", "transition"}
                   \/ LockDevbox(h) /\ devboxes[handlers[h].devbox] = "READY"
                   \/ \E m \in inflight : UpdateSessionStatus(h, m) /\ handlers'[h] = Task("transition", m.session, None, m.status)
<1>0. Idle.pc = "idle" /\ \A k \in Handlers : \A task : Becomes(k, task) => handlers'[h] = IF k = h THEN task ELSE handlers[h]
  BY DEF Idle, Task, Becomes, SessionInv, TypeOK
<1>1. ASSUME NEW k \in Handlers, HandlerStep(k) PROVE Goal
  <2>1. CASE LockDevbox(k)
    BY <1>0, <2>1 DEF LockDevbox
  <2>2. CASE Becomes(k, Idle)
    BY <1>0, <2>2
  <2>3. QED
    BY <1>1, <2>1, <2>2 DEF HandlerStep, InsertSession, TransitionSession, MarkDevboxDeleted, TerminateFailed
<1>2. ASSUME NEW k \in Handlers, NEW s \in SessionKeys, NEW d \in Devboxes, CreateSession(k, s, d) PROVE Goal
  BY <1>0, <1>2 DEF CreateSession, Task
<1>3. ASSUME NEW k \in Handlers, NEW d \in Devboxes, DeleteDevbox(k, d) PROVE Goal
  BY <1>0, <1>3 DEF DeleteDevbox, Task
<1>4. ASSUME NEW m \in inflight, NEW k \in Handlers, UpdateSessionStatus(k, m) PROVE Goal
  <2>1. Becomes(k, Task("transition", m.session, None, m.status)) \/ Becomes(k, Idle)
    BY <1>4 DEF UpdateSessionStatus
  <2>2. QED BY <1>0, <1>4, <2>1
<1>5. CASE Crash
  BY <1>0, <1>5 DEF Crash
<1>6. QED
  BY <1>1, <1>2, <1>3, <1>4, <1>5
  DEF Next, Restart, Bootstrapped, AgentStarts, AgentEnds, DeadlinePasses, Receive, CallbackLost, vars

\* The lock keeps every other writer off the devbox row.
LEMMA LockedStep ==
  ASSUME SessionInv, [Next]_vars
  PROVE  Locked'
<1> SUFFICES ASSUME NEW h \in Handlers, handlers'[h].pc = "insert"
             PROVE  devboxes'[handlers'[h].devbox] = "READY"
  BY DEF Locked, At
<1>1. CASE LockDevbox(h) /\ devboxes[handlers[h].devbox] = "READY"
  <2>1. handlers[h] \in CreateOrDelete
    BY <1>1, AtWork DEF LockDevbox, SessionInv
  <2>2. handlers'[h] = [handlers[h] EXCEPT !.pc = "insert"] /\ devboxes' = devboxes
    BY <1>1 DEF LockDevbox, Becomes, SessionInv, TypeOK
  <2>3. QED BY <1>1, <2>1, <2>2 DEF CreateOrDelete
<1>2. CASE handlers'[h] = handlers[h] /\ ~(LockDevbox(h) /\ devboxes[handlers[h].devbox] = "READY")
  <2>d. PICK d : d = handlers[h].devbox
    OBVIOUS
  <2>1. d \in Devboxes /\ devboxes[d] = "READY" /\ ShareLocked(d)
    BY <1>2, <2>d, AtWork DEF SessionInv, Locked, At, CreateOrDelete, ShareLocked
  <2>2. ASSUME NEW k \in Handlers, MarkDevboxDeleted(k) PROVE devboxes'[d] = "READY"
    BY <2>1, <2>2 DEF MarkDevboxDeleted, SessionInv, TypeOK
  <2>3. ASSUME NEW k \in Handlers, NEW e \in Devboxes, DeleteDevbox(k, e) PROVE devboxes'[d] = "READY"
    BY <2>1, <2>3 DEF DeleteDevbox, SessionInv, TypeOK
  <2>4. ASSUME NEW e \in Devboxes, Bootstrapped(e) PROVE devboxes'[d] = "READY"
    BY <2>1, <2>4 DEF Bootstrapped, SessionInv, TypeOK
  <2>5. devboxes'[d] = "READY"
    BY <2>1, <2>2, <2>3, <2>4
    DEF Next, HandlerStep, Restart, Crash, LockDevbox, InsertSession, TransitionSession, TerminateFailed,
        CreateSession, AgentStarts, AgentEnds, DeadlinePasses, Receive, UpdateSessionStatus, CallbackLost, vars
  <2>6. QED BY <1>2, <2>d, <2>5
<1>3. \A m : handlers'[h] # Task("transition", m.session, None, m.status)
  BY DEF Task
<1>4. QED BY <1>1, <1>2, <1>3, HandlersMove

\* An outcome on its way stays the agent's outcome.
LEMMA TruthfulStep ==
  ASSUME SessionInv, [Next]_vars
  PROVE  Truthful'
<1> USE DEF SessionInv
<1>0. "RUNNING" \notin Outcome
  BY DEF Outcome
<1>1. ASSUME NEW m \in inflight, m.status \in Outcome PROVE agents'[m.session] = m.status
  <2>1. m.session \in SessionKeys /\ agents[m.session] = m.status
    BY <1>1 DEF Truthful, TypeOK, AnyCallback
  <2>2. QED BY <1>1, <2>1, OutcomeForGood
<1>2. ASSUME NEW m \in inflight', m.status \in Outcome PROVE agents'[m.session] = m.status
  <2>1. CASE m \in inflight
    BY <1>1, <1>2, <2>1
  <2>2. ASSUME NEW s \in SessionKeys, AgentStarts(s), m \notin inflight
        PROVE  agents'[m.session] = m.status
    BY <1>0, <1>2, <2>2 DEF AgentStarts, Post, Callback
  <2>3. ASSUME NEW s \in SessionKeys, NEW outcome \in Outcome, AgentEnds(s, outcome), m \notin inflight
        PROVE  agents'[m.session] = m.status
    BY <2>3 DEF AgentEnds, Post, Callback, TypeOK
  <2>4. QED
    BY <2>1, <2>2, <2>3
    DEF Next, HandlerStep, Restart, Crash, LockDevbox, InsertSession, TransitionSession, MarkDevboxDeleted,
        TerminateFailed, CreateSession, DeleteDevbox, Bootstrapped, DeadlinePasses, Receive,
        UpdateSessionStatus, CallbackLost, vars
<1>3. ASSUME NEW h \in Handlers, handlers'[h].pc = "transition", handlers'[h].status \in Outcome
      PROVE  agents'[handlers'[h].session] = handlers'[h].status
  <2>1. CASE handlers'[h] = handlers[h]
    <3>1. handlers[h] \in Transition
      BY <1>3, <2>1, AtWork DEF At
    <3>2. agents[handlers[h].session] = handlers[h].status /\ handlers[h].session \in SessionKeys
      BY <1>3, <2>1, <3>1 DEF Truthful, At, Transition
    <3>3. QED BY <1>3, <2>1, <3>2, OutcomeForGood
  <2>2. ASSUME NEW m \in inflight, handlers'[h] = Task("transition", m.session, None, m.status)
        PROVE  agents'[handlers'[h].session] = handlers'[h].status
    BY <1>1, <1>3, <2>2 DEF Task
  <2>3. CASE LockDevbox(h) /\ devboxes[handlers[h].devbox] = "READY"
    <3>1. handlers[h] \in CreateOrDelete
      BY <2>3, AtWork DEF LockDevbox
    <3>2. handlers'[h] = [handlers[h] EXCEPT !.pc = "insert"]
      BY <2>3 DEF LockDevbox, Becomes, TypeOK
    <3>3. QED BY <1>3, <3>1, <3>2 DEF CreateOrDelete
  <2>4. QED BY <1>3, <2>1, <2>2, <2>3, HandlersMove
<1>4. QED BY <1>2, <1>3 DEF Truthful, At

LEMMA PlacedStep ==
  ASSUME SessionInv, [Next]_vars
  PROVE  Placed'
<1> SUFFICES ASSUME NEW s \in SessionKeys, sessions'[s].status # "ABSENT"
             PROVE  sessions'[s].devbox \in Devboxes
  BY DEF Placed
<1>1. sessions[s] \in Row /\ (sessions[s].status # "ABSENT" => sessions[s].devbox \in Devboxes)
  BY DEF SessionInv, TypeOK, Placed
<1>2. CASE Created(s)
  BY <1>2 DEF Created, NewRow
<1>3. CASE Expired(s) \/ FailedByDeletion(s) \/ CalledBack(s) \/ RanLate(s)
  BY <1>1, <1>3, Active
  DEF Expired, Expires, FailedByDeletion, CalledBack, RanLate, SetTo, TransitionFrom, Row
<1>4. QED BY <1>1, <1>2, <1>3, OnlyThese DEF Changed

LEMMA InvStep == SessionInv /\ [Next]_vars => SessionInv'
BY TypeStep, LockedStep, TruthfulStep, PlacedStep DEF SessionInv

LEMMA InvInit == Init => SessionInv /\ OutcomeIsExplained /\ NoActiveSessionOnDeletedDevbox
<1> SUFFICES ASSUME Init PROVE SessionInv /\ OutcomeIsExplained /\ NoActiveSessionOnDeletedDevbox
  OBVIOUS
<1>1. TypeOK
  BY InitType
<1>2. \A s \in SessionKeys : sessions[s].status = "ABSENT"
  BY DEF Init, NewRow
<1>3. \A h \in Handlers : handlers[h].pc = "idle"
  BY DEF Init, Idle, Task
<1>4. Locked /\ Truthful /\ Placed
  BY <1>2, <1>3 DEF Init, Locked, Truthful, Placed, At
<1>5. OutcomeIsExplained /\ NoActiveSessionOnDeletedDevbox
  BY <1>2, Active DEF OutcomeIsExplained, NoActiveSessionOnDeletedDevbox
<1>6. QED BY <1>1, <1>4, <1>5 DEF SessionInv

\* The inductive invariant holds of every reachable state.
THEOREM Invariant == Spec => []SessionInv
BY InvInit, InvStep, PTL DEF Spec

\* A deleted devbox has no active session.
THEOREM DeletedHasNoActive == Spec => []NoActiveSessionOnDeletedDevbox
<1>1. ASSUME SessionInv, NoActiveSessionOnDeletedDevbox, [Next]_vars
      PROVE  NoActiveSessionOnDeletedDevbox'
  <2> SUFFICES ASSUME NEW s \in SessionKeys, sessions'[s].status \in ActiveSession
               PROVE  devboxes'[sessions'[s].devbox] # "DELETED"
    BY DEF NoActiveSessionOnDeletedDevbox
  <2>1. sessions[s] \in Row
    BY <1>1 DEF SessionInv, TypeOK
  <2>2. CASE Created(s)
    BY <2>2 DEF Created, NewRow
  <2>3. CASE Expired(s) \/ FailedByDeletion(s)
    BY <2>1, <2>3, Active DEF Expired, FailedByDeletion, SetTo, Row
  <2>4. CASE CalledBack(s) \/ RanLate(s)
    <3>1. sessions[s].status \in ActiveSession
      BY <2>1, <2>4, Active DEF CalledBack, RanLate, SetTo, Row, TransitionFrom
    <3>2. sessions'[s].devbox = sessions[s].devbox /\ devboxes' = devboxes
      BY <2>1, <2>4 DEF CalledBack, RanLate, SetTo, Row
    <3>3. QED BY <1>1, <3>1, <3>2 DEF NoActiveSessionOnDeletedDevbox
  <2>5. CASE sessions'[s] = sessions[s]
    <3>d. PICK d : d = sessions[s].devbox
      OBVIOUS
    <3>1. d \in Devboxes /\ devboxes[d] # "DELETED"
      BY <1>1, <2>5, <3>d, Active DEF SessionInv, Placed, NoActiveSessionOnDeletedDevbox
    <3>2. ASSUME NEW h \in Handlers, MarkDevboxDeleted(h), devboxes'[d] = "DELETED" PROVE FALSE
      <4>1. handlers[h].devbox = d
        BY <1>1, <3>1, <3>2 DEF MarkDevboxDeleted, SessionInv, TypeOK
      <4>2. sessions'[s].status = "FAILED"
        BY <2>1, <2>5, <3>2, <3>d, <4>1 DEF MarkDevboxDeleted, OnDeleted, Row
      <4>3. QED BY <4>2, Active
    <3>3. ASSUME NEW h \in Handlers, NEW e \in Devboxes, DeleteDevbox(h, e) PROVE devboxes'[d] # "DELETED"
      BY <1>1, <3>1, <3>3 DEF DeleteDevbox, SessionInv, TypeOK
    <3>4. ASSUME NEW e \in Devboxes, Bootstrapped(e) PROVE devboxes'[d] # "DELETED"
      BY <1>1, <3>1, <3>4 DEF Bootstrapped, SessionInv, TypeOK
    <3>5. devboxes'[d] # "DELETED"
      BY <1>1, <3>1, <3>2, <3>3, <3>4
      DEF Next, HandlerStep, Restart, Crash, LockDevbox, InsertSession, TransitionSession, TerminateFailed,
          CreateSession, AgentStarts, AgentEnds, DeadlinePasses, Receive, UpdateSessionStatus, CallbackLost, vars
    <3>6. QED BY <2>5, <3>d, <3>5
  <2>6. QED BY <1>1, <2>2, <2>3, <2>4, <2>5, OnlyThese DEF Changed
<1>2. QED BY <1>1, InvInit, Invariant, PTL DEF Spec

\* A session is created only on a devbox that is READY at that moment.
THEOREM CreatedOnReady == Spec => CreatedOnReadyDevbox
<1>1. ASSUME SessionInv, [Next]_vars
      PROVE  [\A s \in SessionKeys :
                sessions'[s].devbox # sessions[s].devbox
                  => /\ sessions[s].status = "ABSENT"
                     /\ devboxes[sessions'[s].devbox] = "READY"]_vars
  <2> SUFFICES ASSUME NEW s \in SessionKeys, sessions'[s].devbox # sessions[s].devbox
               PROVE  sessions[s].status = "ABSENT" /\ devboxes[sessions'[s].devbox] = "READY"
    OBVIOUS
  <2>1. sessions[s] \in Row
    BY <1>1 DEF SessionInv, TypeOK
  <2>2. Created(s)
    BY <1>1, <2>1, OnlyThese
    DEF Changed, Expired, FailedByDeletion, CalledBack, RanLate, SetTo, Row
  <2>3. QED BY <2>2 DEF Created, NewRow
<1>2. QED BY <1>1, Invariant, PTL DEF Spec, CreatedOnReadyDevbox

\* A step keeps every outcome explained.
LEMMA ExplainedStep ==
  ASSUME SessionInv, OutcomeIsExplained, [Next]_vars
  PROVE  OutcomeIsExplained'
<1> SUFFICES ASSUME NEW s \in SessionKeys
             PROVE  /\ sessions'[s].status = "SUCCEEDED" => agents'[s] = "SUCCEEDED"
                    /\ sessions'[s].status = "FAILED" => \/ agents'[s] = "FAILED"
                                                         \/ devboxes'[sessions'[s].devbox] = "DELETED"
                                                         \/ sessions'[s].overdue
  BY DEF OutcomeIsExplained
<1>1. sessions[s] \in Row /\ "FAILED" \in Outcome /\ "SUCCEEDED" \in Outcome
  BY DEF SessionInv, TypeOK, Outcome
<1>2. \A o \in Outcome : agents[s] = o => agents'[s] = o
  BY OutcomeForGood DEF SessionInv
<1>3. sessions[s].status # "ABSENT" /\ devboxes[sessions[s].devbox] = "DELETED"
        => devboxes'[sessions[s].devbox] = "DELETED"
  BY DeletedForGood DEF SessionInv, Placed
<1>4. CASE Created(s)
  BY <1>4 DEF Created, NewRow
<1>5. CASE Expired(s)
  BY <1>1, <1>5 DEF Expired, Expires, SetTo, Row
<1>6. CASE FailedByDeletion(s)
  BY <1>1, <1>6 DEF FailedByDeletion, SetTo, Row
<1>7. CASE CalledBack(s)
  BY <1>1, <1>2, <1>7 DEF CalledBack, SetTo, Row, Outcome
<1>8. CASE sessions'[s] = sessions[s] \/ RanLate(s)
  BY <1>1, <1>2, <1>3, <1>8 DEF RanLate, Row, OutcomeIsExplained
<1>9. QED BY <1>4, <1>5, <1>6, <1>7, <1>8, OnlyThese DEF Changed

\* A terminal status says what happened.
THEOREM OutcomeExplained == Spec => []OutcomeIsExplained
BY InvInit, Invariant, ExplainedStep, PTL DEF Spec

\* Statuses of sessions move along the contract's table.
THEOREM ContractRefined == Spec => RefinesContract
<1>1. Init => SessionStatuses!Init
  BY DEF Init, NewRow, SessionStatuses!Init
<1>2. ASSUME SessionInv, [Next]_vars
      PROVE  [SessionStatuses!Next]_[s \in SessionKeys |-> sessions[s].status]
  <2>1. ASSUME NEW s \in SessionKeys
        PROVE  \/ sessions'[s].status = sessions[s].status
               \/ sessions[s].status = "ABSENT" /\ sessions'[s].status = "STARTING"
               \/ sessions[s].status # "ABSENT" /\ IsSessionTransitionAllowed(sessions[s].status, sessions'[s].status)
    <3>1. sessions[s] \in Row
      BY <1>2 DEF SessionInv, TypeOK
    <3>2. CASE Created(s)
      BY <3>2 DEF Created, NewRow
    <3>3. CASE Expired(s) \/ FailedByDeletion(s) \/ CalledBack(s) \/ RanLate(s)
      <4>1. \/ sessions'[s].status = sessions[s].status
            \/ sessions[s].status = "STARTING" /\ sessions'[s].status \in {"RUNNING", "SUCCEEDED", "FAILED"}
            \/ sessions[s].status = "RUNNING" /\ sessions'[s].status \in {"SUCCEEDED", "FAILED"}
        BY <3>1, <3>3, Active
        DEF Expired, Expires, FailedByDeletion, CalledBack, RanLate, SetTo, Row, TransitionFrom, Outcome
      <4>2. QED BY <4>1 DEF IsSessionTransitionAllowed, SessionTransitions, SessionStatus
    <3>4. QED BY <1>2, <3>2, <3>3, OnlyThese DEF Changed
  <2>2. SessionStatuses!Next
    BY <2>1 DEF SessionStatuses!Next, SessionStatuses!Created, SessionStatuses!Moved
  <2>3. QED BY <2>2
<1>3. QED BY <1>1, <1>2, Invariant, PTL DEF Spec, RefinesContract, SessionStatuses!Spec

(***************************************************************************)
(* "A transient RUNNING callback failure is nonfatal" is refuted with a      *)
(* crash, and only with one: a server that never dies never expires a row.  *)
(***************************************************************************)

\* The one start of the server found no session, and nothing has failed one since but its
\* agent and its devbox.
NeverRestarted ==
  /\ serving \/ \A s \in SessionKeys : sessions[s].status = "ABSENT"
  /\ \A s \in SessionKeys :
       sessions[s].status = "FAILED" =>
         agents[s] = "FAILED" \/ devboxes[sessions[s].devbox] = "DELETED"

LEMMA NeverRestartedStep ==
  ASSUME "crash" \notin FaultKinds, SessionInv, NeverRestarted, [Next]_vars
  PROVE  NeverRestarted'
<1> USE DEF SessionInv
<1>1. serving => serving'
  BY DEF Next, HandlerStep, Restart, Crash, Fault, LockDevbox, InsertSession, TransitionSession,
         MarkDevboxDeleted, TerminateFailed, CreateSession, DeleteDevbox, Bootstrapped, AgentStarts,
         AgentEnds, DeadlinePasses, Receive, UpdateSessionStatus, CallbackLost, vars
<1>2. ASSUME NEW s \in SessionKeys, ~serving, ~serving' PROVE sessions'[s].status = "ABSENT"
  <2>1. sessions[s].status = "ABSENT" /\ \A h \in Handlers : handlers[h].pc = "idle"
    BY <1>2 DEF NeverRestarted, TypeOK, AllIdle, Idle, Task
  <2>2. QED
    BY <1>2, <2>1, Active
    DEF Next, HandlerStep, Restart, Crash, LockDevbox, InsertSession, TransitionSession,
        MarkDevboxDeleted, TerminateFailed, CreateSession, DeleteDevbox, Bootstrapped, AgentStarts,
        AgentEnds, DeadlinePasses, Receive, UpdateSessionStatus, CallbackLost, vars, At, TypeOK
<1>3. ASSUME NEW s \in SessionKeys, sessions'[s].status = "FAILED"
      PROVE  agents'[s] = "FAILED" \/ devboxes'[sessions'[s].devbox] = "DELETED"
  <2>1. sessions[s] \in Row /\ "FAILED" \in Outcome
    BY DEF TypeOK, Outcome
  <2>2. agents[s] = "FAILED" => agents'[s] = "FAILED"
    BY <2>1, OutcomeForGood
  <2>3. sessions[s].status # "ABSENT" /\ devboxes[sessions[s].devbox] = "DELETED"
          => devboxes'[sessions[s].devbox] = "DELETED"
    BY DeletedForGood DEF Placed
  <2>4. CASE Created(s)
    BY <1>3, <2>4 DEF Created, NewRow
  <2>5. ~Expired(s)
    BY DEF NeverRestarted, Expired, Expires
  <2>6. CASE FailedByDeletion(s)
    BY <2>1, <2>6 DEF FailedByDeletion, SetTo, Row
  <2>7. CASE CalledBack(s)
    BY <1>3, <2>1, <2>2, <2>7 DEF CalledBack, SetTo, Row
  <2>8. CASE sessions'[s] = sessions[s] \/ RanLate(s)
    BY <1>3, <2>1, <2>2, <2>3, <2>8 DEF RanLate, Row, NeverRestarted
  <2>9. QED BY <2>4, <2>5, <2>6, <2>7, <2>8, OnlyThese DEF Changed
<1>4. QED BY <1>1, <1>2, <1>3 DEF NeverRestarted

\* The supervisor's comment is right of a server that is never restarted: a session whose devbox
\* nobody deletes reads FAILED only when its agent has failed, whatever callback was lost or late.
THEOREM NonfatalWithoutCrash ==
  "crash" \notin FaultKinds => (Spec => RunningFailureIsNonfatal)
<1> SUFFICES ASSUME "crash" \notin FaultKinds PROVE Spec => RunningFailureIsNonfatal
  OBVIOUS
<1>1. SessionInv /\ NeverRestarted /\ [Next]_vars => NeverRestarted'
  BY NeverRestartedStep
<1>2. Init => NeverRestarted
  BY DEF Init, NewRow, NeverRestarted
<1>3. Spec => []NeverRestarted
  BY <1>1, <1>2, Invariant, PTL DEF Spec
<1>4. ASSUME NEW s \in SessionKeys
      PROVE  NeverRestarted =>
               ( sessions[s].status = "FAILED" /\ agents[s] = "RUNNING"
                   => \/ devboxes[sessions[s].devbox] # "READY"
                      \/ Callback(s, "RUNNING") \in inflight )
  BY DEF NeverRestarted
<1> SUFFICES ASSUME NEW s \in SessionKeys
             PROVE  Spec => []( agents[s] = "RUNNING" /\ ~sessions[s].overdue /\ sessions[s].status = "STARTING"
                                 => []( sessions[s].status = "FAILED" /\ agents[s] = "RUNNING"
                                          => \/ devboxes[sessions[s].devbox] # "READY"
                                             \/ Callback(s, "RUNNING") \in inflight ) )
  BY DEF RunningFailureIsNonfatal
<1>5. QED BY <1>3, <1>4, PTL

(***************************************************************************)
(* What holds of a row whatever the agents do and report: a composition      *)
(* with another devbox can rely on it.                                      *)
(***************************************************************************)
LEMMA RowMoves ==
  ASSUME TypeOK, [Next]_vars, NEW s \in SessionKeys
  PROVE  /\ sessions[s].status # "ABSENT" => sessions'[s].status # "ABSENT"
         /\ sessions[s].status \in TerminalSession => sessions'[s].status = sessions[s].status
         /\ sessions'[s].status \in {sessions[s].status, "STARTING", "FAILED"}
              \/ \E h \in Handlers : /\ TransitionSession(h) /\ handlers[h].session = s
                                     /\ handlers[h].status = sessions'[s].status
<1> DEFINE Goal ==
      /\ sessions[s].status # "ABSENT" => sessions'[s].status # "ABSENT"
      /\ sessions[s].status \in TerminalSession => sessions'[s].status = sessions[s].status
      /\ sessions'[s].status \in {sessions[s].status, "STARTING", "FAILED"}
           \/ \E h \in Handlers : /\ TransitionSession(h) /\ handlers[h].session = s
                                  /\ handlers[h].status = sessions'[s].status
<1>0. sessions[s] \in Row
  BY DEF TypeOK
<1>1. CASE Restart
  BY <1>0, <1>1, Active DEF Restart, Expires, Row
<1>2. ASSUME NEW h \in Handlers, InsertSession(h) PROVE Goal
  <2>1. handlers[h].session \in SessionKeys
    BY <1>2, AtWork DEF InsertSession
  <2>2. CASE sessions' = sessions
    BY <2>2
  <2>3. CASE /\ sessions[handlers[h].session].status = "ABSENT"
             /\ sessions' = [sessions EXCEPT ![handlers[h].session] = NewRow("STARTING", handlers[h].devbox)]
    BY <1>0, <2>1, <2>3, Active DEF NewRow, TypeOK
  <2>4. QED BY <1>2, <2>2, <2>3 DEF InsertSession
<1>3. ASSUME NEW h \in Handlers, TransitionSession(h) PROVE Goal
  <2>1. handlers[h].session \in SessionKeys /\ handlers[h].status \in {"RUNNING"} \cup Outcome
    BY <1>3, AtWork DEF TransitionSession, Transition
  <2>2. CASE handlers[h].session = s
    BY <1>0, <1>3, <2>1, <2>2, Active DEF TransitionSession, TransitionFrom, TypeOK, Row, Outcome
  <2>3. CASE handlers[h].session # s
    BY <1>0, <1>3, <2>1, <2>3 DEF TransitionSession, TypeOK
  <2>4. QED BY <2>2, <2>3
<1>4. ASSUME NEW h \in Handlers, MarkDevboxDeleted(h) PROVE Goal
  BY <1>0, <1>4, Active DEF MarkDevboxDeleted, OnDeleted, Row
<1>5. ASSUME NEW r \in SessionKeys, DeadlinePasses(r) PROVE Goal
  BY <1>0, <1>5 DEF DeadlinePasses, TypeOK, Row
<1>6. QED
  BY <1>1, <1>2, <1>3, <1>4, <1>5
  DEF Next, HandlerStep, Crash, LockDevbox, TerminateFailed, CreateSession, DeleteDevbox, Bootstrapped,
      AgentStarts, AgentEnds, Receive, UpdateSessionStatus, CallbackLost, vars
=============================================================================
