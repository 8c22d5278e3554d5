------------------------------ MODULE Sessions ------------------------------
(***************************************************************************)
(* Agent sessions in the backend: the sessions table, the creating          *)
(* transaction with its share lock on the devbox row, the deletion of a      *)
(* devbox that fails its sessions, the start deadline, and the callbacks    *)
(* that the supervisor on the devbox posts, which may be lost, delayed or   *)
(* overtaken.                                                               *)
(*                                                                          *)
(* A session is named by its idempotency key.  Of a devbox only the status  *)
(* matters here; Devboxes has the rest of it.  A create whose body hash      *)
(* differs from the row's gets 409 and changes nothing; it is not modelled. *)
(***************************************************************************)
EXTENDS Naturals, Contracts

CONSTANTS SessionKeys,  \* idempotency keys, hence sessions
          Devboxes,
          Handlers,     \* requests the server can have in progress at once
          None,         \* SQL NULL
          FaultKinds,   \* the faults of this environment
          MaxFaults     \* how many faults there may be

AllFaultKinds == {"running_lost", "outcome_lost", "terminate_failed", "crash"}

ASSUME NoneAssumption  == None \notin SessionKeys \cup Devboxes
ASSUME FaultAssumption == FaultKinds \subseteq AllFaultKinds /\ MaxFaults \in Nat

VARIABLES devboxes,   \* the status of each devbox row
          sessions,   \* the sessions table
          agents,     \* what the agent of each session has done on its devbox
          handlers,   \* what each request in progress will do next
          serving,    \* is the server process up?
          inflight,   \* session callbacks sent and not yet received
          faults      \* faults so far

vars == <<devboxes, sessions, agents, handlers, serving, inflight, faults>>

Outcome == {"SUCCEEDED", "FAILED"}
RowStatus == SessionStatus \cup {"ABSENT"}

NewRow(s, d) == [status |-> s, devbox |-> d, overdue |-> FALSE]

\* A handler between two awaits: its step, the session, the devbox, and the status to set.
HandlerPc == {"lock", "insert", "terminate", "transition"}

Task(pc, s, d, status) == [pc |-> pc, session |-> s, devbox |-> d, status |-> status]
Idle == Task("idle", None, None, "ABSENT")

Init ==
  /\ devboxes = [d \in Devboxes |-> "PROVISIONING"]
  /\ sessions = [s \in SessionKeys |-> NewRow("ABSENT", None)]
  /\ agents = [s \in SessionKeys |-> "none"]
  /\ handlers = [h \in Handlers |-> Idle]
  /\ serving = FALSE
  /\ inflight = {}
  /\ faults = 0

Fault(kind) ==
  /\ kind \in FaultKinds
  /\ faults < MaxFaults
  /\ faults' = faults + 1

At(h, pc) == handlers[h].pc = pc
Becomes(h, task) == handlers' = [handlers EXCEPT ![h] = task]
AllIdle == \A h \in Handlers : handlers[h] = Idle
Accepts(h) == serving /\ handlers[h] = Idle

\* Mutant: the devbox is read without FOR SHARE.
ShareLockNotTaken(d) == FALSE

\* A creating transaction that found the devbox READY holds its row FOR SHARE until it
\* commits; every UPDATE of that row waits.
ShareLocked(d) == \E h \in Handlers : At(h, "insert") /\ handlers[h].devbox = d

(***************************************************************************)
(* POST /sessions: look the key up; lock and check the devbox; insert        *)
(* unless another transaction has inserted the key meanwhile; commit.        *)
(***************************************************************************)
CreateSession(h, s, d) ==
  /\ Accepts(h)
  /\ Becomes(h, IF sessions[s].status = "ABSENT" THEN Task("lock", s, d, "ABSENT") ELSE Idle)
  /\ UNCHANGED <<devboxes, sessions, agents, serving, inflight, faults>>

LockDevbox(h) ==
  /\ At(h, "lock")
  /\ Becomes(h, IF devboxes[handlers[h].devbox] = "READY"
                THEN [handlers[h] EXCEPT !.pc = "insert"] ELSE Idle)
  /\ UNCHANGED <<devboxes, sessions, agents, serving, inflight, faults>>

InsertSession(h) ==
  /\ At(h, "insert")
  /\ LET s == handlers[h].session IN
     sessions' = IF sessions[s].status = "ABSENT"
                 THEN [sessions EXCEPT ![s] = NewRow("STARTING", handlers[h].devbox)]
                 ELSE sessions
  /\ Becomes(h, Idle)
  /\ UNCHANGED <<devboxes, agents, serving, inflight, faults>>

(***************************************************************************)
(* The devbox: its bootstrap, and its deletion with the sessions on it.      *)
(***************************************************************************)
Bootstrapped(d) ==
  /\ devboxes[d] = "PROVISIONING"
  /\ \E outcome \in {"READY", "FAILED"} : devboxes' = [devboxes EXCEPT ![d] = outcome]
  /\ UNCHANGED <<sessions, agents, handlers, serving, inflight, faults>>

\* A DELETE request, or startup reconciliation of a devbox that is DELETING already.
DeleteDevbox(h, d) ==
  /\ Accepts(h)
  /\ ~ShareLocked(d)
  /\ devboxes' = IF devboxes[d] = "DELETED" THEN devboxes ELSE [devboxes EXCEPT ![d] = "DELETING"]
  /\ Becomes(h, IF devboxes[d] = "DELETED" THEN Idle ELSE Task("terminate", None, d, "ABSENT"))
  /\ UNCHANGED <<sessions, agents, serving, inflight, faults>>

\* Mutant: only the sessions whose agent has reported are failed.
OnDeletedRunning == {"RUNNING"}
OnDeleted == ActiveSession

\* One transaction: the devbox becomes DELETED and its active sessions FAILED.
MarkDevboxDeleted(h) ==
  /\ At(h, "terminate")
  /\ ~ShareLocked(handlers[h].devbox)
  /\ devboxes' = [devboxes EXCEPT ![handlers[h].devbox] = "DELETED"]
  /\ sessions' = [s \in SessionKeys |->
                    IF sessions[s].devbox = handlers[h].devbox /\ sessions[s].status \in OnDeleted
                    THEN [sessions[s] EXCEPT !.status = "FAILED"] ELSE sessions[s]]
  /\ Becomes(h, Idle)
  /\ UNCHANGED <<agents, serving, inflight, faults>>

TerminateFailed(h) ==
  /\ At(h, "terminate")
  /\ Fault("terminate_failed")
  /\ Becomes(h, Idle)
  /\ UNCHANGED <<devboxes, sessions, agents, serving, inflight>>

(***************************************************************************)
(* The supervisor on the devbox posts RUNNING when its agent has started,   *)
(* and the outcome when it has ended, or could not start.                   *)
(***************************************************************************)
Callback(s, status) == [session |-> s, status |-> status]
Post(s, status) == inflight' = inflight \cup {Callback(s, status)}

AgentStarts(s) ==
  /\ sessions[s].status # "ABSENT" /\ agents[s] = "none"
  /\ agents' = [agents EXCEPT ![s] = "RUNNING"]
  /\ Post(s, "RUNNING")
  /\ UNCHANGED <<devboxes, sessions, handlers, serving, faults>>

AgentEnds(s, outcome) ==
  /\ sessions[s].status # "ABSENT"
  /\ \/ agents[s] = "RUNNING"
     \/ agents[s] = "none" /\ outcome = "FAILED"
  /\ agents' = [agents EXCEPT ![s] = outcome]
  /\ Post(s, outcome)
  /\ UNCHANGED <<devboxes, sessions, handlers, serving, faults>>

\* Nobody retries a callback.
CallbackLost(m) ==
  /\ m \in inflight
  /\ Fault(IF m.status = "RUNNING" THEN "running_lost" ELSE "outcome_lost")
  /\ inflight' = inflight \ {m}
  /\ UNCHANGED <<devboxes, sessions, agents, handlers, serving>>

\* The one deadline of the row guards every callback, of an agent long started too.
UpdateSessionStatus(h, m) ==
  /\ Accepts(h)
  /\ m \in inflight
  /\ inflight' = inflight \ {m}
  /\ LET row == sessions[m.session] IN
     Becomes(h, IF row.status \in ActiveSession /\ ~row.overdue
                THEN Task("transition", m.session, None, m.status) ELSE Idle)
  /\ UNCHANGED <<devboxes, sessions, agents, serving, faults>>

\* Mutants: the UPDATE without its condition on the status, or with one that forgets
\* the session whose RUNNING callback never came.
TransitionFromAny(status) == RowStatus
TransitionFromReported(status) == IF status = "RUNNING" THEN {"STARTING"} ELSE {"RUNNING"}

TransitionFrom(status) == IF status = "RUNNING" THEN {"STARTING"} ELSE {"STARTING", "RUNNING"}

TransitionSession(h) ==
  /\ At(h, "transition")
  /\ LET s == handlers[h].session
         to == handlers[h].status
     IN sessions' = IF sessions[s].status \in TransitionFrom(to)
                    THEN [sessions EXCEPT ![s].status = to] ELSE sessions
  /\ Becomes(h, Idle)
  /\ UNCHANGED <<devboxes, agents, serving, inflight, faults>>

DeadlinePasses(s) ==
  /\ sessions[s].status \in ActiveSession /\ ~sessions[s].overdue
  /\ sessions' = [sessions EXCEPT ![s].overdue = TRUE]
  /\ UNCHANGED <<devboxes, agents, handlers, serving, inflight, faults>>

(***************************************************************************)
(* The process.  Open transactions are rolled back when it dies.  Overdue   *)
(* sessions are expired before it listens, and at no other time.            *)
(***************************************************************************)
\* Mutant: a request survives the process that served it.
CrashKeepsRequests ==
  /\ serving
  /\ Fault("crash")
  /\ serving' = FALSE
  /\ UNCHANGED <<devboxes, sessions, agents, handlers, inflight>>

Crash ==
  /\ serving
  /\ Fault("crash")
  /\ serving' = FALSE
  /\ handlers' = [h \in Handlers |-> Idle]
  /\ UNCHANGED <<devboxes, sessions, agents, inflight>>

\* Mutant: the UPDATE of a restart without its comparison with the deadline.
ExpiresAnyStarting(row) == row.status = "STARTING"

Expires(row) == row.status = "STARTING" /\ row.overdue

Restart ==
  /\ ~serving
  /\ serving' = TRUE
  /\ sessions' = [s \in SessionKeys |->
                    IF Expires(sessions[s]) THEN [sessions[s] EXCEPT !.status = "FAILED"]
                    ELSE sessions[s]]
  /\ UNCHANGED <<devboxes, agents, handlers, inflight, faults>>

HandlerStep(h) ==
  \/ LockDevbox(h) \/ InsertSession(h) \/ TransitionSession(h)
  \/ MarkDevboxDeleted(h) \/ TerminateFailed(h)

Receive(m) == \E h \in Handlers : UpdateSessionStatus(h, m)

Next ==
  \/ Restart \/ Crash
  \/ \E h \in Handlers : HandlerStep(h)
  \/ \E h \in Handlers, s \in SessionKeys, d \in Devboxes : CreateSession(h, s, d)
  \/ \E h \in Handlers, d \in Devboxes : DeleteDevbox(h, d)
  \/ \E d \in Devboxes : Bootstrapped(d)
  \/ \E s \in SessionKeys : AgentStarts(s) \/ DeadlinePasses(s)
  \/ \E s \in SessionKeys, outcome \in Outcome : AgentEnds(s, outcome)
  \/ \E m \in inflight : Receive(m) \/ CallbackLost(m)

Spec == Init /\ [][Next]_vars

\* Statements of the database end and the platform restarts a dead server.  A callback in
\* flight is received in the end (strong: the server takes a request at any time, it is the
\* bound on Handlers that can make one wait).
AnyCallback == [session : SessionKeys, status : {"RUNNING"} \cup Outcome]

Fairness ==
  /\ WF_vars(Restart)
  /\ \A h \in Handlers : WF_vars(HandlerStep(h))
  /\ \A m \in AnyCallback : SF_vars(m \in inflight /\ Receive(m))

FairSpec == Spec /\ Fairness
=============================================================================
