------------------------------ MODULE EndToEnd ------------------------------
(***************************************************************************)
(* One session end to end: its row and the requests of the backend (the     *)
(* steps of Sessions), its files and processes on the devbox (the steps of   *)
(* DevboxRuntime), and the HTTP exchange between them.  A callback is sent,   *)
(* received, and answered by the handler that ends with it; the poster goes   *)
(* on when it has the answer, or an error that says nothing about it.         *)
(*                                                                          *)
(* The other sessions of the backend keep the agent that Sessions gives them. *)
(***************************************************************************)
EXTENDS Naturals, Contracts

CONSTANTS SessionKeys, Devboxes, Handlers, None, FaultKinds, MaxFaults,  \* of Sessions
          Starters, Inspectors, RuntimeFaultKinds, MaxRuntimeFaults,     \* of DevboxRuntime
          Session                                                        \* the one in view

VARIABLES devboxes, sessions, handlers, serving, faults,                    \* of Sessions
          files, tmux, supervisor, agent, transport, spawned, starters,
          inspectors, posted, runtimeFaults,                                \* of DevboxRuntime
          network,    \* callbacks sent and not yet received
          sent,       \* what start and supervisor have sent: <<poster, status>>
          accepted,   \* statuses of the session that the backend has answered with a success
          recorded,   \* statuses that its state file has held (kept for the refinement only)
          others      \* the agents of the other sessions

Runtime == INSTANCE RuntimeProofs
  WITH FaultKinds <- RuntimeFaultKinds, MaxFaults <- MaxRuntimeFaults, faults <- runtimeFaults

Outcome == Runtime!Outcome
Callback(status) == [session |-> Session, status |-> status]

\* What Sessions calls an agent is the state file, and there a status is in flight from the
\* moment it is recorded, sent or not.
Agents == [s \in SessionKeys |-> IF s = Session THEN Runtime!MappedAgent ELSE others[s]]
Unsent == {Callback(status) : status \in recorded \ {post[2] : post \in sent}}

Backend == INSTANCE SessionProofs WITH agents <- Agents, inflight <- network \cup Unsent

ASSUME SessionAssumption == Session \in SessionKeys
ASSUME BackendAssumption ==
  /\ None \notin SessionKeys \cup Devboxes
  /\ FaultKinds \subseteq Backend!AllFaultKinds /\ MaxFaults \in Nat
ASSUME DevboxAssumption ==
  RuntimeFaultKinds \subseteq Runtime!AllFaultKinds /\ MaxRuntimeFaults \in Nat

devboxVars == <<files, tmux, supervisor, agent, transport, spawned, starters, inspectors,
                posted, runtimeFaults, sent, recorded>>
backendVars == <<devboxes, sessions, handlers, serving, faults, others>>
vars == <<devboxVars, backendVars, network, accepted>>

Init ==
  /\ Runtime!Init
  /\ network = {} /\ sent = {} /\ accepted = {} /\ recorded = {}
  /\ others = [s \in SessionKeys \ {Session} |-> "none"]
  /\ Backend!Init

(***************************************************************************)
(* The devbox.  The CLI starts a session whose row it has created.          *)
(***************************************************************************)
\* Mutant: RUNNING is announced before the agent is spawned.
PostingEarly ==
  {<<"supervisor", "RUNNING">> : pc \in {supervisor.pc} \cap {"spawn", "announce"}}
    \cup {<<"supervisor", Runtime!Final>> : pc \in {supervisor.pc} \cap {"post"}}
    \cup {<<"start", "FAILED">> : c \in {c \in Starters : starters[c] = "fail_post"}}

\* The request that a process is waiting for: of the supervisor, or of a start that failed.
Posting ==
  {<<"supervisor", "RUNNING">> : pc \in {supervisor.pc} \cap {"announce"}}
    \cup {<<"supervisor", Runtime!Final>> : pc \in {supervisor.pc} \cap {"post"}}
    \cup {<<"start", "FAILED">> : c \in {c \in Starters : starters[c] = "fail_post"}}

SendCallback ==
  \E post \in Posting \ sent :
    /\ sent' = sent \cup {post}
    /\ network' = network \cup {Callback(post[2])}
    /\ UNCHANGED <<files, tmux, supervisor, agent, transport, spawned, starters, inspectors,
                   posted, runtimeFaults, recorded, backendVars, accepted>>

\* Any other step there.  A poster learns of success only from the backend's answer.
DevboxStep ==
  /\ sessions[Session].status # "ABSENT"
  /\ Runtime!Next
  /\ posted' \subseteq accepted
  /\ recorded' = recorded \cup ({files'.state} \cap ({"RUNNING"} \cup Outcome))
  /\ UNCHANGED <<backendVars, network, sent, accepted>>

(***************************************************************************)
(* The backend.  A terminal row accepts every callback as it is received,   *)
(* an overdue one rejects it, any other accepts it with its UPDATE.         *)
(***************************************************************************)
Accept(s, status) == accepted' = IF s = Session THEN accepted \cup {status} ELSE accepted

\* Mutant: a callback that comes too late is answered with a success.
ReceiveCallbackLeniently(h, m) ==
  /\ m \in network
  /\ network' = network \ {m}
  /\ Accept(m.session, m.status)
  /\ UNCHANGED <<devboxVars, others>>
  /\ Backend!UpdateSessionStatus(h, m)

ReceiveCallback(h, m) ==
  /\ m \in network
  /\ network' = network \ {m}
  /\ IF sessions[m.session].status \in TerminalSession
     THEN Accept(m.session, m.status) ELSE UNCHANGED accepted
  /\ UNCHANGED <<devboxVars, others>>
  /\ Backend!UpdateSessionStatus(h, m)

AnswerCallback(h) ==
  /\ Backend!At(h, "transition")
  /\ Accept(handlers[h].session, handlers[h].status)
  /\ UNCHANGED <<devboxVars, others, network>>
  /\ Backend!TransitionSession(h)

LoseCallback(m) ==
  /\ m \in network
  /\ network' = network \ {m}
  /\ UNCHANGED <<devboxVars, others, accepted>>
  /\ Backend!CallbackLost(m)

BackendStep ==
  /\ UNCHANGED <<devboxVars, others, network, accepted>>
  /\ \/ Backend!Restart \/ Backend!Crash
     \/ \E h \in Handlers : \/ Backend!LockDevbox(h) \/ Backend!InsertSession(h)
                            \/ Backend!MarkDevboxDeleted(h) \/ Backend!TerminateFailed(h)
     \/ \E h \in Handlers, s \in SessionKeys, d \in Devboxes : Backend!CreateSession(h, s, d)
     \/ \E h \in Handlers, d \in Devboxes : Backend!DeleteDevbox(h, d)
     \/ \E d \in Devboxes : Backend!Bootstrapped(d)
     \/ \E s \in SessionKeys : Backend!DeadlinePasses(s)

OtherAgent(s, status) ==
  /\ others' = [others EXCEPT ![s] = status]
  /\ network' = network \cup {Backend!Callback(s, status)}
  /\ UNCHANGED <<devboxVars, accepted>>
  /\ IF status = "RUNNING" THEN Backend!AgentStarts(s) ELSE Backend!AgentEnds(s, status)

Next ==
  \/ SendCallback \/ DevboxStep \/ BackendStep
  \/ \E h \in Handlers, m \in network : ReceiveCallback(h, m)
  \/ \E h \in Handlers : AnswerCallback(h)
  \/ \E m \in network : LoseCallback(m)
  \/ \E s \in SessionKeys \ {Session}, status \in {"RUNNING"} \cup Outcome : OtherAgent(s, status)

Spec == Init /\ [][Next]_vars
=============================================================================
