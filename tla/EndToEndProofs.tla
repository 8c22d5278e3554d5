--------------------------- MODULE EndToEndProofs ---------------------------
(***************************************************************************)
(* Theorems about EndToEnd, for any number of sessions, devboxes, requests,  *)
(* starts, inspections and faults.  They rest on those about its two halves.  *)
(***************************************************************************)
EXTENDS EndToEndProperties, TLAPS

\* A step of the whole is a step of the devbox or leaves the devbox alone.
LEMMA DevboxMoves == [Next]_vars => [Runtime!Next]_(Runtime!vars)
BY DEF Next, vars, devboxVars, SendCallback, DevboxStep, BackendStep, ReceiveCallback, AnswerCallback,
       LoseCallback, OtherAgent, Runtime!vars

\* The devbox in the whole is the devbox of DevboxRuntime, whatever the backend does.
LEMMA DevboxImplemented == Spec => Runtime!Spec
<1>1. Init => Runtime!Init
  BY DEF Init
<1>2. QED BY <1>1, DevboxMoves, PTL DEF Spec, Runtime!Spec

LEMMA DevboxCorrect == Spec => [](Runtime!TypeOK /\ Runtime!RuntimeInv)
BY DevboxImplemented, Runtime!TypeCorrect, Runtime!RuntimeCorrect, DevboxAssumption, PTL

\* Whatever is not a step of the devbox or of its posters is a step of the backend.
LEMMA BackendMoves ==
  ASSUME [Next]_vars
  PROVE  \/ SendCallback \/ DevboxStep \/ UNCHANGED vars
         \/ Backend!Next /\ UNCHANGED devboxVars
<1> USE DEF Backend!Next
<1>1. BackendStep => Backend!Next
  BY DEF BackendStep, Backend!HandlerStep
<1>2. ASSUME NEW h \in Handlers, NEW m \in network, ReceiveCallback(h, m) PROVE Backend!Next
  BY <1>2 DEF ReceiveCallback, Backend!Receive
<1>3. ASSUME NEW h \in Handlers, AnswerCallback(h) PROVE Backend!Next
  BY <1>3 DEF AnswerCallback, Backend!HandlerStep
<1>4. ASSUME NEW m \in network, LoseCallback(m) PROVE Backend!Next
  BY <1>4 DEF LoseCallback
<1>5. ASSUME NEW s \in SessionKeys \ {Session}, NEW status \in {"RUNNING"} \cup Outcome, OtherAgent(s, status)
      PROVE  Backend!Next
  BY <1>5 DEF OtherAgent, Outcome, Runtime!Outcome, Backend!Outcome
<1>6. BackendStep => UNCHANGED devboxVars
  BY DEF BackendStep
<1>7. QED
  BY <1>1, <1>2, <1>3, <1>4, <1>5, <1>6 DEF Next, ReceiveCallback, AnswerCallback, LoseCallback, OtherAgent

\* A poster posts a status of its own.
LEMMA PostingTypes == Posting \subseteq {"start", "supervisor"} \X Statuses
BY DEF Posting, Statuses, Outcome, Runtime!Outcome, Runtime!Final

\* Sending moves a callback into the network, and nothing else that TypeOK speaks of.
LEMMA SendTypes ==
  ASSUME TypeOK, SendCallback
  PROVE  TypeOK'
<1>1. PICK post \in Posting \ sent : sent' = sent \cup {post} /\ network' = network \cup {Callback(post[2])}
  BY DEF SendCallback
<1>2. /\ UNCHANGED <<files, tmux, supervisor, agent, transport, spawned, starters, inspectors, posted, runtimeFaults>>
      /\ UNCHANGED <<recorded, accepted, others>>
      /\ UNCHANGED <<devboxes, sessions, handlers, serving, faults>>
  BY DEF SendCallback, backendVars
<1>3. post \in {"start", "supervisor"} \X Statuses /\ post[2] \in Statuses
  BY PostingTypes
<1>4. Sent' = Sent \cup {post[2]}
  BY <1>1 DEF Sent
<1>5. Callback(post[2]) \in Backend!AnyCallback
  BY <1>3, SessionAssumption
     DEF Callback, Statuses, Outcome, Runtime!Outcome, Backend!Outcome, Backend!AnyCallback
<1>6. Runtime!TypeOK'
  BY <1>2 DEF TypeOK, Runtime!TypeOK
<1>7. Backend!TypeOK'
  <2>1. Unsent' \subseteq Backend!AnyCallback
    BY <1>2, SessionAssumption DEF TypeOK, Unsent, Callback, Statuses, Outcome, Runtime!Outcome,
       Backend!Outcome, Backend!AnyCallback
  <2>2. Agents' = Agents
    BY <1>2 DEF Agents, Runtime!MappedAgent
  <2>3. QED BY <1>1, <1>2, <1>5, <2>1, <2>2 DEF TypeOK, Backend!TypeOK, Backend!AllIdle
<1>8. \A m \in network' : m.session = Session => m.status \in Sent'
  BY <1>1, <1>4 DEF TypeOK, Callback
<1>9. QED BY <1>1, <1>2, <1>3, <1>4, <1>5, <1>6, <1>7, <1>8 DEF TypeOK

LEMMA DevboxTypes ==
  ASSUME TypeOK, Runtime!TypeOK', DevboxStep
  PROVE  TypeOK'
<1>1. /\ UNCHANGED <<devboxes, sessions, handlers, serving, faults, others, network, sent, accepted>>
      /\ posted' \subseteq accepted /\ recorded' \subseteq Statuses
  BY DEF DevboxStep, backendVars, TypeOK, Statuses
<1>2. Unsent' \subseteq Backend!AnyCallback
  BY <1>1, SessionAssumption DEF Unsent, Callback, Statuses, Outcome, Runtime!Outcome,
     Backend!Outcome, Backend!AnyCallback
<1>3. Agents' \in [SessionKeys -> {"none", "RUNNING"} \cup Backend!Outcome]
  <2>1. files'.state \in {"absent", "STARTING", "RUNNING", "SUCCEEDED", "FAILED"}
    BY DEF Runtime!TypeOK, Runtime!States, Runtime!SessionStatus
  <2>2. Runtime!MappedAgent' \in {"none", "RUNNING", "SUCCEEDED", "FAILED"}
    BY <2>1 DEF Runtime!MappedAgent
  <2>3. \A s \in SessionKeys \ {Session} : others'[s] \in {"none", "RUNNING", "SUCCEEDED", "FAILED"}
    BY <1>1 DEF TypeOK, Statuses, Outcome, Runtime!Outcome
  <2>4. QED BY <2>2, <2>3 DEF Agents, Backend!Outcome
<1>4. Backend!TypeOK'
  BY <1>1, <1>2, <1>3 DEF TypeOK, Backend!TypeOK, Backend!AllIdle
<1>5. QED BY <1>1, <1>4 DEF TypeOK, Sent

\* Every step keeps the type invariant.
LEMMA TypeStep ==
  ASSUME TypeOK, Runtime!RuntimeInv, [Next]_vars
  PROVE  TypeOK'
<1>1. Runtime!TypeOK'
  BY DevboxMoves, Runtime!TypeStep, DevboxAssumption DEF TypeOK
<1>2. ASSUME Backend!Next, UNCHANGED devboxVars PROVE Backend!TypeOK'
  BY <1>2, Backend!TypeStep, BackendAssumption DEF TypeOK
<1>3. CASE SendCallback
  BY <1>3, SendTypes
<1>4. CASE DevboxStep
  BY <1>1, <1>4, DevboxTypes
<1>5. CASE UNCHANGED vars
  <2>1. Backend!TypeOK'
    BY <1>5 DEF vars, devboxVars, backendVars, TypeOK, Backend!TypeOK, Backend!AllIdle, Agents, Unsent,
       Runtime!MappedAgent
  <2>2. QED BY <1>1, <1>5, <2>1 DEF vars, devboxVars, backendVars, TypeOK, Sent
<1>6. ASSUME NEW h \in Handlers, NEW m \in network, ReceiveCallback(h, m) PROVE TypeOK'
  <2>1. Backend!Next
    BY <1>6 DEF ReceiveCallback, Backend!Next, Backend!Receive
  <2>2. UNCHANGED <<devboxVars, others>> /\ network' = network \ {m}
    BY <1>6 DEF ReceiveCallback
  <2>3. accepted \subseteq accepted' /\ accepted' \subseteq Statuses
    BY <1>6 DEF ReceiveCallback, Accept, TypeOK, Backend!AnyCallback, Statuses, Outcome,
       Runtime!Outcome, Backend!Outcome
  <2>4. QED BY <1>1, <1>2, <2>1, <2>2, <2>3 DEF TypeOK, Sent, devboxVars
<1>7. ASSUME NEW h \in Handlers, AnswerCallback(h) PROVE TypeOK'
  <2>1. Backend!Next
    BY <1>7 DEF AnswerCallback, Backend!Next, Backend!HandlerStep
  <2>2. UNCHANGED <<devboxVars, others, network>>
    BY <1>7 DEF AnswerCallback
  <2>3. handlers[h].status \in Statuses
    BY <1>7, Backend!AtWork, BackendAssumption
       DEF AnswerCallback, TypeOK, Backend!Transition, Statuses, Outcome, Runtime!Outcome, Backend!Outcome
  <2>4. accepted \subseteq accepted' /\ accepted' \subseteq Statuses
    BY <1>7, <2>3 DEF AnswerCallback, Accept, TypeOK
  <2>5. QED BY <1>1, <1>2, <2>1, <2>2, <2>4 DEF TypeOK, Sent, devboxVars
<1>8. ASSUME NEW m \in network, LoseCallback(m) PROVE TypeOK'
  <2>1. Backend!Next
    BY <1>8 DEF LoseCallback, Backend!Next
  <2>2. UNCHANGED <<devboxVars, others, accepted>> /\ network' = network \ {m}
    BY <1>8 DEF LoseCallback
  <2>3. QED BY <1>1, <1>2, <2>1, <2>2 DEF TypeOK, Sent, devboxVars
<1>9. ASSUME BackendStep PROVE TypeOK'
  <2>1. Backend!Next
    BY <1>9 DEF BackendStep, Backend!Next, Backend!HandlerStep
  <2>2. UNCHANGED <<devboxVars, others, network, accepted>>
    BY <1>9 DEF BackendStep
  <2>3. QED BY <1>1, <1>2, <2>1, <2>2 DEF TypeOK, Sent, devboxVars
<1>10. ASSUME NEW s \in SessionKeys \ {Session}, NEW status \in {"RUNNING"} \cup Outcome, OtherAgent(s, status)
       PROVE  TypeOK'
  <2>1. Backend!Next
    BY <1>10 DEF OtherAgent, Backend!Next, Outcome, Runtime!Outcome, Backend!Outcome
  <2>2. /\ UNCHANGED <<devboxVars, accepted>> /\ network' = network \cup {Backend!Callback(s, status)}
        /\ others' = [others EXCEPT ![s] = status]
    BY <1>10 DEF OtherAgent
  <2>3. Backend!Callback(s, status) \in Backend!AnyCallback
    BY DEF Backend!Callback, Backend!AnyCallback, Outcome, Runtime!Outcome, Backend!Outcome
  <2>4. Backend!Callback(s, status).session # Session
    BY DEF Backend!Callback
  <2>5. QED BY <1>1, <1>2, <2>1, <2>2, <2>3, <2>4 DEF TypeOK, Sent, devboxVars, Statuses
<1>11. QED
  BY <1>3, <1>4, <1>5, <1>6, <1>7, <1>8, <1>9, <1>10 DEF Next

LEMMA InitType == Init => TypeOK
<1> SUFFICES ASSUME Init PROVE TypeOK
  OBVIOUS
<1>1. Runtime!TypeOK
  BY Runtime!RuntimeInit, DevboxAssumption DEF Init
<1>2. Backend!TypeOK
  BY Backend!InitType, BackendAssumption DEF Init
<1>3. QED BY <1>1, <1>2 DEF Init, TypeOK, Runtime!Init

\* The whole is well typed, whatever fails on either side.
THEOREM TypeCorrect == Spec => []TypeOK
BY InitType, TypeStep, DevboxCorrect, PTL DEF Spec

(***************************************************************************)
(* The row is earned, and the token is kept for it.  The invariant follows   *)
(* a status from the file it is read from, through the request, into the     *)
(* row: each has it from the one before, and what it was sent for is final.  *)
(***************************************************************************)

\* What is sent has happened.
Honest ==
  /\ "RUNNING" \in Sent => spawned = 1
  /\ "SUCCEEDED" \in Sent => Runtime!Completed

\* What a handler is about to set, and what the row reads, was sent.
Followed ==
  /\ \A h \in Handlers :
       Backend!At(h, "transition") /\ handlers[h].session = Session =>
         handlers[h].status \in Sent /\ sessions[Session].status # "ABSENT"
  /\ sessions[Session].status \in {"RUNNING", "SUCCEEDED"} => sessions[Session].status \in Sent

\* The backend answers an outcome with a success only when the row is terminal.
Answered == accepted \cap Outcome # {} => sessions[Session].status \in TerminalSession

Wire == Honest /\ Followed /\ Answered

LEMMA Terminal ==
  /\ TerminalSession = {"SUCCEEDED", "FAILED"} /\ Backend!TerminalSession = {"SUCCEEDED", "FAILED"}
  /\ Backend!ActiveSession = {"STARTING", "RUNNING"}
  /\ Outcome = {"SUCCEEDED", "FAILED"} /\ Backend!Outcome = {"SUCCEEDED", "FAILED"}
BY Backend!Active, BackendAssumption
   DEF TerminalSession, SessionStatus, SessionTransitions, Outcome, Runtime!Outcome, Backend!Outcome

\* Nothing is sent that has not happened, and nothing that has happened is undone.
LEMMA HonestStep ==
  ASSUME TypeOK, Runtime!RuntimeInv, Honest, [Next]_vars
  PROVE  Honest'
<1>1. CASE SendCallback
  <2>1. PICK post \in Posting \ sent : sent' = sent \cup {post}
    BY <1>1 DEF SendCallback
  <2>2. UNCHANGED <<files, agent, transport, spawned>>
    BY <1>1 DEF SendCallback
  <2>3. Sent' = Sent \cup {post[2]}
    BY <2>1 DEF Sent
  <2>4. post[2] = "RUNNING" => spawned = 1
    BY <2>1 DEF Posting, Runtime!Final, Runtime!RuntimeInv, Runtime!Supervised
  <2>5. post[2] = "SUCCEEDED" => Runtime!Completed
    BY <2>1 DEF Posting, Runtime!Final, Runtime!RuntimeInv, Runtime!Supervised, Runtime!Completed
  <2>6. QED BY <2>2, <2>3, <2>4, <2>5 DEF Honest, Runtime!Completed
<1>2. CASE ~SendCallback
  <2>1. Sent' = Sent
    BY <1>2 DEF Sent, Next, vars, devboxVars, DevboxStep, BackendStep, ReceiveCallback,
       AnswerCallback, LoseCallback, OtherAgent
  <2>2. spawned = 1 => spawned' = 1
    BY DevboxMoves, Runtime!SpawnedForGood, DevboxAssumption DEF TypeOK
  <2>3. Runtime!Completed => Runtime!Completed'
    BY DevboxMoves, Runtime!CompletedForGood, DevboxAssumption DEF TypeOK
  <2>4. QED BY <2>1, <2>2, <2>3 DEF Honest
<1>3. QED BY <1>1, <1>2

\* Only a request that receives a callback is given a status to set.
LEMMA NoNewTransition ==
  ASSUME Backend!TypeOK, NEW h \in Handlers, handlers'[h].pc = "transition",
         \/ BackendStep \/ \E k \in Handlers : AnswerCallback(k)
         \/ \E m \in network : LoseCallback(m)
         \/ \E s \in SessionKeys \ {Session}, status \in {"RUNNING"} \cup Outcome : OtherAgent(s, status)
  PROVE  handlers'[h] = handlers[h]
<1> DEFINE Goal == handlers'[h] = handlers[h]
<1>0. /\ Backend!Idle.pc = "idle"
      /\ \A k \in Handlers : \A task :
           Backend!Becomes(k, task) => handlers'[h] = IF k = h THEN task ELSE handlers[h]
  BY DEF Backend!Idle, Backend!Task, Backend!Becomes, Backend!TypeOK
<1>1. ASSUME NEW k \in Handlers, Backend!LockDevbox(k) PROVE Goal
  <2>1. \/ Backend!Becomes(k, [handlers[k] EXCEPT !.pc = "insert"])
        \/ Backend!Becomes(k, Backend!Idle)
    BY <1>1 DEF Backend!LockDevbox
  <2>2. handlers[k] \in Backend!CreateOrDelete
    BY <1>1, Backend!AtWork, BackendAssumption DEF Backend!LockDevbox
  <2>3. [handlers[k] EXCEPT !.pc = "insert"].pc = "insert"
    BY <2>2 DEF Backend!CreateOrDelete
  <2>4. QED BY <1>0, <2>1, <2>3
<1>2. ASSUME NEW k \in Handlers, Backend!InsertSession(k) \/ Backend!TransitionSession(k)
               \/ Backend!MarkDevboxDeleted(k) \/ Backend!TerminateFailed(k)
      PROVE  Goal
  <2>1. Backend!Becomes(k, Backend!Idle)
    BY <1>2 DEF Backend!InsertSession, Backend!TransitionSession, Backend!MarkDevboxDeleted,
       Backend!TerminateFailed
  <2>2. QED BY <1>0, <2>1
<1>3. ASSUME NEW k \in Handlers, NEW s \in SessionKeys, NEW d \in Devboxes, Backend!CreateSession(k, s, d)
      PROVE  Goal
  BY <1>0, <1>3 DEF Backend!CreateSession, Backend!Task
<1>4. ASSUME NEW k \in Handlers, NEW d \in Devboxes, Backend!DeleteDevbox(k, d) PROVE Goal
  BY <1>0, <1>4 DEF Backend!DeleteDevbox, Backend!Task
<1>5. CASE Backend!Crash
  BY <1>0, <1>5 DEF Backend!Crash
<1>6. CASE BackendStep
  BY <1>1, <1>2, <1>3, <1>4, <1>5, <1>6
  DEF BackendStep, Backend!Restart, Backend!Bootstrapped, Backend!DeadlinePasses
<1>7. CASE \E k \in Handlers : AnswerCallback(k)
  BY <1>2, <1>7 DEF AnswerCallback
<1>8. CASE \E m \in network : LoseCallback(m)
  BY <1>8 DEF LoseCallback, Backend!CallbackLost
<1>9. CASE \E s \in SessionKeys \ {Session}, status \in {"RUNNING"} \cup Outcome : OtherAgent(s, status)
  BY <1>9 DEF OtherAgent, Backend!AgentStarts, Backend!AgentEnds
<1>10. QED BY <1>6, <1>7, <1>8, <1>9

\* The row of the session changes by steps of the backend only.
LEMMA RowStep ==
  ASSUME TypeOK, [Next]_vars
  PROVE  \/ sessions' = sessions
         \/ /\ sessions[Session].status # "ABSENT" => sessions'[Session].status # "ABSENT"
            /\ sessions[Session].status \in TerminalSession
                 => sessions'[Session].status = sessions[Session].status
            /\ sessions'[Session].status \in {sessions[Session].status, "STARTING", "FAILED"}
                 \/ \E h \in Handlers :
                      /\ Backend!At(h, "transition") /\ handlers[h].session = Session
                      /\ handlers[h].status = sessions'[Session].status
<1>1. CASE Backend!Next
  <2>1. Backend!TypeOK
    BY DEF TypeOK
  <2>2. /\ sessions[Session].status # "ABSENT" => sessions'[Session].status # "ABSENT"
        /\ sessions[Session].status \in Backend!TerminalSession
             => sessions'[Session].status = sessions[Session].status
        /\ sessions'[Session].status \in {sessions[Session].status, "STARTING", "FAILED"}
             \/ \E h \in Handlers : /\ Backend!TransitionSession(h) /\ handlers[h].session = Session
                                    /\ handlers[h].status = sessions'[Session].status
    BY <1>1, <2>1, Backend!RowMoves, BackendAssumption, SessionAssumption
  <2>3. QED BY <2>2, Terminal DEF Backend!TransitionSession
<1>2. CASE ~Backend!Next
  BY <1>2, BackendMoves DEF SendCallback, DevboxStep, vars, backendVars
<1>3. QED BY <1>1, <1>2

LEMMA FollowedStep ==
  ASSUME TypeOK, Followed, [Next]_vars
  PROVE  Followed'
<1>1. Sent \subseteq Sent'
  BY DEF Sent, Next, vars, devboxVars, SendCallback, DevboxStep, BackendStep, ReceiveCallback,
     AnswerCallback, LoseCallback, OtherAgent
<1>2. sessions'[Session].status \in {"RUNNING", "SUCCEEDED"} => sessions'[Session].status \in Sent'
  BY <1>1, RowStep DEF Followed
<1>3. sessions[Session].status # "ABSENT" => sessions'[Session].status # "ABSENT"
  BY RowStep
<1>4. ASSUME NEW h \in Handlers, handlers'[h].pc = "transition", handlers'[h].session = Session
      PROVE  handlers'[h].status \in Sent' /\ sessions'[Session].status # "ABSENT"
  <2>1. CASE handlers'[h] = handlers[h]
    BY <1>1, <1>3, <1>4, <2>1 DEF Followed, Backend!At
  <2>2. ASSUME NEW k \in Handlers, NEW m \in network, ReceiveCallback(k, m)
        PROVE  handlers'[h].status \in Sent' /\ sessions'[Session].status # "ABSENT"
    <3> DEFINE task == Backend!Task("transition", m.session, None, m.status)
               row == sessions[m.session]
    <3>1. /\ handlers' = [handlers EXCEPT ![k] = IF row.status \in Backend!ActiveSession /\ ~row.overdue
                                                  THEN task ELSE Backend!Idle]
          /\ sessions' = sessions
      BY <2>2 DEF ReceiveCallback, Backend!UpdateSessionStatus, Backend!Becomes
    <3>2. CASE handlers'[h] # handlers[h]
      <4>1. handlers'[h] = task /\ row.status \in Backend!ActiveSession
        BY <1>4, <3>1, <3>2 DEF TypeOK, Backend!TypeOK, Backend!Idle, Backend!Task
      <4>2. m.session = Session /\ handlers'[h].status = m.status
        BY <1>4, <4>1 DEF Backend!Task
      <4>3. QED BY <1>1, <3>1, <4>1, <4>2, Terminal DEF TypeOK
    <3>3. QED BY <2>1, <3>2
  <2>3. CASE SendCallback \/ DevboxStep \/ UNCHANGED vars
    BY <2>1, <2>3 DEF SendCallback, DevboxStep, vars, backendVars
  <2>4. QED BY <1>4, <2>1, <2>2, <2>3, NoNewTransition DEF Next, TypeOK
<1>5. QED BY <1>2, <1>4 DEF Followed, Backend!At

LEMMA AnsweredStep ==
  ASSUME TypeOK, Followed, Answered, [Next]_vars
  PROVE  Answered'
<1>1. sessions[Session].status \in TerminalSession => sessions'[Session].status \in TerminalSession
  BY RowStep
<1>2. CASE accepted' \cap Outcome = accepted \cap Outcome
  BY <1>1, <1>2 DEF Answered
<1>3. ASSUME NEW h \in Handlers, NEW m \in network, ReceiveCallback(h, m) PROVE Answered'
  <2>1. sessions' = sessions
    BY <1>3 DEF ReceiveCallback, Backend!UpdateSessionStatus
  <2>2. accepted' = accepted \/ sessions[Session].status \in TerminalSession
    BY <1>3 DEF ReceiveCallback, Accept
  <2>3. QED BY <1>2, <2>1, <2>2 DEF Answered
<1>4. ASSUME NEW h \in Handlers, AnswerCallback(h) PROVE Answered'
  <2>1. CASE handlers[h].session # Session \/ handlers[h].status \notin Outcome
    BY <1>2, <1>4, <2>1 DEF AnswerCallback, Accept
  <2>2. CASE handlers[h].session = Session /\ handlers[h].status \in Outcome
    <3>1. sessions[Session] \in Backend!Row /\ sessions[Session].status # "ABSENT"
      BY <1>4, <2>2, SessionAssumption DEF AnswerCallback, Followed, TypeOK, Backend!TypeOK
    <3>2. sessions[Session].status \in {"STARTING", "RUNNING", "SUCCEEDED", "FAILED"}
      BY <3>1 DEF Backend!Row, Backend!RowStatus, Backend!SessionStatus
    <3>3. CASE sessions[Session].status \in {"STARTING", "RUNNING"}
      <4>1. Backend!TransitionFrom(handlers[h].status) = {"STARTING", "RUNNING"}
        BY <2>2, Terminal DEF Backend!TransitionFrom
      <4>2. sessions' = [sessions EXCEPT ![Session].status = handlers[h].status]
        BY <1>4, <2>2, <3>3, <4>1 DEF AnswerCallback, Backend!TransitionSession
      <4>3. sessions'[Session].status = handlers[h].status
        BY <3>1, <4>2, SessionAssumption DEF TypeOK, Backend!TypeOK, Backend!Row
      <4>4. QED BY <2>2, <4>3, Terminal DEF Answered
    <3>4. CASE sessions[Session].status \in {"SUCCEEDED", "FAILED"}
      BY <1>1, <3>4, Terminal DEF Answered
    <3>5. QED BY <3>2, <3>3, <3>4
  <2>3. QED BY <2>1, <2>2
<1>5. QED
  BY <1>2, <1>3, <1>4 DEF Next, vars, SendCallback, DevboxStep, BackendStep, LoseCallback, OtherAgent

LEMMA WireInit == Init => Wire
BY SessionAssumption
   DEF Init, Wire, Honest, Followed, Answered, Sent, Backend!Init, Backend!NewRow, Backend!Idle,
       Backend!Task, Backend!At

LEMMA WireCorrect == Spec => []Wire
<1>1. TypeOK /\ Runtime!RuntimeInv /\ Wire /\ [Next]_vars => Wire'
  BY HonestStep, FollowedStep, AnsweredStep DEF Wire
<1>2. QED BY <1>1, WireInit, TypeCorrect, DevboxCorrect, PTL DEF Spec

\* Under every fault of both sides: what a row says of an agent was so on the devbox.
THEOREM Earned == Spec => []RowIsEarned
<1>1. Wire => RowIsEarned
  BY DEF Wire, Honest, Followed, RowIsEarned, Runtime!Completed
<1>2. QED BY <1>1, WireCorrect, PTL

\* Under every fault of both sides: no token is dropped while its row is active.
THEOREM TokenKept == Spec => []TokenGoneRowFinal
<1>1. TypeOK /\ Runtime!RuntimeInv /\ Wire => TokenGoneRowFinal
  BY DEF TypeOK, Runtime!RuntimeInv, Runtime!TokenOutlivesReport, Wire, Answered, Outcome, TokenGoneRowFinal
<1>2. QED BY <1>1, WireCorrect, TypeCorrect, DevboxCorrect, PTL

(***************************************************************************)
(* The seam.  The backend's agent of the session is its state file, and a    *)
(* status is in flight from its recording to its receipt: what was sent was   *)
(* recorded, no two posters send the same, and so a sending changes nothing   *)
(* for the backend.  A start that fails a session whose supervisor tmux did    *)
(* start would be a second poster of FAILED: hence TmuxIsTrue.                *)
(***************************************************************************)
Logged ==
  /\ Runtime!MappedAgent = "none" => recorded = {}
  /\ Runtime!MappedAgent = "RUNNING" => recorded = {"RUNNING"}
  /\ Runtime!MappedAgent \in Outcome =>
       Runtime!MappedAgent \in recorded /\ recorded \subseteq {"RUNNING", Runtime!MappedAgent}
  /\ Sent \subseteq recorded
  /\ \A post \in sent :
       IF post[1] = "start"
       THEN post[2] = "FAILED" /\ supervisor.pc = "none" /\ files.state = "FAILED"
       ELSE supervisor.pc # "none"

\* The state file moves once to RUNNING and once to an outcome.
LEMMA StateMoves ==
  ASSUME Runtime!TypeOK, Runtime!RuntimeInv, Runtime!Ordered, [Next]_vars
  PROVE  \/ Runtime!MappedAgent' = Runtime!MappedAgent
         \/ Runtime!MappedAgent = "none" /\ Runtime!MappedAgent' \in {"RUNNING", "FAILED"}
         \/ Runtime!MappedAgent = "RUNNING" /\ Runtime!MappedAgent' \in {"SUCCEEDED", "FAILED"}
<1>1. [Runtime!AgentReported!Next]_(Runtime!MappedVars)
  BY DevboxMoves, Runtime!AgentStep, DevboxAssumption
<1>2. QED
  BY <1>1 DEF Runtime!MappedVars, Runtime!AgentReported!Next, Runtime!AgentReported!Starts,
              Runtime!AgentReported!Ends, Runtime!AgentReported!Reported, Runtime!MappedAgent

\* What is recorded is what the file has come to say.
LEMMA Recording ==
  ASSUME Runtime!TypeOK', DevboxStep
  PROVE  recorded' = recorded \cup ({Runtime!MappedAgent'} \ {"none"})
BY Terminal DEF DevboxStep, Runtime!MappedAgent, Runtime!TypeOK, Runtime!States, Runtime!SessionStatus

\* Nobody sends what has been sent, and what is sent has been recorded.
LEMMA SentOnce ==
  ASSUME TypeOK, Runtime!Ordered, Logged, NEW post \in Posting \ sent
  PROVE  /\ post[2] \in recorded /\ post[2] \notin Sent
         /\ IF post[1] = "start"
            THEN post[2] = "FAILED" /\ supervisor.pc = "none" /\ files.state = "FAILED"
            ELSE supervisor.pc # "none"
<1>1. \A p \in sent : p = <<p[1], p[2]>> /\ p[1] \in {"start", "supervisor"}
  BY DEF TypeOK
<1>2. CASE post = <<"supervisor", "RUNNING">> /\ supervisor.pc = "announce"
  <2>1. Runtime!MappedAgent = "RUNNING"
    BY <1>2 DEF Runtime!Ordered, Runtime!MappedAgent
  <2>2. QED BY <1>1, <1>2, <2>1 DEF Logged, Sent
<1>3. CASE post = <<"supervisor", Runtime!Final>> /\ supervisor.pc = "post"
  <2>1. Runtime!MappedAgent = Runtime!Final /\ Runtime!Final \in Outcome
    BY <1>3, Terminal DEF Runtime!Ordered, Runtime!MappedAgent, Runtime!Final
  <2>2. QED BY <1>1, <1>3, <2>1 DEF Logged, Sent
<1>4. CASE post = <<"start", "FAILED">> /\ \E c \in Starters : starters[c] = "fail_post"
  <2>1. Runtime!MappedAgent = "FAILED" /\ files.state = "FAILED" /\ supervisor.pc = "none"
    BY <1>4 DEF Runtime!Ordered, Runtime!Failing, Runtime!MappedAgent
  <2>2. QED BY <1>1, <1>4, <2>1, Terminal DEF Logged, Sent
<1>5. QED BY <1>2, <1>3, <1>4 DEF Posting

LEMMA LoggedStep ==
  ASSUME TypeOK, Runtime!RuntimeInv, Runtime!Ordered, Logged, [Next]_vars
  PROVE  Logged'
<1>0. Runtime!TypeOK /\ Runtime!TypeOK'
  BY DevboxMoves, Runtime!TypeStep, DevboxAssumption DEF TypeOK
<1>1. CASE SendCallback
  <2>1. PICK post \in Posting \ sent : sent' = sent \cup {post}
    BY <1>1 DEF SendCallback
  <2>2. UNCHANGED <<files, supervisor, recorded>> /\ Sent' = Sent \cup {post[2]}
    BY <1>1, <2>1 DEF SendCallback, Sent
  <2>3. UNCHANGED Runtime!MappedAgent
    BY <2>2 DEF Runtime!MappedAgent
  <2>4. QED BY <2>1, <2>2, <2>3, SentOnce DEF Logged
<1>2. CASE DevboxStep
  <2>1. sent' = sent /\ Sent' = Sent /\ recorded' = recorded \cup ({Runtime!MappedAgent'} \ {"none"})
    BY <1>0, <1>2, Recording DEF DevboxStep, Sent
  <2>2. \A post \in sent :
          IF post[1] = "start"
          THEN post[2] = "FAILED" /\ supervisor'.pc = "none" /\ files'.state = "FAILED"
          ELSE supervisor'.pc # "none"
    <3>1. /\ supervisor.pc = "none" /\ supervisor'.pc # "none" => files.state = "STARTING"
          /\ supervisor.pc # "none" => supervisor'.pc # "none"
      BY <1>0, DevboxMoves, Runtime!SupervisorBegins, DevboxAssumption
    <3>2. files.state = "FAILED" => files'.state = "FAILED"
      BY <1>0, StateMoves DEF Runtime!MappedAgent
    <3>3. QED BY <3>1, <3>2 DEF Logged
  <2>3. Runtime!MappedAgent \in {"none", "RUNNING"} \cup Outcome
    BY <1>0, Terminal DEF Runtime!MappedAgent, Runtime!TypeOK, Runtime!States, Runtime!SessionStatus
  <2>4. QED BY <1>0, <2>1, <2>2, <2>3, StateMoves, Terminal DEF Logged
<1>3. CASE ~SendCallback /\ ~DevboxStep
  <2>1. UNCHANGED <<files, supervisor, recorded, sent>>
    BY <1>3, BackendMoves DEF devboxVars, vars
  <2>2. QED BY <2>1 DEF Logged, Sent, Runtime!MappedAgent
<1>4. QED BY <1>1, <1>2, <1>3

LEMMA LoggedCorrect ==
  ASSUME Runtime!TmuxIsTrue
  PROVE  Spec => [](TypeOK /\ Runtime!TypeOK /\ Runtime!RuntimeInv /\ Runtime!Ordered /\ Logged)
<1>1. Init => Logged
  BY DEF Init, Runtime!Init, Logged, Sent, Runtime!MappedAgent, Outcome, Runtime!Outcome
<1>2. Spec => [](Runtime!TypeOK /\ Runtime!RuntimeInv /\ Runtime!Ordered)
  <2>1. Runtime!InspectionInv => Runtime!Ordered
    BY DEF Runtime!InspectionInv
  <2>2. QED BY <2>1, DevboxImplemented, Runtime!AlwaysBelieved, DevboxAssumption, PTL
<1>3. TypeOK /\ Runtime!RuntimeInv /\ Runtime!Ordered /\ Logged /\ [Next]_vars => Logged'
  BY LoggedStep
<1>4. QED BY <1>1, <1>2, <1>3, TypeCorrect, PTL DEF Spec

\* A step of the devbox is to the backend a step of its agent, with the callback it posts, or none.
LEMMA DevboxIsAgent ==
  ASSUME TypeOK, Runtime!RuntimeInv, Runtime!Ordered, Logged, DevboxStep
  PROVE  [Backend!Next]_(Backend!vars)
<1> DEFINE now == Runtime!MappedAgent
           next == Runtime!MappedAgent'
<1>0. Runtime!TypeOK /\ Runtime!TypeOK' /\ [Next]_vars
  BY DevboxMoves, Runtime!TypeStep, DevboxAssumption DEF TypeOK, Next
<1>1. /\ UNCHANGED <<devboxes, sessions, handlers, serving, faults, others, network, sent>>
      /\ sessions[Session].status # "ABSENT"
  BY DEF DevboxStep, backendVars
<1>2. recorded' = recorded \cup ({next} \ {"none"})
  BY <1>0, Recording
<1>3. now \in {"none", "RUNNING"} \cup Outcome
  BY <1>0, Terminal DEF Runtime!MappedAgent, Runtime!TypeOK, Runtime!States, Runtime!SessionStatus
<1>4. Agents \in [SessionKeys -> {"none", "RUNNING"} \cup Backend!Outcome] /\ Agents[Session] = now
  BY SessionAssumption DEF TypeOK, Backend!TypeOK, Agents
<1>5. Agents' = [Agents EXCEPT ![Session] = next]
  BY <1>1, SessionAssumption DEF Agents
<1>6. CASE next = now
  <2>1. recorded' = recorded
    BY <1>2, <1>3, <1>6, Terminal DEF Logged
  <2>2. UNCHANGED <<Agents, Unsent>>
    BY <1>1, <1>4, <1>5, <1>6, <2>1 DEF Unsent
  <2>3. QED BY <1>1, <2>2 DEF Backend!vars
<1>7. CASE next # now
  <2>1. next \notin Sent /\ next # "none"
    BY <1>0, <1>7, StateMoves, Terminal DEF Logged
  <2>2. Unsent' = Unsent \cup {Backend!Callback(Session, next)}
    BY <1>1, <1>2, <2>1 DEF Unsent, Sent, Callback, Backend!Callback
  <2>3. Backend!Post(Session, next)
    BY <1>1, <2>2 DEF Backend!Post
  <2>4. CASE now = "none" /\ next = "RUNNING"
    BY <1>1, <1>4, <1>5, <2>3, <2>4, SessionAssumption DEF Backend!AgentStarts, Backend!Next
  <2>5. CASE \/ now = "none" /\ next = "FAILED"
             \/ now = "RUNNING" /\ next \in {"SUCCEEDED", "FAILED"}
    <3>1. Backend!AgentEnds(Session, next)
      BY <1>1, <1>4, <1>5, <2>3, <2>5 DEF Backend!AgentEnds
    <3>2. QED BY <2>5, <3>1, SessionAssumption, Terminal DEF Backend!Next
  <2>6. QED BY <1>0, <1>7, <2>4, <2>5, StateMoves
<1>8. QED BY <1>6, <1>7

\* A sending is nothing to the backend: what is sent was in flight already.
LEMMA SendingIsNothing ==
  ASSUME TypeOK, Runtime!Ordered, Logged, SendCallback
  PROVE  UNCHANGED Backend!vars
<1>1. PICK post \in Posting \ sent :
        sent' = sent \cup {post} /\ network' = network \cup {Callback(post[2])}
  BY DEF SendCallback
<1>2. UNCHANGED <<devboxes, sessions, handlers, serving, faults, others, files, recorded>>
  BY DEF SendCallback, backendVars
<1>3. post[2] \in recorded /\ post[2] \notin Sent
  BY SentOnce
<1>4. Sent' = Sent \cup {post[2]}
  BY <1>1 DEF Sent
<1>5. Unsent = {Callback(x) : x \in recorded \ Sent} /\ Unsent' = {Callback(x) : x \in recorded' \ Sent'}
  BY DEF Unsent, Sent, Callback
<1>6. Unsent' \cup {Callback(post[2])} = Unsent
  BY <1>2, <1>3, <1>4, <1>5
<1>7. network' \cup Unsent' = network \cup Unsent
  BY <1>1, <1>6
<1>8. UNCHANGED Agents
  BY <1>2 DEF Agents, Runtime!MappedAgent
<1>9. QED BY <1>2, <1>7, <1>8 DEF Backend!vars

\* Put together with the real devbox the backend behaves as Sessions says, as long as tmux is to
\* be believed: every theorem about Sessions holds of the whole.
THEOREM BackendIsImplemented == Runtime!TmuxIsTrue => (Spec => BackendImplemented)
<1> SUFFICES ASSUME Runtime!TmuxIsTrue PROVE Spec => BackendImplemented
  OBVIOUS
<1>1. Init => Backend!Init
  BY DEF Init
<1>2. ASSUME TypeOK, Runtime!RuntimeInv, Runtime!Ordered, Logged, [Next]_vars
      PROVE  [Backend!Next]_(Backend!vars)
  <2>1. CASE SendCallback
    BY <1>2, <2>1, SendingIsNothing
  <2>2. CASE DevboxStep
    BY <1>2, <2>2, DevboxIsAgent
  <2>3. CASE UNCHANGED vars
    BY <2>3 DEF vars, devboxVars, backendVars, Backend!vars, Agents, Unsent, Runtime!MappedAgent
  <2>4. QED BY <1>2, <2>1, <2>2, <2>3, BackendMoves
<1>3. QED
  BY <1>1, <1>2, LoggedCorrect, PTL DEF Spec, BackendImplemented, Backend!Spec

\* Under the same assumption the row and an inspection of the devbox never disagree on an
\* outcome, unless the backend failed the session for its devbox's deletion or its deadline.
THEOREM RowAndReportAgree == Runtime!TmuxIsTrue => (Spec => []RowAgreesWithReport)
<1> SUFFICES ASSUME Runtime!TmuxIsTrue PROVE Spec => []RowAgreesWithReport
  OBVIOUS
<1>1. ASSUME Runtime!TypeOK, Runtime!Ordered, Runtime!TmuxBelieved, Runtime!ReportsStand,
             Backend!OutcomeIsExplained
      PROVE  RowAgreesWithReport
  <2> SUFFICES ASSUME NEW i \in Inspectors, inspectors[i].report \in Outcome,
                      sessions[Session].status \in TerminalSession,
                      inspectors[i].report # sessions[Session].status
               PROVE  /\ sessions[Session].status = "FAILED"
                      /\ devboxes[sessions[Session].devbox] = "DELETED" \/ sessions[Session].overdue
    BY DEF RowAgreesWithReport
  <2>1. files.state \in Outcome => inspectors[i].report = files.state
    BY <1>1, Runtime!OutcomeIsTold, DevboxAssumption DEF Runtime!ReportsStand, Runtime!Ordered, Outcome
  <2>2. Agents[Session] \in Outcome => files.state = Agents[Session]
    BY SessionAssumption, Terminal DEF Agents, Runtime!MappedAgent
  <2>3. QED BY <1>1, <2>1, <2>2, SessionAssumption, Terminal DEF Backend!OutcomeIsExplained
<1>2. Spec => [](Runtime!TmuxBelieved /\ Runtime!ReportsStand)
  BY DevboxImplemented, Runtime!AlwaysBelieved, Runtime!ReportsAreFinal, DevboxAssumption, PTL
<1>3. Spec => []Backend!OutcomeIsExplained
  BY BackendIsImplemented, Backend!OutcomeExplained, BackendAssumption, PTL DEF BackendImplemented
<1>4. QED BY <1>1, <1>2, <1>3, LoggedCorrect, PTL
=============================================================================
