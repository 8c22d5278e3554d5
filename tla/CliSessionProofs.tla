-------------------------- MODULE CliSessionProofs --------------------------
(***************************************************************************)
(* Proofs about the CLI's commands over SSH.  Every step of theirs is a step  *)
(* of the backend or leaves it alone, so what SessionProofs has shown of the  *)
(* backend holds here; to it come the facts about the commands themselves.    *)
(***************************************************************************)
EXTENDS CliSessionProperties, SessionProofs

(***************************************************************************)
(* The inductive invariant.  As(r, c) is what is so of command c when its     *)
(* record is r: a key is guarded, an id is shown before an agent is ordered,  *)
(* and what was told is so.                                                   *)
(***************************************************************************)
Unkeyed == {"idle", "get", "mkdir", "handle", "ended", "signalled"} \cup Requesting
AtAgent == {"get", "start", "inspect", "reauthorize", "attach", "result"}

As(r, c) ==
  /\ r \in CommandState
  /\ r.directory = "key" => r.pc \notin Unkeyed
  /\ r.pc \in Identity => r.handled
  /\ r.told # "none" => r.pc \in {"finally", "remove"} \cup Over
  /\ c \in Starts /\ r.pc # "idle" => r.session = KeyOf[c]
  /\ c \in Starts => r.pc \in {"idle"} \cup Requesting \cup Over \/ r.session \in printed
  /\ r.pc \in Requesting => c \in Starts /\ r.devbox \in Devboxes
  /\ r.pc \in AtAgent => r.session \in SessionKeys
  /\ r.ordered => r.session \in printed
  /\ r.told \in Outcome => r.session \in SessionKeys
  /\ r.told = "SUCCEEDED" => agents[r.session] = "SUCCEEDED"
  /\ r.told = "FAILED" => agents[r.session] = "FAILED" \/ sessions[r.session].status = "FAILED"

\* Command c, with record r, is one that its user can blame for session s.
AnswersFor(r, c, s) ==
  /\ c \in Starts /\ r.session = s
  /\ r.pc \in Requesting \cup {"signalled", "killed"} \/ r.told = "error"

\* A session that exists, or that a handler may still insert.
Reserved(s) ==
  \/ sessions[s].status # "ABSENT"
  \/ \E h \in Handlers : handlers[h].pc \in {"lock", "insert"} /\ handlers[h].session = s

Known(s) == s \in printed \/ \E c \in Commands : AnswersFor(cli[c], c, s)

Shared == printed \subseteq SessionKeys /\ lost \subseteq SessionKeys /\ losses \in 0..MaxLosses

CliInv ==
  /\ SessionInv /\ OutcomeIsExplained
  /\ Shared
  /\ DOMAIN cli = Commands /\ cli = [c \in Commands |-> cli[c]]
  /\ \A c \in Commands : As(cli[c], c)
  /\ \A s \in SessionKeys : Reserved(s) => Known(s)
  /\ \A s \in SessionKeys : agents[s] # "none" => s \in printed

(***************************************************************************)
(* Steps as the backend sees them.                                           *)
(***************************************************************************)
\* No step of the whole is unknown to Sessions.
LEMMA BackendStep ==
  ASSUME CliInv, [CliNext]_allVars
  PROVE  [Next]_vars
<1>1. CASE UNCHANGED allVars
  BY <1>1 DEF allVars
<1>2. ASSUME NEW c \in Commands, UNCHANGED vars PROVE [Next]_vars
  BY <1>2
<1>3. ASSUME NEW c \in Starts, NEW h \in Handlers, SendCreate(c, h) PROVE Next
  <2>1. Key(c) \in SessionKeys /\ c \in Commands
    BY CommandAssumption DEF Key, Commands
  <2>2. cli[c].devbox \in Devboxes
    BY <1>3, <2>1 DEF SendCreate, CliAt, CliInv, As, Requesting
  <2>3. QED BY <1>3, <2>1, <2>2 DEF SendCreate, Next
<1>4. ASSUME NEW c \in Commands, RemoteStart(c) PROVE Next
  <2>1. cli[c].session \in SessionKeys
    BY <1>4 DEF RemoteStart, CliInv, As, Shared
  <2>2. QED BY <1>4, <2>1 DEF RemoteStart, Next, Outcome
<1>5. ASSUME NEW s \in SessionKeys, AgentGoesOn(s) PROVE Next
  BY <1>5 DEF AgentGoesOn, Next
<1>6. ASSUME NEW h \in Handlers, Creates(h) PROVE Next
  BY <1>6 DEF Creates, Next, HandlerStep
<1>7. CASE ServerCrashes
  BY <1>7 DEF ServerCrashes, Next
<1>8. CASE BackendGoesOn
  BY <1>8 DEF BackendGoesOn, Next, HandlerStep
<1>9. ASSUME NEW c \in Starts, StartStep(c) PROVE [Next]_vars
  BY <1>9, <1>3 DEF StartStep, BeginStart, RequestLost, Refused, PrintSession, Alone
<1>10. ASSUME NEW c \in Commands, CommandStep(c) PROVE [Next]_vars
  BY <1>10, <1>4
  DEF CommandStep, GetSession, Authorize, Reply, SshEnds, SshFails, PrintResult, CallFails, Signal, Killed,
      MakeDirectory, AddHandlers, WriteKey, KeygenEnds, RemoveHandlers, RemoveDirectory, Alone
<1>11. ASSUME NEW s \in SessionKeys, AgentLost(s) PROVE [Next]_vars
  BY <1>11 DEF AgentLost
<1>12. ASSUME NEW c \in Visits, (\E s \in SessionKeys : BeginConnect(c, s)) \/ (\E d \in Devboxes : BeginShell(c, d))
       PROVE [Next]_vars
  BY <1>12 DEF BeginConnect, BeginShell, Alone
<1>13. QED BY <1>1, <1>5, <1>6, <1>7, <1>8, <1>9, <1>10, <1>11, <1>12 DEF CliNext

\* What was true of a command that does nothing stays true: the backend takes no outcome back.
LEMMA StaysTrue ==
  ASSUME CliInv, [CliNext]_allVars, NEW c \in Commands, NEW r, As(r, c), printed \subseteq printed'
  PROVE  As(r, c)'
<1>1. [Next]_vars /\ SessionInv
  BY BackendStep DEF CliInv
<1>2. \A s \in SessionKeys : agents[s] \in Outcome => agents'[s] = agents[s]
  BY <1>1, OutcomeForGood DEF SessionInv
<1>3. \A s \in SessionKeys : sessions[s].status = "FAILED" => sessions'[s].status = "FAILED"
  <2> SUFFICES ASSUME NEW s \in SessionKeys, sessions[s].status = "FAILED" PROVE sessions'[s].status = "FAILED"
    OBVIOUS
  <2>1. sessions[s] \in Row
    BY <1>1 DEF SessionInv, TypeOK
  <2>2. sessions'[s] = sessions[s] \/ RanLate(s)
    BY <1>1, OnlyThese, Active
    DEF Changed, Created, Expired, Expires, FailedByDeletion, CalledBack, TransitionFrom
  <2>3. QED BY <2>1, <2>2 DEF RanLate, Row
<1>4. QED BY <1>2, <1>3 DEF As, Outcome

(***************************************************************************)
(* Steps of a command on its own: what becomes of its record.                *)
(***************************************************************************)
Proper(r, c) ==
  /\ As(r, c)
  /\ \A s \in SessionKeys : AnswersFor(cli[c], c, s) => AnswersFor(r, c, s) \/ s \in printed

\* Requests and their failures: the command asks again or gives up, still answering for its session.
LEMMA RetryIsProper ==
  ASSUME NEW c \in Commands, As(cli[c], c), cli[c].pc \in Requesting
  PROVE  Proper(RetryOrGiveUp(c), c)
<1>1. PICK r : r = RetryOrGiveUp(c)
  OBVIOUS
<1>2. CASE cli[c].attempt < Attempts
  <2>1. PICK n : n = cli[c].attempt + 1
    OBVIOUS
  <2>2. n \in 1..Attempts
    BY <1>2, <2>1, BoundAssumption DEF As, CommandState
  <2>3. r = [cli[c] EXCEPT !.pc = "send", !.handler = None, !.attempt = n]
    BY <1>1, <1>2, <2>1 DEF RetryOrGiveUp, To, As, CommandState
  <2>4. r \in CommandState /\ r.pc = "send"
    BY <2>2, <2>3 DEF As, CommandState, CliPc, Requesting
  <2>5. /\ r.session = cli[c].session /\ r.devbox = cli[c].devbox /\ r.directory = cli[c].directory
        /\ r.ordered = cli[c].ordered /\ r.told = cli[c].told
    BY <2>3 DEF As, CommandState
  <2>6. QED BY <1>1, <2>4, <2>5 DEF Proper, As, AnswersFor, Requesting, Unkeyed, Identity, Over, AtAgent
<1>3. CASE ~(cli[c].attempt < Attempts)
  <2>1. r = [cli[c] EXCEPT !.pc = "ended", !.handler = None, !.told = "error"]
    BY <1>1, <1>3 DEF RetryOrGiveUp, Tells, As, CommandState
  <2>2. r \in CommandState /\ r.pc = "ended" /\ r.told = "error"
    BY <2>1 DEF As, CommandState, CliPc, Over
  <2>3. /\ r.session = cli[c].session /\ r.directory = cli[c].directory
        /\ r.ordered = cli[c].ordered
    BY <2>1 DEF As, CommandState
  <2>4. QED BY <1>1, <2>2, <2>3 DEF Proper, As, AnswersFor, Requesting, Unkeyed, Identity, Over, AtAgent, Outcome
<1>4. QED BY <1>2, <1>3

\* A command that begins.
LEMMA BeginIsProper ==
  ASSUME NEW c \in Commands, As(cli[c], c), CliAt(c, "idle"), NEW r,
         \/ c \in Starts /\ \E d \in Devboxes : r = Command("send", KeyOf[c], d)
         \/ c \in Visits /\ \E s \in SessionKeys, d \in Devboxes \cup {None} : r = Command("get", s, d)
         \/ c \in Visits /\ \E d \in Devboxes : r = Command("mkdir", None, d)
  PROVE  Proper(r, c)
<1>1. c \in Starts => c \notin Visits /\ KeyOf[c] \in SessionKeys
  BY CommandAssumption
<1>2. r \in CommandState
  <2>1. 1 \in 1..Attempts
    BY BoundAssumption
  <2>2. {"send", "get", "mkdir"} \subseteq CliPc
    BY DEF CliPc, Requesting
  <2>3. PICK pc \in {"send", "get", "mkdir"}, s \in SessionKeys \cup {None}, d \in Devboxes \cup {None} :
          r = Command(pc, s, d)
    BY <1>1
  <2>4. QED BY <2>1, <2>2, <2>3 DEF CommandState, Command
<1>3. /\ r.directory = "none" /\ r.told = "none" /\ r.ordered = FALSE
      /\ \/ c \in Starts /\ r.pc = "send" /\ r.session = KeyOf[c] /\ r.devbox \in Devboxes
         \/ c \in Visits /\ r.pc = "get" /\ r.session \in SessionKeys
         \/ c \in Visits /\ r.pc = "mkdir"
  BY DEF Command
<1>4. \A s \in SessionKeys : ~AnswersFor(cli[c], c, s)
  BY DEF AnswersFor, CliAt, As, Requesting, Over
<1>5. As(r, c)
  BY <1>1, <1>2, <1>3 DEF As, Requesting, Unkeyed, Identity, Over, AtAgent, Outcome
<1>6. QED BY <1>4, <1>5 DEF Proper

\* The identity is set up and taken down.
LEMMA IdentityIsProper ==
  ASSUME NEW c \in Commands, As(cli[c], c), NEW r,
         \/ CliAt(c, "mkdir") /\ r = [cli[c] EXCEPT !.pc = "handle", !.directory = "empty"]
         \/ CliAt(c, "handle") /\ r = [cli[c] EXCEPT !.pc = "keygen", !.handled = TRUE]
         \/ CliAt(c, "keygen") /\ r = [cli[c] EXCEPT !.directory = "key"]
         \/ CliAt(c, "keygen") /\ r = To(c, "authorize")
         \/ CliAt(c, "finally") /\ r = [cli[c] EXCEPT !.pc = "remove", !.handled = FALSE]
         \/ CliAt(c, "remove") /\ r = [cli[c] EXCEPT !.pc = "ended", !.directory = "none"]
  PROVE  Proper(r, c)
<1>0. cli[c] \in CommandState
  BY DEF As
<1>a. {"handle", "keygen", "authorize", "remove", "ended", "signalled", "cut_short", "killed"} \subseteq CliPc
  BY DEF CliPc, Identity, Over
<1>1. /\ r.session = cli[c].session /\ r.ordered = cli[c].ordered /\ r.told = cli[c].told
      /\ r \in CommandState
  <2> USE <1>0, <1>a DEF CommandState, To
  <2>1. CASE r = [cli[c] EXCEPT !.pc = "handle", !.directory = "empty"]
    BY <2>1
  <2>2. CASE r = [cli[c] EXCEPT !.pc = "keygen", !.handled = TRUE]
    BY <2>2
  <2>3. CASE r = [cli[c] EXCEPT !.directory = "key"]
    BY <2>3
  <2>4. CASE r = To(c, "authorize")
    BY <2>4
  <2>5. CASE r = [cli[c] EXCEPT !.pc = "remove", !.handled = FALSE]
    BY <2>5
  <2>6. CASE r = [cli[c] EXCEPT !.pc = "ended", !.directory = "none"]
    BY <2>6
  <2>7. QED BY <2>1, <2>2, <2>3, <2>4, <2>5, <2>6
<1>2. \/ CliAt(c, "mkdir") /\ r.pc = "handle" /\ r.directory = "empty"
      \/ CliAt(c, "handle") /\ r.pc = "keygen" /\ r = [cli[c] EXCEPT !.pc = "keygen", !.handled = TRUE]
      \/ CliAt(c, "keygen") /\ r.pc \in {"keygen", "authorize"} /\ r.handled = cli[c].handled
      \/ CliAt(c, "finally") /\ r.pc = "remove"
      \/ CliAt(c, "remove") /\ r.pc = "ended" /\ r.directory = "none"
  <2> USE <1>0 DEF CommandState, To
  <2>1. CASE CliAt(c, "mkdir") /\ r = [cli[c] EXCEPT !.pc = "handle", !.directory = "empty"]
    BY <2>1
  <2>2. CASE CliAt(c, "handle") /\ r = [cli[c] EXCEPT !.pc = "keygen", !.handled = TRUE]
    <3>1. r.pc = "keygen"
      BY <2>2
    <3>2. QED BY ONLY <2>2, <3>1, Zenon
  <2>3. CASE CliAt(c, "keygen") /\ r = [cli[c] EXCEPT !.directory = "key"]
    BY <2>3 DEF CliAt
  <2>4. CASE CliAt(c, "keygen") /\ r = To(c, "authorize")
    BY <2>4
  <2>5. CASE CliAt(c, "finally") /\ r = [cli[c] EXCEPT !.pc = "remove", !.handled = FALSE]
    BY <2>5
  <2>6. CASE CliAt(c, "remove") /\ r = [cli[c] EXCEPT !.pc = "ended", !.directory = "none"]
    BY <2>6
  <2>7. QED BY <2>1, <2>2, <2>3, <2>4, <2>5, <2>6
<1>b. r = [cli[c] EXCEPT !.pc = "keygen", !.handled = TRUE] => r.handled = TRUE
  BY <1>0 DEF CommandState
<1>3. QED BY <1>1, <1>2, <1>b DEF Proper, As, AnswersFor, CliAt, Requesting, Unkeyed, Identity, Over, AtAgent

\* The process dies.
LEMMA DeathIsProper ==
  ASSUME NEW c \in Commands, As(cli[c], c), cli[c].pc \notin {"idle"} \cup Over, NEW r,
         \/ cli[c].handled /\ r = [cli[c] EXCEPT !.pc = "signalled", !.directory = "none"]
         \/ ~cli[c].handled /\ r = To(c, IF CliAt(c, "remove") THEN "cut_short" ELSE "signalled")
         \/ r = To(c, "killed")
  PROVE  Proper(r, c)
<1>0. cli[c] \in CommandState
  BY DEF As
<1>a. {"handle", "keygen", "authorize", "remove", "ended", "signalled", "cut_short", "killed"} \subseteq CliPc
  BY DEF CliPc, Identity, Over
<1>1. /\ r.session = cli[c].session /\ r.ordered = cli[c].ordered /\ r.told = cli[c].told
      /\ r \in CommandState
  <2> USE <1>0, <1>a DEF CommandState, To
  <2>1. CASE r = [cli[c] EXCEPT !.pc = "signalled", !.directory = "none"]
    BY <2>1
  <2>2. CASE r = To(c, "signalled")
    BY <2>2
  <2>3. CASE r = To(c, "cut_short")
    BY <2>3
  <2>4. CASE r = To(c, "killed")
    BY <2>4
  <2>5. QED BY <2>1, <2>2, <2>3, <2>4
<1>2. \/ r.pc = "signalled" /\ r.directory = "none"
      \/ r.pc = "signalled" /\ ~cli[c].handled /\ cli[c].pc # "remove" /\ r.directory = cli[c].directory
      \/ r.pc = "cut_short" /\ cli[c].pc = "remove"
      \/ r.pc = "killed"
  BY <1>0 DEF CommandState, To, CliAt
<1>3. QED BY <1>1, <1>2
  DEF Proper, As, AnswersFor, Requesting, Unkeyed, Identity, Over, AtAgent, CommandState, CliPc

\* An outcome that is so, and one that the backend or the devbox has.
IsSo(outcome, s) ==
  /\ s \in SessionKeys
  /\ outcome = "SUCCEEDED" => agents[s] = "SUCCEEDED"
  /\ outcome = "FAILED" => agents[s] = "FAILED" \/ sessions[s].status = "FAILED"

\* A status of the row is so: OutcomeIsExplained.
LEMMA RowIsSo ==
  ASSUME OutcomeIsExplained, NEW s \in SessionKeys
  PROVE  IsSo(sessions[s].status, s)
BY DEF OutcomeIsExplained, IsSo

\* So is an outcome found on the devbox.
LEMMA InspectedIsSo ==
  ASSUME NEW s \in SessionKeys, Inspected(s) \in Outcome
  PROVE  IsSo(Inspected(s), s)
BY DEF Inspected, IsSo, Outcome

\* The operation ends, with an error or an outcome that is so.
LEMMA LeavingIsProper ==
  ASSUME NEW c \in Commands, As(cli[c], c), cli[c].pc \in Identity \ {"finally"},
         NEW told \in {"error", "not_recoverable", "detached", "done"} \cup Outcome,
         told \in Outcome => IsSo(told, cli[c].session)
  PROVE  Proper(Leaves(c, told), c)
<1>1. PICK r : r = Leaves(c, told)
  OBVIOUS
<1>2. cli[c] \in CommandState /\ "finally" \in CliPc
  BY DEF As, CliPc, Identity
<1>3. r \in CommandState /\ r.pc = "finally" /\ r.told = told
  BY <1>1, <1>2 DEF Leaves, CommandState
<1>4. /\ r.session = cli[c].session /\ r.directory = cli[c].directory
      /\ r.ordered = cli[c].ordered /\ r.handled = cli[c].handled
  BY <1>1, <1>2 DEF Leaves, CommandState
<1>5. As(r, c)
  BY <1>3, <1>4 DEF As, IsSo, Requesting, Unkeyed, Identity, Over, AtAgent, Outcome
<1>6. \A s \in SessionKeys : ~AnswersFor(cli[c], c, s)
  BY DEF As, AnswersFor, Requesting, Identity, Over
<1>7. QED BY <1>1, <1>5, <1>6 DEF Proper

\* A command that ends without an identity.
LEMMA TellingIsProper ==
  ASSUME NEW c \in Commands, As(cli[c], c), CliAt(c, "get"), NEW told \in {"error"} \cup Outcome,
         told \in Outcome => IsSo(told, cli[c].session)
  PROVE  Proper(Tells(c, told), c)
<1>1. PICK r : r = Tells(c, told)
  OBVIOUS
<1>2. cli[c] \in CommandState /\ "ended" \in CliPc
  BY DEF As, CliPc, Over
<1>3. r \in CommandState /\ r.pc = "ended" /\ r.told = told
  BY <1>1, <1>2 DEF Tells, CommandState
<1>4. /\ r.session = cli[c].session /\ r.directory = cli[c].directory /\ r.ordered = cli[c].ordered
  BY <1>1, <1>2 DEF Tells, CommandState
<1>5. As(r, c)
  BY <1>3, <1>4 DEF As, IsSo, CliAt, Requesting, Unkeyed, Identity, Over, AtAgent, Outcome
<1>6. \A s \in SessionKeys : ~AnswersFor(cli[c], c, s)
  BY DEF As, AnswersFor, CliAt, Requesting, Over
<1>7. QED BY <1>1, <1>5, <1>6 DEF Proper

\* The operation goes on.
LEMMA GoingOnIsProper ==
  ASSUME NEW c \in Commands, As(cli[c], c), NEW next,
         \/ CliAt(c, "get") /\ next = "mkdir"
         \/ cli[c].pc \in {"start", "inspect"} /\ next = "reauthorize"
         \/ CliAt(c, "attach") /\ next = "result"
  PROVE  Proper(To(c, next), c)
<1>1. PICK r : r = To(c, next)
  OBVIOUS
<1>2. cli[c] \in CommandState /\ next \in CliPc
  BY DEF As, CliPc, Identity
<1>3. /\ r \in CommandState /\ r.pc = next /\ r.session = cli[c].session /\ r.directory = cli[c].directory
      /\ r.ordered = cli[c].ordered /\ r.told = cli[c].told /\ r.handled = cli[c].handled
  BY <1>1, <1>2 DEF To, CommandState
<1>4. As(r, c)
  BY <1>3 DEF As, CliAt, Requesting, Unkeyed, Identity, Over, AtAgent
<1>5. \A s \in SessionKeys : ~AnswersFor(cli[c], c, s)
  BY DEF As, AnswersFor, CliAt, Requesting, Over
<1>6. QED BY <1>1, <1>4, <1>5 DEF Proper

\* The key is authorized.  A start's session has been shown by then.
LEMMA AuthorizingIsProper ==
  ASSUME NEW c \in Commands, As(cli[c], c), NEW next, NEW r,
         r = [cli[c] EXCEPT !.pc = next, !.ordered = next = "start"],
         \/ CliAt(c, "authorize") /\ next = Operation(c)
         \/ CliAt(c, "reauthorize") /\ next = "attach"
  PROVE  Proper(r, c)
<1>1. cli[c] \in CommandState /\ next \in {"start", "inspect", "shell", "attach"} /\ next \in CliPc
  BY DEF As, CliPc, Identity, Operation
<1>2. PICK o \in BOOLEAN : o = (next = "start")
  OBVIOUS
<1>3. r = [cli[c] EXCEPT !.pc = next, !.ordered = o]
  BY <1>2
<1>4. /\ r.pc = next /\ r.session = cli[c].session /\ r.directory = cli[c].directory
      /\ r.told = cli[c].told /\ r.handled = cli[c].handled /\ r.ordered = o
  BY <1>1, <1>3 DEF CommandState
<1>5. r \in CommandState
  BY <1>1, <1>2, <1>3 DEF CommandState
<1>6. next # "shell" => r.session \in SessionKeys
  <2>1. CASE c \in Starts
    BY <1>4, <2>1, CommandAssumption DEF As, CliAt
  <2>2. CASE c \notin Starts
    BY <1>1, <1>4, <2>2 DEF As, Operation, CliAt, AtAgent, CommandState
  <2>3. QED BY <2>1, <2>2
<1>7. next = "start" => r.session \in printed
  BY <1>4 DEF As, Operation, CliAt, Requesting, Over
<1>8. As(r, c)
  BY <1>1, <1>2, <1>4, <1>5, <1>6, <1>7 DEF As, CliAt, Requesting, Unkeyed, Identity, Over, AtAgent
<1>9. \A s \in SessionKeys : ~AnswersFor(cli[c], c, s)
  BY DEF As, AnswersFor, CliAt, Requesting, Over
<1>10. QED BY <1>8, <1>9 DEF Proper

(***************************************************************************)
(* Steps that one command takes alone.                                       *)
(***************************************************************************)
ByItself(c) ==
  /\ \E r : Proper(r, c) /\ CliBecomes(c, r)
  /\ UNCHANGED <<vars, printed, lost>>
  /\ losses' \in 0..MaxLosses

\* Losses stay within their bound.
LEMMA LossIsCounted ==
  ASSUME Shared, Loss \/ UNCHANGED losses
  PROVE  losses' \in 0..MaxLosses
BY BoundAssumption DEF Shared, Loss

\* Beginning, asking, setting up and taking down.
LEMMA AloneOutside ==
  ASSUME CliInv, NEW c \in Commands,
         \/ c \in Starts /\ ((\E d \in Devboxes : BeginStart(c, d)) \/ RequestLost(c) \/ Refused(c))
         \/ c \in Visits /\ \/ \E s \in SessionKeys : BeginConnect(c, s)
                            \/ \E d \in Devboxes : BeginShell(c, d)
         \/ MakeDirectory(c) \/ AddHandlers(c) \/ WriteKey(c) \/ KeygenEnds(c)
         \/ RemoveHandlers(c) \/ RemoveDirectory(c) \/ Signal(c) \/ Killed(c)
  PROVE  ByItself(c)
<1>0. As(cli[c], c) /\ Shared
  BY DEF CliInv
<1>1. ASSUME NEW r, Proper(r, c), Alone(c, r) PROVE ByItself(c)
  BY <1>1, <1>0, LossIsCounted DEF ByItself, Alone
<1>2. CASE c \in Starts /\ ((\E d \in Devboxes : BeginStart(c, d)) \/ RequestLost(c) \/ Refused(c))
  <2>1. ASSUME NEW d \in Devboxes, BeginStart(c, d) PROVE ByItself(c)
    BY <1>0, <1>1, <1>2, <2>1, BeginIsProper DEF BeginStart
  <2>2. CASE RequestLost(c)
    BY <1>0, <2>2, RetryIsProper, LossIsCounted DEF RequestLost, Requesting, ByItself
  <2>3. CASE Refused(c)
    BY <1>0, <1>1, <2>3, RetryIsProper DEF Refused, CliAt, Requesting
  <2>4. QED BY <1>2, <2>1, <2>2, <2>3
<1>3. ASSUME NEW s \in SessionKeys, c \in Visits, BeginConnect(c, s) PROVE ByItself(c)
  <2>1. sessions[s].devbox \in Devboxes \cup {None}
    BY DEF CliInv, SessionInv, TypeOK, Row
  <2>2. Proper(Command("get", s, sessions[s].devbox), c)
    BY <1>0, <1>3, <2>1, BeginIsProper DEF BeginConnect
  <2>3. QED BY <1>1, <1>3, <2>2 DEF BeginConnect
<1>4. ASSUME NEW d \in Devboxes, c \in Visits, BeginShell(c, d) PROVE ByItself(c)
  <2>1. Proper(Command("mkdir", None, d), c)
    BY <1>0, <1>4, BeginIsProper DEF BeginShell
  <2>2. QED BY <1>1, <1>4, <2>1 DEF BeginShell
<1>5. CASE MakeDirectory(c) \/ AddHandlers(c) \/ WriteKey(c) \/ RemoveHandlers(c) \/ RemoveDirectory(c)
  BY <1>0, <1>1, <1>5, IdentityIsProper DEF MakeDirectory, AddHandlers, WriteKey, RemoveHandlers, RemoveDirectory
<1>6. CASE KeygenEnds(c)
  <2>1. CliAt(c, "keygen") => cli[c].pc \in Identity \ {"finally"}
    BY DEF CliAt, Identity
  <2>2. CliAt(c, "keygen") => Proper(To(c, "authorize"), c)
    BY <1>0, IdentityIsProper
  <2>3. CliAt(c, "keygen") => Proper(Leaves(c, "error"), c)
    BY <1>0, <2>1, LeavingIsProper DEF Outcome
  <2>4. QED BY <1>1, <1>6, <2>2, <2>3 DEF KeygenEnds
<1>7. CASE Signal(c) \/ Killed(c)
  <2>1. cli[c].pc \notin {"idle"} \cup Over
    BY <1>7 DEF Signal, Killed, Over
  <2>2. CASE Killed(c)
    BY <1>0, <1>1, <2>1, <2>2, DeathIsProper DEF Killed
  <2>3. CASE Signal(c) /\ cli[c].handled
    BY <1>0, <1>1, <2>1, <2>3, DeathIsProper DEF Signal
  <2>4. CASE Signal(c) /\ ~cli[c].handled
    BY <1>0, <1>1, <2>1, <2>4, DeathIsProper DEF Signal
  <2>5. QED BY <1>7, <2>2, <2>3, <2>4
<1>8. QED BY <1>2, <1>3, <1>4, <1>5, <1>6, <1>7

\* Within the operation.
LEMMA AloneInside ==
  ASSUME CliInv, NEW c \in Commands,
         \/ GetSession(c) \/ Authorize(c) \/ Reply(c) \/ SshEnds(c) \/ SshFails(c)
         \/ PrintResult(c) \/ CallFails(c)
  PROVE  ByItself(c)
<1>0. As(cli[c], c) /\ Shared /\ OutcomeIsExplained
  BY DEF CliInv
<1>1. ASSUME NEW r, Proper(r, c), Alone(c, r) PROVE ByItself(c)
  BY <1>1, <1>0, LossIsCounted DEF ByItself, Alone
<1>2. cli[c].pc \in AtAgent => cli[c].session \in SessionKeys
  BY <1>0 DEF As
<1>3. \A told \in {"error", "not_recoverable", "detached", "done"} :
        cli[c].pc \in Identity \ {"finally"} => Proper(Leaves(c, told), c)
  BY <1>0, LeavingIsProper DEF Outcome
<1>4. CASE GetSession(c)
  <2>1. IsSo(sessions[cli[c].session].status, cli[c].session)
    BY <1>0, <1>2, <1>4, RowIsSo DEF GetSession, CliAt, AtAgent
  <2>2. CASE sessions[cli[c].session].status \in Outcome
    BY <1>0, <1>1, <1>4, <2>1, <2>2, TellingIsProper DEF GetSession
  <2>3. CASE sessions[cli[c].session].status \notin Outcome
    BY <1>0, <1>1, <1>4, <2>3, GoingOnIsProper DEF GetSession
  <2>4. QED BY <2>2, <2>3
<1>5. CASE Authorize(c)
  <2>1. PICK next : /\ next = IF CliAt(c, "authorize") THEN Operation(c) ELSE "attach"
                    /\ Alone(c, IF devboxes[cli[c].devbox] = "READY"
                                THEN [cli[c] EXCEPT !.pc = next, !.ordered = next = "start"]
                                ELSE Leaves(c, "error"))
    BY <1>5 DEF Authorize
  <2>2. CliAt(c, "authorize") \/ CliAt(c, "reauthorize")
    BY <1>5 DEF Authorize, CliAt
  <2>3. cli[c].pc \in Identity \ {"finally"}
    BY <2>2 DEF CliAt, Identity
  <2>4. Proper([cli[c] EXCEPT !.pc = next, !.ordered = next = "start"], c)
    BY <1>0, <2>1, <2>2, AuthorizingIsProper
  <2>5. QED BY <1>1, <1>3, <2>1, <2>3, <2>4
<1>6. CASE Reply(c)
  <2>1. cli[c].pc \in {"start", "inspect"} /\ cli[c].pc \in Identity \ {"finally"} /\ cli[c].session \in SessionKeys
    BY <1>2, <1>6 DEF Reply, CliAt, Identity, AtAgent
  <2>2. CASE Inspected(cli[c].session) \in Outcome
    <3>1. Proper(Leaves(c, Inspected(cli[c].session)), c)
      BY <1>0, <2>1, <2>2, InspectedIsSo, LeavingIsProper
    <3>2. QED BY <1>1, <1>6, <2>2, <3>1 DEF Reply, Outcome
  <2>3. CASE Inspected(cli[c].session) = "RUNNING"
    BY <1>0, <1>1, <1>6, <2>1, <2>3, GoingOnIsProper DEF Reply, Outcome
  <2>4. CASE Inspected(cli[c].session) \notin Outcome \cup {"RUNNING"}
    BY <1>1, <1>3, <1>6, <2>1, <2>4 DEF Reply
  <2>5. QED BY <2>2, <2>3, <2>4
<1>7. CASE SshEnds(c)
  <2>1. CASE CliAt(c, "attach") /\ Alone(c, To(c, "result"))
    BY <1>0, <1>1, <2>1, GoingOnIsProper
  <2>2. CASE CliAt(c, "shell") /\ Alone(c, Leaves(c, "done"))
    BY <1>1, <1>3, <2>2 DEF CliAt, Identity
  <2>3. QED BY <1>7, <2>1, <2>2 DEF SshEnds
<1>8. CASE SshFails(c)
  <2>1. Proper(Leaves(c, "error"), c)
    BY <1>3, <1>8 DEF SshFails, Identity
  <2>2. losses' \in 0..MaxLosses
    BY <1>0, <1>8, LossIsCounted DEF SshFails
  <2>3. QED BY <1>8, <2>1, <2>2 DEF SshFails, ByItself
<1>9. CASE PrintResult(c)
  <2>1. IsSo(sessions[cli[c].session].status, cli[c].session) /\ cli[c].pc \in Identity \ {"finally"}
    BY <1>0, <1>2, <1>9, RowIsSo DEF PrintResult, CliAt, AtAgent, Identity
  <2>2. CASE sessions[cli[c].session].status \in Outcome
    <3>1. Proper(Leaves(c, sessions[cli[c].session].status), c)
      BY <1>0, <2>1, <2>2, LeavingIsProper
    <3>2. QED BY <1>1, <1>9, <2>2, <3>1 DEF PrintResult
  <2>3. CASE sessions[cli[c].session].status \notin Outcome
    BY <1>1, <1>3, <1>9, <2>1, <2>3 DEF PrintResult
  <2>4. QED BY <2>2, <2>3
<1>10. CASE CallFails(c)
  <2>1. losses' \in 0..MaxLosses
    BY <1>0, <1>10, LossIsCounted DEF CallFails
  <2>2. CASE CliAt(c, "get")
    <3>1. Proper(Tells(c, "error"), c)
      BY <1>0, <2>2, TellingIsProper DEF Outcome
    <3>2. ~CliAt(c, "result")
      BY <2>2 DEF CliAt
    <3>3. QED BY <1>10, <2>1, <2>2, <3>1, <3>2 DEF CallFails, ByItself
  <2>3. CASE CliAt(c, "result")
    <3>1. cli[c].pc \in Identity \ {"finally"} /\ ~CliAt(c, "get")
      BY <2>3 DEF CliAt, Identity
    <3>2. QED BY <1>3, <1>10, <2>1, <2>3, <3>1 DEF CallFails, ByItself
  <2>4. CASE cli[c].pc \in {"authorize", "reauthorize"}
    <3>1. cli[c].pc \in Identity \ {"finally"} /\ ~CliAt(c, "get") /\ ~CliAt(c, "result")
      BY <2>4 DEF CliAt, Identity
    <3>2. QED BY <1>3, <1>10, <2>1, <3>1 DEF CallFails, ByItself
  <2>5. QED BY <1>10, <2>2, <2>3, <2>4 DEF CallFails, CliAt
<1>11. QED BY <1>4, <1>5, <1>6, <1>7, <1>8, <1>9, <1>10

\* A step of a command alone keeps the invariant: nothing else has changed.
LEMMA ByItselfKeeps ==
  ASSUME CliInv, NEW c \in Commands, ByItself(c)
  PROVE  CliInv'
<1>1. PICK r : Proper(r, c) /\ CliBecomes(c, r)
  BY DEF ByItself
<1>2. cli' = [k \in Commands |-> IF k = c THEN r ELSE cli[k]]
  BY <1>1 DEF CliInv, CliBecomes
<1>3. UNCHANGED <<vars, printed, lost>> /\ losses' \in 0..MaxLosses
  BY DEF ByItself
<1>4. SessionInv' /\ OutcomeIsExplained'
  <2>1. SessionInv'
    BY <1>3, InvStep DEF CliInv
  <2>2. OutcomeIsExplained'
    BY <1>3, ExplainedStep DEF CliInv
  <2>3. QED BY <2>1, <2>2
<1>5. Shared'
  BY <1>3 DEF Shared, CliInv
<1>6. \A k \in Commands : As(cli[k], k)'
  <2> SUFFICES ASSUME NEW k \in Commands PROVE As(cli[k], k)'
    OBVIOUS
  <2>1. PICK q : q = cli'[k] /\ As(q, k)
    BY <1>1, <1>2 DEF CliInv, Proper
  <2>2. QED BY <1>3, <2>1 DEF As, vars
<1>7. \A s \in SessionKeys : Reserved(s)' => Known(s)'
  <2> SUFFICES ASSUME NEW s \in SessionKeys, Reserved(s)' PROVE Known(s)'
    OBVIOUS
  <2>1. Known(s)
    BY <1>3 DEF Reserved, vars, CliInv
  <2>2. CASE s \in printed
    BY <1>3, <2>2 DEF Known
  <2>3. ASSUME NEW k \in Commands, AnswersFor(cli[k], k, s) PROVE Known(s)'
    <3>1. AnswersFor(cli'[k], k, s) \/ s \in printed
      BY <1>1, <1>2, <2>3 DEF Proper
    <3>2. QED BY <1>3, <3>1 DEF Known, AnswersFor
  <2>4. QED BY <2>1, <2>2, <2>3 DEF Known
<1>8. \A s \in SessionKeys : agents'[s] # "none" => s \in printed'
  BY <1>3 DEF CliInv, vars
<1>9. QED BY <1>2, <1>4, <1>5, <1>6, <1>7, <1>8 DEF CliInv

(***************************************************************************)
(* Steps of a command together with the backend, and of the backend alone.   *)
(***************************************************************************)
\* What a step has to show when it moves more than one command alone.
LEMMA Together ==
  ASSUME CliInv, [CliNext]_allVars,
         Shared', printed \subseteq printed',
         DOMAIN cli' = Commands, cli' = [c \in Commands |-> cli'[c]],
         \A c \in Commands :
           /\ As(cli[c], c)'
           /\ \A s \in SessionKeys : AnswersFor(cli[c], c, s) => AnswersFor(cli[c], c, s)' \/ s \in printed',
         \A s \in SessionKeys : Reserved(s)' => Reserved(s) \/ Known(s)',
         \A s \in SessionKeys : agents'[s] # "none" => agents[s] # "none" \/ s \in printed
  PROVE  CliInv'
<1>1. SessionInv' /\ OutcomeIsExplained'
  <2>1. [Next]_vars /\ SessionInv /\ OutcomeIsExplained
    BY BackendStep DEF CliInv
  <2>2. QED BY <2>1, InvStep, ExplainedStep
<1>2. \A s \in SessionKeys : Reserved(s)' => Known(s)'
  <2> SUFFICES ASSUME NEW s \in SessionKeys, Known(s) PROVE Known(s)'
    BY DEF CliInv
  <2>1. CASE s \in printed
    BY <2>1 DEF Known
  <2>2. ASSUME NEW k \in Commands, AnswersFor(cli[k], k, s) PROVE Known(s)'
    BY <2>2 DEF Known, AnswersFor
  <2>3. QED BY <2>1, <2>2 DEF Known
<1>3. \A s \in SessionKeys : agents'[s] # "none" => s \in printed'
  BY DEF CliInv
<1>4. QED BY <1>1, <1>2, <1>3 DEF CliInv

\* Only CreateSession lets a handler reserve a session that was not.
Settled ==
  \/ Restart \/ Crash \/ UNCHANGED vars
  \/ \E h \in Handlers : HandlerStep(h)
  \/ \E h \in Handlers, d \in Devboxes : DeleteDevbox(h, d)
  \/ \E d \in Devboxes : Bootstrapped(d)
  \/ \E s \in SessionKeys : AgentStarts(s) \/ DeadlinePasses(s)
  \/ \E s \in SessionKeys, outcome \in Outcome : AgentEnds(s, outcome)
  \/ \E m \in inflight : Receive(m) \/ CallbackLost(m)

\* A session is reserved by nothing else.
LEMMA NothingReserved ==
  ASSUME SessionInv, Settled, NEW s \in SessionKeys, Reserved(s)'
  PROVE  Reserved(s)
<1> USE DEF SessionInv
<1>1. \A h \in Handlers : handlers[h].pc \in {"lock", "insert"} /\ handlers[h].session = s => Reserved(s)
  BY DEF Reserved
<1>2. CASE Restart
  BY <1>2 DEF Restart, Reserved, TypeOK, Expires
<1>3. CASE Crash
  BY <1>3 DEF Crash, Reserved, Idle, Task
<1>4. CASE UNCHANGED vars
  BY <1>4 DEF vars, Reserved
<1>5. ASSUME NEW h \in Handlers, HandlerStep(h) PROVE Reserved(s)
  <2>1. CASE LockDevbox(h)
    BY <2>1, AtWork DEF LockDevbox, At, Becomes, Reserved, TypeOK, Idle, Task, CreateOrDelete
  <2>2. CASE InsertSession(h)
    BY <2>2 DEF InsertSession, At, Becomes, Reserved, TypeOK, Idle, Task
  <2>3. CASE TransitionSession(h)
    <3>1. \A k \in Handlers : handlers'[k].pc \in {"lock", "insert"} => handlers'[k] = handlers[k]
      BY <2>3 DEF TransitionSession, Becomes, TypeOK, Idle, Task
    <3>2. sessions'[s].status = "ABSENT" \/ sessions[s].status # "ABSENT"
      <4>1. handlers[h].session \in SessionKeys /\ handlers[h].status \in {"RUNNING"} \cup Outcome
        BY <2>3, AtWork DEF TransitionSession, Transition
      <4>2. QED BY <2>3, <4>1 DEF TransitionSession, TypeOK, TransitionFrom
    <3>3. QED BY <3>1, <3>2 DEF Reserved
  <2>4. CASE MarkDevboxDeleted(h)
    <3>1. \A k \in Handlers : handlers'[k].pc \in {"lock", "insert"} => handlers'[k] = handlers[k]
      BY <2>4 DEF MarkDevboxDeleted, Becomes, TypeOK, Idle, Task
    <3>2. sessions'[s] = sessions[s] \/ sessions[s].status # "ABSENT"
      BY <2>4, Active DEF MarkDevboxDeleted, OnDeleted
    <3>3. QED BY <3>1, <3>2 DEF Reserved
  <2>5. CASE TerminateFailed(h)
    BY <2>5 DEF TerminateFailed, Becomes, Reserved, TypeOK, Idle, Task
  <2>6. QED BY <1>5, <2>1, <2>2, <2>3, <2>4, <2>5 DEF HandlerStep
<1>6. ASSUME NEW h \in Handlers, NEW d \in Devboxes, DeleteDevbox(h, d) PROVE Reserved(s)
  BY <1>6 DEF DeleteDevbox, Becomes, Reserved, TypeOK, Idle, Task
<1>7. ASSUME NEW d \in Devboxes, Bootstrapped(d) PROVE Reserved(s)
  BY <1>7 DEF Bootstrapped, Reserved
<1>8. ASSUME NEW r \in SessionKeys, AgentStarts(r) \/ DeadlinePasses(r) PROVE Reserved(s)
  BY <1>8, Active DEF AgentStarts, DeadlinePasses, Reserved, TypeOK
<1>9. ASSUME NEW r \in SessionKeys, NEW outcome \in Outcome, AgentEnds(r, outcome) PROVE Reserved(s)
  BY <1>9 DEF AgentEnds, Reserved
<1>10. ASSUME NEW m \in inflight, Receive(m) \/ CallbackLost(m) PROVE Reserved(s)
  BY <1>10 DEF Receive, UpdateSessionStatus, CallbackLost, Becomes, Reserved, TypeOK, Idle, Task
<1>11. QED BY <1>2, <1>3, <1>4, <1>5, <1>6, <1>7, <1>8, <1>9, <1>10 DEF Settled

\* The commands do nothing.
LEMMA IdleKeeps ==
  ASSUME CliInv, [CliNext]_allVars, UNCHANGED cliVars, lost' \subseteq SessionKeys, Settled,
         \A s \in SessionKeys : agents'[s] # "none" => agents[s] # "none"
  PROVE  CliInv'
<1>1. cli' = cli /\ printed' = printed /\ losses' = losses
  BY DEF cliVars
<1>2. Shared'
  BY <1>1 DEF CliInv, Shared
<1>3. \A c \in Commands : As(cli[c], c)'
  <2> SUFFICES ASSUME NEW c \in Commands PROVE As(cli[c], c)'
    OBVIOUS
  <2>1. PICK r : r = cli[c] /\ As(r, c)
    BY DEF CliInv
  <2>2. As(r, c)'
    BY <1>1, <2>1, StaysTrue
  <2>3. QED BY <1>1, <2>1, <2>2
<1>4. \A c \in Commands, s \in SessionKeys : AnswersFor(cli[c], c, s) => AnswersFor(cli[c], c, s)'
  BY <1>1 DEF AnswersFor
<1>5. \A s \in SessionKeys : Reserved(s)' => Reserved(s)
  BY NothingReserved DEF CliInv
<1>6. QED BY <1>1, <1>2, <1>3, <1>4, <1>5, Together DEF CliInv

\* One command acts with the backend.
LEMMA OneKeeps ==
  ASSUME CliInv, [CliNext]_allVars, NEW c \in Commands, NEW r, CliBecomes(c, r), As(r, c)',
         \A s \in SessionKeys : AnswersFor(cli[c], c, s) => AnswersFor(r, c, s) \/ s \in printed',
         UNCHANGED <<lost, losses>>, printed \subseteq printed', printed' \subseteq SessionKeys,
         \A s \in SessionKeys : Reserved(s)' => Reserved(s) \/ AnswersFor(r, c, s),
         \A s \in SessionKeys : agents'[s] # "none" => agents[s] # "none" \/ s \in printed
  PROVE  CliInv'
<1>1. cli' = [k \in Commands |-> IF k = c THEN r ELSE cli[k]]
  BY DEF CliInv, CliBecomes
<1>2. Shared'
  BY DEF CliInv, Shared
<1>3. \A k \in Commands : As(cli[k], k)'
  <2> SUFFICES ASSUME NEW k \in Commands PROVE As(cli[k], k)'
    OBVIOUS
  <2>1. CASE k = c
    BY <1>1, <2>1
  <2>2. CASE k # c
    <3>1. PICK q : q = cli[k] /\ As(q, k)
      BY DEF CliInv
    <3>2. As(q, k)'
      BY <3>1, StaysTrue
    <3>3. QED BY <1>1, <2>2, <3>1, <3>2
  <2>3. QED BY <2>1, <2>2
<1>4. \A k \in Commands, s \in SessionKeys :
        AnswersFor(cli[k], k, s) => AnswersFor(cli[k], k, s)' \/ s \in printed'
  BY <1>1 DEF AnswersFor
<1>5. \A s \in SessionKeys : AnswersFor(r, c, s) => Known(s)'
  BY <1>1 DEF Known, AnswersFor
<1>6. QED BY <1>1, <1>2, <1>3, <1>4, <1>5, Together

\* A request reaches the server, which may reserve its session for it.
LEMMA SendKeeps ==
  ASSUME CliInv, [CliNext]_allVars, NEW c \in Starts, NEW h \in Handlers, SendCreate(c, h)
  PROVE  CliInv'
<1>1. c \in Commands /\ KeyOf[c] \in SessionKeys /\ Key(c) = KeyOf[c]
  BY CommandAssumption DEF Commands, Key
<1>2. PICK r : /\ r = IF handlers'[h] = Idle THEN [cli[c] EXCEPT !.pc = "created", !.session = Key(c)]
                      ELSE [cli[c] EXCEPT !.pc = "waiting", !.session = Key(c), !.handler = h]
               /\ CliBecomes(c, r)
  BY DEF SendCreate
<1>3. As(cli[c], c) /\ cli[c].pc = "send"
  BY <1>1 DEF SendCreate, CliAt, CliInv
<1>4. cli[c] \in CommandState /\ {"created", "waiting"} \subseteq CliPc
  BY <1>3 DEF As, CliPc, Requesting
<1>5. /\ r \in CommandState /\ r.pc \in {"created", "waiting"} /\ r.session = KeyOf[c]
      /\ r.devbox = cli[c].devbox /\ r.directory = cli[c].directory /\ r.told = cli[c].told
      /\ r.ordered = cli[c].ordered
  BY <1>1, <1>2, <1>4 DEF CommandState
<1>6. As(r, c)
  BY <1>1, <1>3, <1>5 DEF As, Requesting, Unkeyed, Identity, Over, AtAgent
<1>7. UNCHANGED <<printed, lost, losses>>
  BY DEF SendCreate
<1>8. As(r, c)'
  BY <1>1, <1>6, <1>7, StaysTrue
<1>9. \A s \in SessionKeys : AnswersFor(cli[c], c, s) => AnswersFor(r, c, s)
  BY <1>3, <1>5 DEF AnswersFor, As, Requesting
<1>10. \A s \in SessionKeys : Reserved(s)' => Reserved(s) \/ AnswersFor(r, c, s)
  <2>1. AnswersFor(r, c, KeyOf[c])
    BY <1>5 DEF AnswersFor, Requesting
  <2>2. CreateSession(h, KeyOf[c], cli[c].devbox) /\ TypeOK
    BY <1>1 DEF SendCreate, CliInv, SessionInv
  <2>3. QED BY <2>1, <2>2 DEF CreateSession, Becomes, Reserved, TypeOK, Idle, Task
<1>11. agents' = agents
  BY DEF SendCreate, CreateSession
<1>12. QED BY <1>1, <1>2, <1>7, <1>8, <1>9, <1>10, <1>11, OneKeeps DEF CliInv, Shared

\* An agent is started: its session has been shown.
LEMMA RemoteStartKeeps ==
  ASSUME CliInv, [CliNext]_allVars, NEW c \in Commands, RemoteStart(c)
  PROVE  CliInv'
<1>1. PICK r : r = [cli[c] EXCEPT !.ordered = FALSE] /\ CliBecomes(c, r)
  BY DEF RemoteStart
<1>2. As(cli[c], c) /\ cli[c] \in CommandState
  BY DEF CliInv, As
<1>3. /\ r.pc = cli[c].pc /\ r.session = cli[c].session /\ r.devbox = cli[c].devbox
      /\ r.directory = cli[c].directory /\ r.told = cli[c].told /\ r.handled = cli[c].handled
      /\ r.ordered = FALSE /\ r \in CommandState
  BY <1>1, <1>2 DEF CommandState
<1>4. As(r, c)
  BY <1>2, <1>3 DEF As
<1>5. UNCHANGED <<printed, lost, losses>>
  BY DEF RemoteStart
<1>6. As(r, c)'
  BY <1>4, <1>5, StaysTrue
<1>7. cli[c].session \in printed /\ cli[c].session \in SessionKeys
  BY <1>2 DEF RemoteStart, As, CliInv, Shared
<1>8. Settled /\ \A s \in SessionKeys : agents'[s] # "none" => agents[s] # "none" \/ s \in printed
  <2>1. CASE AgentStarts(cli[c].session)
    BY <1>7, <2>1 DEF AgentStarts, Settled, CliInv, SessionInv, TypeOK
  <2>2. CASE AgentEnds(cli[c].session, "FAILED")
    BY <1>7, <2>2 DEF AgentEnds, Settled, Outcome, CliInv, SessionInv, TypeOK
  <2>3. QED BY <2>1, <2>2 DEF RemoteStart
<1>9. \A s \in SessionKeys : Reserved(s)' => Reserved(s)
  BY <1>8, NothingReserved DEF CliInv
<1>10. \A s \in SessionKeys : AnswersFor(cli[c], c, s) => AnswersFor(r, c, s)
  BY <1>3 DEF AnswersFor
<1>11. QED BY <1>1, <1>5, <1>6, <1>8, <1>9, <1>10, OneKeeps DEF CliInv, Shared

\* The id is printed.
LEMMA PrintKeeps ==
  ASSUME CliInv, [CliNext]_allVars, NEW c \in Starts, PrintSession(c)
  PROVE  CliInv'
<1>1. c \in Commands /\ KeyOf[c] \in SessionKeys
  BY CommandAssumption DEF Commands
<1>2. PICK r : r = To(c, "mkdir") /\ CliBecomes(c, r)
  BY DEF PrintSession
<1>3. As(cli[c], c) /\ cli[c].pc = "created"
  BY <1>1 DEF PrintSession, CliAt, CliInv
<1>4. cli[c] \in CommandState /\ "mkdir" \in CliPc /\ cli[c].session = KeyOf[c]
  BY <1>3 DEF As, CliPc, Requesting
<1>5. /\ r \in CommandState /\ r.pc = "mkdir" /\ r.session = KeyOf[c]
      /\ r.directory = cli[c].directory /\ r.told = cli[c].told /\ r.ordered = cli[c].ordered
  BY <1>2, <1>4 DEF CommandState, To
<1>6. printed' = printed \cup {KeyOf[c]} /\ UNCHANGED <<vars, lost, losses>>
  BY <1>4 DEF PrintSession
<1>7. As(r, c)'
  BY <1>3, <1>4, <1>5, <1>6 DEF As, vars, Requesting, Unkeyed, Identity, Over, AtAgent
<1>8. \A s \in SessionKeys : AnswersFor(cli[c], c, s) => s \in printed'
  BY <1>4, <1>6 DEF AnswersFor
<1>9. (\A s \in SessionKeys : Reserved(s)' => Reserved(s)) /\ agents' = agents
  BY <1>6 DEF Reserved, vars
<1>10. QED BY <1>1, <1>2, <1>6, <1>7, <1>8, <1>9, OneKeeps DEF CliInv, Shared

\* Answers and resets, which reach the commands that wait.
LEMMA AllKeep ==
  ASSUME CliInv, [CliNext]_allVars, Settled, UNCHANGED <<printed, lost, losses>>, agents' = agents,
         cli' = [c \in Commands |-> cli'[c]],
         \A c \in Commands : cli'[c] = cli[c] \/ Proper(cli'[c], c)
  PROVE  CliInv'
<1>1. Shared' /\ DOMAIN cli' = Commands
  BY DEF CliInv, Shared
<1>2. ASSUME NEW c \in Commands
      PROVE  /\ As(cli[c], c)'
             /\ \A s \in SessionKeys : AnswersFor(cli[c], c, s) => AnswersFor(cli[c], c, s)' \/ s \in printed'
  <2>1. PICK r : r = cli'[c] /\ As(r, c)
    BY DEF CliInv, Proper
  <2>2. As(r, c)'
    BY <2>1, StaysTrue
  <2>3. QED BY <2>1, <2>2 DEF Proper, AnswersFor
<1>3. \A s \in SessionKeys : Reserved(s)' => Reserved(s)
  BY NothingReserved DEF CliInv
<1>4. QED BY <1>1, <1>2, <1>3, Together

\* The creating transaction goes on.
LEMMA CreatesKeeps ==
  ASSUME CliInv, [CliNext]_allVars, NEW h \in Handlers, Creates(h)
  PROVE  CliInv'
<1>1. Settled /\ agents' = agents /\ UNCHANGED <<printed, lost, losses>>
  BY DEF Creates, Settled, HandlerStep, LockDevbox, InsertSession
<1>2. PICK pc, told : /\ Answered(h, pc, told)
                      /\ (pc = "ended" /\ told = "error") \/ (pc = "created" /\ told = "none")
  BY DEF Creates
<1>3. ASSUME NEW c \in Commands PROVE cli'[c] = cli[c] \/ Proper(cli'[c], c)
  <2>1. CASE cli[c].pc # "waiting"
    BY <1>2, <2>1 DEF Answered, CliAt
  <2>2. CASE cli[c].pc = "waiting" /\ cli'[c] # cli[c]
    <3>1. PICK r : r = cli'[c] /\ r = [cli[c] EXCEPT !.pc = pc, !.told = told, !.handler = None]
      BY <1>2, <2>2 DEF Answered
    <3>2. As(cli[c], c) /\ cli[c] \in CommandState /\ pc \in CliPc
      BY <1>2 DEF CliInv, As, CliPc, Requesting, Over
    <3>3. /\ r \in CommandState /\ r.pc = pc /\ r.told = told /\ r.session = cli[c].session
          /\ r.devbox = cli[c].devbox /\ r.directory = cli[c].directory /\ r.ordered = cli[c].ordered
      BY <1>2, <3>1, <3>2 DEF CommandState
    <3>4. As(r, c)
      BY <1>2, <2>2, <3>2, <3>3 DEF As, Requesting, Unkeyed, Identity, Over, AtAgent, Outcome
    <3>5. \A s \in SessionKeys : AnswersFor(cli[c], c, s) => AnswersFor(r, c, s)
      BY <1>2, <3>3 DEF AnswersFor, Requesting
    <3>6. QED BY <3>1, <3>4, <3>5 DEF Proper
  <2>3. QED BY <2>1, <2>2
<1>4. cli' = [c \in Commands |-> cli'[c]]
  BY <1>2 DEF Answered
<1>5. QED BY <1>1, <1>3, <1>4, AllKeep

\* The server dies under its requests.
LEMMA CrashKeeps ==
  ASSUME CliInv, [CliNext]_allVars, ServerCrashes
  PROVE  CliInv'
<1>1. Settled /\ agents' = agents /\ UNCHANGED <<printed, lost, losses>>
  BY DEF ServerCrashes, Settled, Crash
<1>2. cli' = [c \in Commands |-> IF CliAt(c, "waiting") THEN RetryOrGiveUp(c) ELSE cli[c]]
  BY DEF ServerCrashes
<1>3. ASSUME NEW c \in Commands PROVE cli'[c] = cli[c] \/ Proper(cli'[c], c)
  BY <1>2, RetryIsProper DEF CliInv, CliAt, Requesting
<1>4. cli' = [c \in Commands |-> cli'[c]]
  BY <1>2
<1>5. QED BY <1>1, <1>3, <1>4, AllKeep

\* Every step keeps the invariant.
LEMMA CliInvStep ==
  ASSUME CliInv, [CliNext]_allVars
  PROVE  CliInv'
<1>1. CASE UNCHANGED allVars
  BY <1>1, IdleKeeps DEF allVars, cliVars, vars, Settled, CliInv, Shared
<1>2. CASE ServerCrashes
  BY <1>2, CrashKeeps
<1>3. CASE BackendGoesOn
  <2>1. Settled /\ UNCHANGED <<cliVars, lost>>
    BY <1>3 DEF BackendGoesOn, Settled, HandlerStep
  <2>2. agents' = agents
    BY <1>3 DEF BackendGoesOn, Restart, TransitionSession, MarkDevboxDeleted, TerminateFailed, DeleteDevbox,
                Bootstrapped, DeadlinePasses, Receive, UpdateSessionStatus, CallbackLost
  <2>3. QED BY <2>1, <2>2, IdleKeeps DEF CliInv, Shared
<1>4. ASSUME NEW h \in Handlers, Creates(h) PROVE CliInv'
  BY <1>4, CreatesKeeps
<1>5. ASSUME NEW s \in SessionKeys, AgentGoesOn(s) PROVE CliInv'
  <2>1. Settled /\ UNCHANGED <<cliVars, lost>>
    BY <1>5 DEF AgentGoesOn, Settled
  <2>2. \A r \in SessionKeys : agents'[r] # "none" => agents[r] # "none"
    BY <1>5 DEF AgentGoesOn, AgentEnds, CliInv, SessionInv, TypeOK
  <2>3. QED BY <2>1, <2>2, IdleKeeps DEF CliInv, Shared
<1>6. ASSUME NEW s \in SessionKeys, AgentLost(s) PROVE CliInv'
  <2>1. Settled /\ UNCHANGED cliVars /\ agents' = agents /\ lost' \subseteq SessionKeys
    BY <1>6 DEF AgentLost, Settled, vars, CliInv, Shared
  <2>2. QED BY <2>1, IdleKeeps
<1>7. ASSUME NEW c \in Starts, StartStep(c) PROVE CliInv'
  <2>1. c \in Commands
    BY DEF Commands
  <2>2. ASSUME NEW h \in Handlers, SendCreate(c, h) PROVE CliInv'
    BY <2>2, SendKeeps
  <2>3. CASE PrintSession(c)
    BY <2>3, PrintKeeps
  <2>4. CASE (\E d \in Devboxes : BeginStart(c, d)) \/ RequestLost(c) \/ Refused(c)
    BY <2>1, <2>4, AloneOutside, ByItselfKeeps
  <2>5. QED BY <1>7, <2>2, <2>3, <2>4 DEF StartStep
<1>8. ASSUME NEW c \in Visits, (\E s \in SessionKeys : BeginConnect(c, s)) \/ (\E d \in Devboxes : BeginShell(c, d))
      PROVE CliInv'
  <2>1. c \in Commands
    BY DEF Commands
  <2>2. QED BY <1>8, <2>1, AloneOutside, ByItselfKeeps
<1>9. ASSUME NEW c \in Commands, CommandStep(c) PROVE CliInv'
  <2>1. CASE RemoteStart(c)
    BY <2>1, RemoteStartKeeps
  <2>2. CASE ~RemoteStart(c)
    BY <1>9, <2>2, AloneOutside, AloneInside, ByItselfKeeps DEF CommandStep
  <2>3. QED BY <2>1, <2>2
<1>10. QED BY <1>1, <1>2, <1>3, <1>4, <1>5, <1>6, <1>7, <1>8, <1>9 DEF CliNext

(***************************************************************************)
(* The theorems.                                                             *)
(***************************************************************************)
\* It holds at first.
LEMMA CliInvInit == CliInit => CliInv
<1> SUFFICES ASSUME CliInit PROVE CliInv
  OBVIOUS
<1>1. SessionInv /\ OutcomeIsExplained
  BY InvInit DEF CliInit
<1>2. Shared
  BY BoundAssumption DEF CliInit, Shared
<1>3. ASSUME NEW c \in Commands PROVE As(cli[c], c)
  <2>1. cli[c] = Command("idle", None, None) /\ 1 \in 1..Attempts /\ "idle" \in CliPc
    BY BoundAssumption DEF CliInit, CliPc
  <2>2. cli[c] \in CommandState
    BY <2>1 DEF Command, CommandState
  <2>3. /\ cli[c].pc = "idle" /\ cli[c].directory = "none" /\ cli[c].told = "none"
        /\ cli[c].ordered = FALSE
    BY <2>1 DEF Command
  <2>4. QED BY <2>2, <2>3 DEF As, Requesting, Identity, Over, AtAgent, Outcome
<1>4. \A s \in SessionKeys : ~Reserved(s) /\ agents[s] = "none"
  BY DEF CliInit, Init, NewRow, Idle, Task, Reserved
<1>5. DOMAIN cli = Commands /\ cli = [c \in Commands |-> cli[c]]
  BY DEF CliInit
<1>6. QED BY <1>1, <1>2, <1>3, <1>4, <1>5 DEF CliInv

\* The inductive invariant of the commands and the backend together.
THEOREM CliInvariant == CliSpec => []CliInv
BY CliInvInit, CliInvStep, PTL DEF CliSpec

\* The commands are always well formed.
THEOREM CliTypeCorrect == CliSpec => []CliTypeOK
<1>1. CliInv => CliTypeOK
  BY DEF CliInv, As, Shared, CliTypeOK
<1>2. QED BY <1>1, CliInvariant, PTL

\* The commands take the backend through no step of which Sessions knows nothing: what is
\* proved of Sessions holds with the CLI at work.
THEOREM BackendImplemented == CliSpec => Spec
<1>1. CliInit => Init
  BY DEF CliInit
<1>2. CliInv /\ [CliNext]_allVars => [Next]_vars
  BY BackendStep
<1>3. QED BY <1>1, <1>2, CliInvariant, PTL DEF CliSpec, Spec

\* No private key outlives its command, but by SIGKILL or a signal during the last removal.
THEOREM KeysRemoved == CliSpec => []KeysAreRemoved
<1>1. CliInv => KeysAreRemoved
  BY DEF CliInv, As, KeysAreRemoved, CommandState, CliPc, Unkeyed, Identity, Over, Requesting
<1>2. QED BY <1>1, CliInvariant, PTL

\* No agent and no session without someone who knows of it.
THEOREM SessionsKnown == CliSpec => []SessionsAreKnown
<1>1. CliInv => SessionsAreKnown
  BY DEF CliInv, SessionsAreKnown, Reserved, Known, AnswersFor, Requesting
<1>2. QED BY <1>1, CliInvariant, PTL

\* What the commands tell is so, and they agree but for what the backend decided.
THEOREM VerdictsTrue == CliSpec => []VerdictsAgree
<1>1. CliInv => VerdictsAgree
  <2> SUFFICES ASSUME CliInv, NEW s \in SessionKeys, NEW c \in Commands
               PROVE  /\ Told(c, s, "SUCCEEDED") => agents[s] = "SUCCEEDED"
                      /\ Told(c, s, "FAILED") /\ agents[s] # "FAILED" =>
                           /\ sessions[s].status = "FAILED"
                           /\ devboxes[sessions[s].devbox] = "DELETED" \/ sessions[s].overdue
    BY DEF VerdictsAgree
  <2>1. As(cli[c], c) /\ OutcomeIsExplained
    BY DEF CliInv
  <2>2. QED BY <2>1 DEF As, Told, OutcomeIsExplained
<1>2. QED BY <1>1, CliInvariant, PTL
=============================================================================
