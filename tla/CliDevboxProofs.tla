-------------------------- MODULE CliDevboxProofs --------------------------
(***************************************************************************)
(* Theorems about CliDevboxes, for any number of commands, attempts, looks, *)
(* losses, devboxes, requests and faults.                                   *)
(***************************************************************************)
EXTENDS CliDevboxProperties, DevboxProofs

(***************************************************************************)
(* To the backend, the commands are requests like any other.                *)
(***************************************************************************)
LEMMA BackendStep ==
  ASSUME CliTypeOK, [CliNext]_allVars
  PROVE  [Next]_vars
<1>1. CASE UNCHANGED allVars
  BY <1>1 DEF allVars
<1>2. ASSUME NEW c \in Creates, NEW h \in Handlers, SendCreate(c, h) PROVE Next
  <2>1. Key(c) \in Devboxes
    BY CommandAssumption DEF Key
  <2>2. QED BY <1>2, <2>1 DEF SendCreate, Next
<1>3. ASSUME NEW c \in Deletes, NEW h \in Handlers, SendDelete(c, h) PROVE Next
  <2>1. cli[c].devbox \in Devboxes
    BY <1>3 DEF SendDelete, CliTypeOK, InOrder, CliAt, Commands
  <2>2. QED BY <1>3, <2>1 DEF SendDelete, Next
<1>4. ASSUME NEW c \in Commands,
             \/ Refused(c) \/ Receive(c) \/ Look(c) \/ Fetch(c) \/ FetchFails(c) \/ PollTimeout(c)
             \/ RequestLost(c) \/ BodyLost(c)
      PROVE  UNCHANGED vars
  BY <1>4 DEF Refused, Receive, Look, Fetch, FetchFails, PollTimeout, RequestLost, BodyLost
<1>5. CASE ServerRestarts \/ ServerCrashes \/ BackendGoesOn
  BY <1>5 DEF ServerRestarts, ServerCrashes, BackendGoesOn, Next
<1>6. ASSUME NEW h \in Handlers, HandlerGoesOn(h) PROVE Next
  BY <1>6 DEF HandlerGoesOn, HandlerThrows, HandlerWorks, HandlerStep, Next
<1>7. CASE \/ \E c \in Creates : BeginCreate(c)
           \/ \E c \in Deletes, d \in Devboxes : BeginDelete(c, d)
  BY <1>7 DEF BeginCreate, BeginDelete
<1>8. QED BY <1>1, <1>2, <1>3, <1>4, <1>5, <1>6, <1>7 DEF CliNext, CommandStep, CreateStep, DeleteStep

(***************************************************************************)
(* What a step may do to one command.                                       *)
(***************************************************************************)
\* Command c stays about the devbox it was about.
Keeps(c, pcs) == cli'[c].pc \in pcs /\ cli'[c].devbox = cli[c].devbox /\ cli'[c].told = cli[c].told

Begins(c) ==
  /\ cli[c].pc = "idle" /\ cli'[c].pc = "send" /\ cli'[c].told = "none"
  /\ c \in Deletes => cli'[c].devbox \in Devboxes
  /\ c \in Creates => cli'[c].devbox = None

IsSent(c) ==
  /\ cli[c].pc = "send"
  /\ cli'[c].pc \in {"waiting", "answered"} /\ cli'[c].told = cli[c].told
  /\ cli'[c].devbox \in Devboxes /\ (c \in Creates => cli'[c].devbox = KeyOf[c])
  /\ cli'[c].pc = "answered" => cli'[c].answer = rows'[cli'[c].devbox].status

IsAnswered(c) ==
  /\ cli[c].pc = "waiting"
  /\ Keeps(c, {"waiting", "answered"})
  /\ cli'[c].pc = "answered" => cli'[c].answer \in {"error", rows'[cli[c].devbox].status}

GivesUp(c) ==
  /\ cli[c].pc \in Requesting \cup {"look", "fetch"}
  /\ cli'[c].devbox = cli[c].devbox
  /\ cli'[c].pc = "ended" /\ cli'[c].told \in {"timeout", "error", "internal_error"}
  /\ cli[c].pc \in Requesting => cli'[c].told # "timeout"

Repeats(c) == cli[c].pc \in Requesting /\ Keeps(c, {"send"})

IsReceived(c) ==
  /\ cli[c].pc = "answered" /\ cli[c].answer # "error"
  /\ Keeps(c, {"look"}) /\ cli'[c].heard = cli[c].answer
  /\ c \in Creates => cli[c].devbox \in printed'

LooksAgain(c) ==
  \/ /\ cli[c].pc = "look" /\ Keeps(c, {"fetch"}) /\ cli'[c].heard = cli[c].heard
     /\ cli'[c].polls = cli[c].polls /\ cli[c].polls > 0
  \/ cli[c].pc = "fetch" /\ Keeps(c, {"look"}) /\ cli'[c].heard = rows[cli[c].devbox].status

Concludes(c) ==
  /\ cli[c].pc = "look" /\ Verdict(c) # "none"
  /\ cli'[c].pc = "ended" /\ cli'[c].devbox = cli[c].devbox /\ cli'[c].told = Verdict(c)

Moved(c) ==
  \/ cli'[c] = cli[c]
  \/ Begins(c) \/ IsSent(c) \/ IsAnswered(c) \/ GivesUp(c) \/ Repeats(c) \/ IsReceived(c)
  \/ LooksAgain(c) \/ Concludes(c)

\* A step of command c leaves the other commands alone and c well typed.
LEMMA OneCommand ==
  ASSUME CliTypeOK, NEW c \in Commands, NEW command \in CommandState, CliBecomes(c, command)
  PROVE  /\ cli' \in [Commands -> CommandState]
         /\ cli'[c] = command
         /\ \A k \in Commands \ {c} : cli'[k] = cli[k]
BY DEF CliTypeOK, CliBecomes

LEMMA RetryType ==
  ASSUME NEW command \in CommandState, NEW c \in Commands, cli[c] = command
  PROVE  /\ RetryOrGiveUp(c) \in CommandState
         /\ RetryOrGiveUp(c).devbox = command.devbox
         /\ \/ RetryOrGiveUp(c).pc = "send" /\ RetryOrGiveUp(c).told = command.told
            \/ RetryOrGiveUp(c).pc = "ended" /\ RetryOrGiveUp(c).told = "error"
<1>1. AttemptsOf(c) \in 1..Attempts
  BY BoundAssumption DEF AttemptsOf
<1>2. CASE command.attempt < AttemptsOf(c)
  <2>1. PICK n : n = command.attempt + 1
    OBVIOUS
  <2>2. n \in 1..Attempts
    BY <1>1, <1>2, <2>1, BoundAssumption DEF CommandState
  <2>3. RetryOrGiveUp(c) = [command EXCEPT !.pc = "send", !.handler = None, !.attempt = n]
    BY <1>2, <2>1 DEF RetryOrGiveUp
  <2>4. QED BY <2>2, <2>3 DEF CommandState, Requesting
<1>3. CASE ~(command.attempt < AttemptsOf(c))
  <2>1. PICK r : r = Tells(c, "error")
    OBVIOUS
  <2>2. r \in CommandState /\ r.devbox = command.devbox /\ r.pc = "ended" /\ r.told = "error"
    BY <2>1 DEF Tells, CommandState
  <2>3. RetryOrGiveUp(c) = [r EXCEPT !.handler = None]
    BY <1>3, <2>1 DEF RetryOrGiveUp
  <2>4. QED BY <2>2, <2>3 DEF CommandState
<1>4. QED BY <1>2, <1>3

\* A step of its own moves a command and leaves the others alone.
OneMoves(c) ==
  /\ cli' \in [Commands -> CommandState]
  /\ Moved(c)
  /\ \A k \in Commands \ {c} : cli'[k] = cli[k]

LEMMA SentMoves ==
  ASSUME CliTypeOK, TypeOK', NEW c \in Commands, NEW d \in Devboxes, NEW h \in Handlers,
         CliAt(c, "send"), Sent(c, d, h), c \in Creates => d = KeyOf[c]
  PROVE  OneMoves(c)
<1>1. PICK sent : sent = [cli[c] EXCEPT !.devbox = d, !.answer = "none"]
  OBVIOUS
<1>2. cli[c] \in CommandState /\ cli[c].pc = "send"
  BY DEF CliTypeOK, CliAt
<1>3. sent \in CommandState /\ sent.devbox = d /\ sent.told = cli[c].told
  BY <1>1, <1>2 DEF CommandState
<1>4. rows'[d].status \in RowStatus
  BY DEF TypeOK, Row
<1>5. CASE handlers'[h] = Idle
  <2>1. PICK command : command = [sent EXCEPT !.pc = "answered", !.answer = rows'[d].status]
    OBVIOUS
  <2>2. /\ command \in CommandState /\ command.pc = "answered" /\ command.answer = rows'[d].status
        /\ command.devbox = d /\ command.told = cli[c].told
    BY <2>1, <1>3, <1>4 DEF CommandState, Requesting
  <2>3. CliBecomes(c, command)
    BY <2>1, <1>1, <1>5 DEF Sent
  <2>4. QED BY <2>2, <2>3, <1>2, OneCommand DEF OneMoves, Moved, IsSent
<1>6. CASE handlers'[h] # Idle
  <2>1. PICK command : command = [sent EXCEPT !.pc = "waiting", !.handler = h]
    OBVIOUS
  <2>2. command \in CommandState /\ command.pc = "waiting" /\ command.devbox = d /\ command.told = cli[c].told
    BY <2>1, <1>3 DEF CommandState, Requesting
  <2>3. CliBecomes(c, command)
    BY <2>1, <1>1, <1>6 DEF Sent
  <2>4. QED BY <2>2, <2>3, <1>2, OneCommand DEF OneMoves, Moved, IsSent
<1>7. QED BY <1>5, <1>6

LEMMA RepeatMoves ==
  ASSUME CliTypeOK, NEW c \in Commands, cli[c].pc \in Requesting, CliBecomes(c, RetryOrGiveUp(c))
  PROVE  OneMoves(c)
<1>1. cli[c] \in CommandState
  BY DEF CliTypeOK
<1>2. PICK command : command = RetryOrGiveUp(c)
  OBVIOUS
<1>3. /\ command \in CommandState /\ command.devbox = cli[c].devbox
      /\ \/ command.pc = "send" /\ command.told = cli[c].told
         \/ command.pc = "ended" /\ command.told = "error"
  BY <1>1, <1>2, RetryType
<1>4. QED BY <1>2, <1>3, OneCommand DEF OneMoves, Moved, Repeats, GivesUp, Keeps

LEMMA TellsMoves ==
  ASSUME CliTypeOK, NEW c \in Commands,
         NEW told \in {"ready", "bootstrap_failed", "deleted", "timeout", "error", "internal_error"},
         CliBecomes(c, Tells(c, told)),
         \/ /\ cli[c].pc \in Requesting \cup {"look", "fetch"}
            /\ told \in {"timeout", "error", "internal_error"}
            /\ cli[c].pc \in Requesting => told # "timeout"
         \/ cli[c].pc = "look" /\ told = Verdict(c) /\ told # "none"
  PROVE  OneMoves(c)
<1>1. PICK command : command = Tells(c, told)
  OBVIOUS
<1>2. cli[c] \in CommandState
  BY DEF CliTypeOK
<1>3. command \in CommandState /\ command.pc = "ended" /\ command.told = told /\ command.devbox = cli[c].devbox
  BY <1>1, <1>2 DEF Tells, CommandState
<1>4. QED BY <1>1, <1>3, OneCommand DEF OneMoves, Moved, GivesUp, Concludes

\* The steps between two requests.
LEMMA PollMoves ==
  ASSUME CliTypeOK, TypeOK, NEW c \in Commands,
         Receive(c) \/ Look(c) \/ Fetch(c) \/ FetchFails(c) \/ PollTimeout(c)
  PROVE  OneMoves(c) /\ rows' = rows /\ printed \subseteq printed' /\ printed' \subseteq Devboxes
<1>0. cli[c] \in CommandState /\ printed \subseteq Devboxes
  BY DEF CliTypeOK
<1>1. CASE Receive(c) /\ cli[c].answer = "error"
  <2>1. OneMoves(c)
    BY <1>1, RepeatMoves DEF Receive, CliAt, Requesting
  <2>2. QED BY <2>1, <1>0, <1>1 DEF Receive, vars
<1>2. CASE Receive(c) /\ cli[c].answer # "error"
  <2>1. PICK command :
          command = [cli[c] EXCEPT !.pc = "look", !.heard = cli[c].answer, !.polls = PollAttempts]
    OBVIOUS
  <2>2. CliBecomes(c, command) /\ cli[c].pc = "answered" /\ rows' = rows
        /\ printed' = IF c \in Creates THEN printed \cup {cli[c].devbox} ELSE printed
    BY <1>2, <2>1 DEF Receive, CliAt, vars
  <2>3. cli[c].answer \in RowStatus /\ cli[c].devbox \in Devboxes
    BY <1>2, <2>2 DEF CliTypeOK, InOrder, CommandState
  <2>4. /\ command \in CommandState /\ command.pc = "look" /\ command.heard = cli[c].answer
        /\ command.devbox = cli[c].devbox /\ command.told = cli[c].told
    <3>1. PollAttempts \in 0..PollAttempts
      BY BoundAssumption
    <3>2. PICK a : a = cli[c].answer
      OBVIOUS
    <3>3. QED BY <1>0, <2>1, <2>3, <3>1, <3>2 DEF CommandState
  <2>5. OneMoves(c)
    BY <1>2, <2>2, <2>4, OneCommand DEF OneMoves, Moved, IsReceived, Keeps
  <2>6. QED BY <2>2, <2>3, <2>5, <1>0
<1>3. CASE Look(c) /\ Verdict(c) # "none"
  <2>1. Verdict(c) \in {"ready", "bootstrap_failed", "deleted"} /\ CliBecomes(c, Tells(c, Verdict(c)))
        /\ cli[c].pc = "look" /\ rows' = rows /\ printed' = printed
    BY <1>3 DEF Look, Verdict, CliAt, vars
  <2>2. QED BY <2>1, <1>0, TellsMoves
<1>4. CASE Look(c) /\ Verdict(c) = "none"
  <2>1. PICK command : command = [cli[c] EXCEPT !.pc = "fetch"]
    OBVIOUS
  <2>2. CliBecomes(c, command) /\ cli[c].pc = "look" /\ rows' = rows /\ printed' = printed /\ cli[c].polls > 0
    BY <1>4, <2>1 DEF Look, CliAt, vars
  <2>3. /\ command \in CommandState /\ command.pc = "fetch" /\ command.heard = cli[c].heard
        /\ command.devbox = cli[c].devbox /\ command.told = cli[c].told /\ command.polls = cli[c].polls
    BY <1>0, <2>1 DEF CommandState
  <2>4. QED BY <2>2, <2>3, <1>0, OneCommand DEF OneMoves, Moved, LooksAgain, Keeps
<1>5. CASE Fetch(c)
  <2>1. PICK n : n = cli[c].polls - 1
    OBVIOUS
  <2>2. cli[c].pc = "fetch" /\ rows' = rows /\ printed' = printed /\ cli[c].polls > 0
    BY <1>5 DEF Fetch, CliAt, vars, CliTypeOK, InOrder
  <2>3. PICK command :
          command = [cli[c] EXCEPT !.pc = "look", !.heard = rows[cli[c].devbox].status, !.polls = n]
    OBVIOUS
  <2>4. CliBecomes(c, command)
    BY <1>5, <2>1, <2>3 DEF Fetch
  <2>5. n \in 0..PollAttempts
    BY <1>0, <2>1, <2>2, BoundAssumption DEF CommandState
  <2>6. rows[cli[c].devbox].status \in RowStatus
    BY <2>2 DEF CliTypeOK, InOrder, TypeOK, Row
  <2>7. /\ command \in CommandState /\ command.pc = "look" /\ command.heard = rows[cli[c].devbox].status
        /\ command.devbox = cli[c].devbox /\ command.told = cli[c].told
    BY <1>0, <2>3, <2>5, <2>6 DEF CommandState
  <2>8. QED BY <2>2, <2>4, <2>7, <1>0, OneCommand DEF OneMoves, Moved, LooksAgain, Keeps
<1>6. CASE FetchFails(c)
  <2>1. CliBecomes(c, Tells(c, "error")) /\ cli[c].pc = "fetch" /\ rows' = rows /\ printed' = printed
    BY <1>6 DEF FetchFails, CliAt, vars
  <2>2. QED BY <2>1, <1>0, TellsMoves DEF Requesting
<1>7. CASE PollTimeout(c)
  <2>1. CliBecomes(c, Tells(c, "timeout")) /\ cli[c].pc = "look" /\ rows' = rows /\ printed' = printed
    BY <1>7 DEF PollTimeout, CliAt, vars
  <2>2. QED BY <2>1, <1>0, TellsMoves DEF Requesting
<1>8. QED BY <1>1, <1>2, <1>3, <1>4, <1>5, <1>6, <1>7

\* A handler's step answers the commands that wait for it.
LEMMA AnsweredMoves ==
  ASSUME CliTypeOK, TypeOK', NEW h \in Handlers, NEW error \in BOOLEAN, Answered(h, error)
  PROVE  cli' \in [Commands -> CommandState] /\ \A c \in Commands : Moved(c)
<1> SUFFICES ASSUME NEW c \in Commands PROVE cli'[c] \in CommandState /\ Moved(c)
  BY DEF Answered
<1>0. cli[c] \in CommandState
  BY DEF CliTypeOK
<1>1. CASE ~Awaits(c, h)
  BY <1>0, <1>1 DEF Answered, Moved
<1>2. CASE Awaits(c, h)
  <2>1. cli[c].pc = "waiting" /\ cli[c].devbox \in Devboxes
    BY <1>2 DEF Awaits, CliAt, CliTypeOK, InOrder
  <2>2. PICK a : a = IF error \/ cli[c].answer = "error" THEN "error" ELSE rows'[cli[c].devbox].status
    OBVIOUS
  <2>3. a \in RowStatus \cup {"error"} /\ a \in {"error", rows'[cli[c].devbox].status}
    BY <2>1, <2>2 DEF TypeOK, Row
  <2>4. CASE handlers'[h] = Idle
    <3>1. cli'[c] = [cli[c] EXCEPT !.pc = "answered", !.handler = None, !.answer = a]
      BY <1>2, <2>2, <2>4 DEF Answered
    <3>2. /\ cli'[c] \in CommandState /\ cli'[c].pc = "answered" /\ cli'[c].answer = a
          /\ cli'[c].devbox = cli[c].devbox /\ cli'[c].told = cli[c].told
      BY <3>1, <1>0, <2>3 DEF CommandState, Requesting
    <3>3. QED BY <3>2, <2>1, <2>3 DEF Moved, IsAnswered, Keeps
  <2>5. CASE handlers'[h] # Idle
    <3>1. PICK b : b = IF error THEN "error" ELSE cli[c].answer
      OBVIOUS
    <3>2. cli'[c] = [cli[c] EXCEPT !.answer = b]
      BY <1>2, <2>5, <3>1 DEF Answered
    <3>3. b \in RowStatus \cup {"none", "error"}
      BY <1>0, <3>1 DEF CommandState
    <3>4. /\ cli'[c] \in CommandState /\ cli'[c].pc = "waiting"
          /\ cli'[c].devbox = cli[c].devbox /\ cli'[c].told = cli[c].told
      BY <3>2, <3>3, <1>0, <2>1 DEF CommandState
    <3>5. QED BY <3>4, <2>1 DEF Moved, IsAnswered, Keeps
  <2>6. QED BY <2>4, <2>5
<1>3. QED BY <1>1, <1>2

LEMMA CrashMoves ==
  ASSUME CliTypeOK, ServerCrashes
  PROVE  cli' \in [Commands -> CommandState] /\ \A c \in Commands : Moved(c)
<1> SUFFICES ASSUME NEW c \in Commands PROVE cli'[c] \in CommandState /\ Moved(c)
  BY DEF ServerCrashes
<1>0. cli[c] \in CommandState
  BY DEF CliTypeOK
<1>1. CASE cli[c].pc = "waiting"
  <2>1. PICK command : command = RetryOrGiveUp(c)
    OBVIOUS
  <2>2. cli'[c] = command
    BY <1>1, <2>1 DEF ServerCrashes, CliAt
  <2>3. /\ command \in CommandState /\ command.devbox = cli[c].devbox
        /\ \/ command.pc = "send" /\ command.told = cli[c].told
           \/ command.pc = "ended" /\ command.told = "error"
    BY <1>0, <2>1, RetryType
  <2>4. QED BY <1>1, <2>2, <2>3 DEF Moved, Repeats, GivesUp, Keeps, Requesting
<1>2. CASE cli[c].pc # "waiting"
  BY <1>0, <1>2 DEF ServerCrashes, CliAt, Moved
<1>3. QED BY <1>1, <1>2

LEMMA BeginMoves ==
  ASSUME CliTypeOK, NEW c \in Commands,
         \/ c \in Creates /\ BeginCreate(c)
         \/ c \in Deletes /\ \E d \in Devboxes : BeginDelete(c, d)
  PROVE  OneMoves(c)
<1>1. PICK d \in Devboxes \cup {None} :
        CliBecomes(c, Command("send", d)) /\ cli[c].pc = "idle"
        /\ (c \in Deletes => d \in Devboxes) /\ (c \in Creates => d = None)
  <2>1. CASE c \in Creates /\ BeginCreate(c)
    BY <2>1, CommandAssumption DEF BeginCreate, CliAt
  <2>2. CASE c \in Deletes /\ \E d \in Devboxes : BeginDelete(c, d)
    BY <2>2, CommandAssumption DEF BeginDelete, CliAt
  <2>3. QED BY <2>1, <2>2
<1>2. 1 \in 1..Attempts /\ 0 \in 0..PollAttempts
  BY BoundAssumption
<1>3. Command("send", d) \in CommandState
  BY <1>2 DEF Command, CommandState, Requesting, RowStatus
<1>4. QED BY <1>1, <1>3, OneCommand DEF OneMoves, Moved, Begins, Command

(***************************************************************************)
(* A step of the commands as a whole.                                       *)
(***************************************************************************)
StepMoves ==
  /\ cli' \in [Commands -> CommandState]
  /\ \A c \in Commands : Moved(c)
  /\ printed \subseteq printed' /\ printed' \subseteq Devboxes
  /\ losses' \in 0..MaxLosses

LEMMA OneIsAll ==
  ASSUME NEW c \in Commands, OneMoves(c)
  PROVE  cli' \in [Commands -> CommandState] /\ \A k \in Commands : Moved(k)
BY DEF OneMoves, Moved

LEMMA CliStepMoves ==
  ASSUME CliTypeOK, TypeOK, TypeOK', [CliNext]_allVars
  PROVE  StepMoves
<1>0. losses \in 0..MaxLosses /\ printed \subseteq Devboxes /\ cli \in [Commands -> CommandState]
  BY DEF CliTypeOK
<1>l. Loss => losses' \in 0..MaxLosses
  BY <1>0, BoundAssumption DEF Loss
<1>1. CASE UNCHANGED cliVars
  BY <1>0, <1>1 DEF cliVars, StepMoves, Moved
<1>2. ASSUME NEW c \in Creates, NEW h \in Handlers, SendCreate(c, h) PROVE StepMoves
  <2>1. Key(c) \in Devboxes /\ Key(c) = KeyOf[c] /\ c \in Commands
    BY CommandAssumption DEF Key, Commands
  <2>2. QED BY <1>0, <1>2, <2>1, SentMoves, OneIsAll DEF SendCreate, StepMoves
<1>3. ASSUME NEW c \in Deletes, NEW h \in Handlers, SendDelete(c, h) PROVE StepMoves
  <2>1. cli[c].devbox \in Devboxes /\ c \in Commands /\ c \notin Creates
    BY <1>3, CommandAssumption DEF SendDelete, CliTypeOK, InOrder, CliAt, Commands
  <2>2. QED BY <1>0, <1>3, <2>1, SentMoves, OneIsAll DEF SendDelete, StepMoves
<1>4. ASSUME NEW c \in Commands, Receive(c) \/ Look(c) \/ Fetch(c) \/ FetchFails(c) \/ PollTimeout(c)
      PROVE  StepMoves
  <2>1. losses' \in 0..MaxLosses
    BY <1>0, <1>l, <1>4 DEF Receive, Look, Fetch, FetchFails, PollTimeout
  <2>2. QED BY <1>4, <2>1, PollMoves, OneIsAll DEF StepMoves
<1>5. ASSUME NEW c \in Commands, Refused(c) \/ RequestLost(c) PROVE StepMoves
  BY <1>0, <1>l, <1>5, RepeatMoves, OneIsAll DEF Refused, RequestLost, StepMoves, CliAt, Requesting
<1>6. ASSUME NEW c \in Commands, BodyLost(c) PROVE StepMoves
  BY <1>0, <1>l, <1>6, TellsMoves, OneIsAll DEF BodyLost, StepMoves, CliAt, Requesting
<1>7. ASSUME NEW h \in Handlers, HandlerGoesOn(h) PROVE StepMoves
  <2>1. PICK error \in BOOLEAN : Answered(h, error)
    BY <1>7 DEF HandlerGoesOn, HandlerThrows, HandlerWorks
  <2>2. QED BY <1>0, <1>7, <2>1, AnsweredMoves DEF HandlerGoesOn, HandlerThrows, HandlerWorks, StepMoves
<1>8. CASE ServerCrashes
  BY <1>0, <1>8, CrashMoves DEF ServerCrashes, StepMoves
<1>9. ASSUME NEW c \in Commands,
             \/ c \in Creates /\ BeginCreate(c)
             \/ c \in Deletes /\ (\E d \in Devboxes : BeginDelete(c, d))
      PROVE  StepMoves
  BY <1>0, <1>9, BeginMoves, OneIsAll DEF BeginCreate, BeginDelete, StepMoves
<1>10. CASE ServerRestarts \/ BackendGoesOn
  BY <1>1, <1>10 DEF ServerRestarts, BackendGoesOn
<1>11. CASE UNCHANGED allVars
  BY <1>1, <1>11 DEF allVars
<1>12. QED
  BY <1>2, <1>3, <1>4, <1>5, <1>6, <1>7, <1>8, <1>9, <1>10, <1>11
  DEF CliNext, CommandStep, CreateStep, DeleteStep, Commands

\* Moves keep commands in order.
LEMMA StepInOrder ==
  ASSUME CliTypeOK, TypeOK, TypeOK', StepMoves
  PROVE  CliTypeOK'
<1> SUFFICES ASSUME NEW c \in Commands PROVE InOrder(c)'
  BY DEF StepMoves, CliTypeOK
<1>1. InOrder(c) /\ Moved(c)
  BY DEF CliTypeOK, StepMoves
<1>2. \A d \in Devboxes : rows'[d].status # "none" /\ rows[d].status # "none"
  BY DEF TypeOK, Row, RowStatus, DevboxStatus
<1>3. Verdict(c) \in {"none", "ready", "bootstrap_failed", "deleted"}
  BY DEF Verdict
<1>4. CASE cli'[c] = cli[c]
  BY <1>1, <1>4 DEF InOrder
<1>5. CASE Begins(c) \/ IsSent(c) \/ IsAnswered(c) \/ GivesUp(c) \/ Repeats(c)
  BY <1>1, <1>2, <1>5 DEF InOrder, Begins, IsSent, IsAnswered, GivesUp, Repeats, Keeps, Requesting
<1>6. CASE IsReceived(c) \/ LooksAgain(c) \/ Concludes(c)
  BY <1>1, <1>2, <1>3, <1>6 DEF InOrder, IsReceived, LooksAgain, Concludes, Keeps
<1>7. QED BY <1>1, <1>4, <1>5, <1>6 DEF Moved

(***************************************************************************)
(* The theorems.                                                            *)
(***************************************************************************)
CliInv == CliTypeOK /\ NameInv

LEMMA CliInvStep ==
  ASSUME CliInv, [CliNext]_allVars
  PROVE  CliInv' /\ StepMoves /\ [Next]_vars
<1>1. [Next]_vars
  BY BackendStep DEF CliInv
<1>2. NameInv'
  BY <1>1, StepNames DEF CliInv
<1>3. TypeOK /\ TypeOK'
  BY <1>2 DEF CliInv, NameInv
<1>4. StepMoves
  BY <1>3, CliStepMoves DEF CliInv
<1>5. QED BY <1>1, <1>2, <1>3, <1>4, StepInOrder DEF CliInv

THEOREM CliInvariant == CliSpec => []CliInv
<1>1. CliInit => CliInv
  <2> SUFFICES ASSUME CliInit PROVE CliInv
    OBVIOUS
  <2>1. NameInv
    BY InitNames DEF CliInit
  <2>2. 1 \in 1..Attempts /\ 0 \in 0..PollAttempts /\ 0 \in 0..MaxLosses
    BY BoundAssumption
  <2>3. Command("idle", None) \in CommandState
    BY <2>2 DEF Command, CommandState, RowStatus
  <2>4. \A c \in Commands : InOrder(c)
    BY DEF CliInit, Command, InOrder
  <2>5. QED BY <2>1, <2>2, <2>3, <2>4 DEF CliInit, CliInv, CliTypeOK
<1>2. CliInv /\ [CliNext]_allVars => CliInv'
  BY CliInvStep
<1>3. QED BY <1>1, <1>2, PTL DEF CliSpec

\* The commands and their bookkeeping are well typed.
THEOREM CliTypeCorrect == CliSpec => []CliTypeOK
<1>1. CliInv => CliTypeOK
  BY DEF CliInv
<1>2. QED BY <1>1, CliInvariant, PTL

\* Whatever the commands send, lose and repeat, the backend behaves as Devboxes says: all its
\* theorems hold under them.
THEOREM BackendImplemented == CliSpec => Spec
<1>1. CliInit => Init
  BY DEF CliInit
<1>2. CliInv /\ [CliNext]_allVars => [Next]_vars
  BY CliInvStep
<1>3. QED BY <1>1, <1>2, CliInvariant, PTL DEF CliSpec, Spec

\* A row that has come into being was asked for by a create in this step.
LEMMA NewRowIsSent ==
  ASSUME CliInv, [CliNext]_allVars, NEW d \in Devboxes, rows[d].status = "ABSENT", rows'[d].status # "ABSENT"
  PROVE  \E c \in Creates : cli'[c].devbox = d /\ cli'[c].pc \in Requesting
<1>0. TypeOK /\ TypeOK' /\ CliTypeOK
  BY CliInvStep DEF CliInv, NameInv
<1>t. rows \in [Devboxes -> Row]
  BY <1>0 DEF TypeOK
<1>1. CASE UNCHANGED rows
  BY <1>1
<1>2. ASSUME NEW c \in Creates, NEW h \in Handlers, SendCreate(c, h)
      PROVE  cli'[c].devbox = d /\ cli'[c].pc \in Requesting
  <2>1. Key(c) \in Devboxes /\ Key(c) = KeyOf[c] /\ c \in Commands
    BY CommandAssumption DEF Key, Commands
  <2>2. OneMoves(c) /\ cli[c].pc = "send"
    BY <1>0, <1>2, <2>1, SentMoves DEF SendCreate, CliAt
  <2>3. d = KeyOf[c]
    BY <1>t, <1>2, <2>1 DEF SendCreate, CreateDevbox, InsertDevbox
  <2>4. CliBecomes(c, cli'[c]) /\ cli'[c].pc \in {"answered", "waiting"}
    BY <1>0, <1>2, <2>1 DEF SendCreate, Sent, CliBecomes, CliTypeOK, CommandState
  <2>5. cli'[c].devbox = KeyOf[c]
    BY <1>0, <1>2, <2>1 DEF SendCreate, Sent, CliBecomes, CliTypeOK, CommandState
  <2>6. QED BY <2>3, <2>4, <2>5 DEF Requesting
<1>3. ASSUME NEW c \in Deletes, NEW h \in Handlers, SendDelete(c, h) PROVE FALSE
  BY <1>t, <1>3 DEF SendDelete, DeleteDevbox, MarkDevboxDeleting, SetStatus, Row
<1>4. ASSUME NEW h \in Handlers, HandlerGoesOn(h) PROVE FALSE
  <2>1. ApplyTransition(h) \/ SaveLaunch(h) \/ MarkDeleted(h) \/ UNCHANGED rows
    BY <1>4 DEF HandlerGoesOn, HandlerThrows, LaunchRefused, LaunchAnswerLost, TerminateFailed,
       HandlerWorks, LaunchDevbox, ReadAfterFailedLaunch, TerminateDevbox, InstanceNotShown
  <2>2. QED BY <2>1, <1>t
        DEF ApplyTransition, TransitionDevboxBootstrap, SaveLaunch, SaveDevboxLaunch, MarkDeleted,
            MarkDevboxDeleted, SetStatus, Row
<1>5. ASSUME ServerRestarts \/ ServerCrashes \/ BackendGoesOn PROVE FALSE
  <2>1. Restart \/ (\E i \in Devboxes : DeadlinePasses(i)) \/ UNCHANGED rows
    BY <1>5 DEF ServerRestarts, StartUp, Listen, ReconcileNext, ServerCrashes, Crash, BackendGoesOn,
       UpdateDevboxStatus, CallbackLost, Bootstrap
  <2>2. QED BY <2>1, <1>t DEF Restart, ExpireOverdueDevboxes, DeadlinePasses, Row
<1>6. ASSUME NEW c \in Commands,
             \/ Refused(c) \/ Receive(c) \/ Look(c) \/ Fetch(c) \/ FetchFails(c) \/ PollTimeout(c)
             \/ RequestLost(c) \/ BodyLost(c)
      PROVE  UNCHANGED rows
  BY <1>6 DEF Refused, Receive, Look, Fetch, FetchFails, PollTimeout, RequestLost, BodyLost, vars
<1>7. CASE \/ UNCHANGED allVars
           \/ \E c \in Creates : BeginCreate(c)
           \/ \E c \in Deletes, i \in Devboxes : BeginDelete(c, i)
  BY <1>1, <1>7 DEF BeginCreate, BeginDelete, vars, allVars
<1>8. QED
  BY <1>1, <1>2, <1>3, <1>4, <1>5, <1>6, <1>7 DEF CliNext, CommandStep, CreateStep, DeleteStep

\* No retry, timeout or lost answer leaves a devbox behind that no command answers for.
THEOREM DevboxKnown == CliSpec => []DevboxesAreKnown
<1>1. CliInit => DevboxesAreKnown
  BY DEF CliInit, Init, NoRow, NewRow, DevboxesAreKnown
<1>2. CliInv /\ DevboxesAreKnown /\ [CliNext]_allVars => DevboxesAreKnown'
  <2> SUFFICES ASSUME CliInv, DevboxesAreKnown, [CliNext]_allVars, NEW d \in Devboxes,
                      rows'[d].status # "ABSENT"
               PROVE  \/ d \in printed'
                      \/ \E c \in Creates : cli'[c].devbox = d
                           /\ (cli'[c].pc \in Requesting \/ cli'[c].told \in {"error", "internal_error"})
    BY DEF DevboxesAreKnown
  <2>1. CASE rows[d].status = "ABSENT"
    BY <2>1, NewRowIsSent
  <2>2. CASE rows[d].status # "ABSENT" /\ d \in printed
    BY <2>2, CliInvStep DEF StepMoves
  <2>3. ASSUME NEW c \in Creates, cli[c].devbox = d,
               cli[c].pc \in Requesting \/ cli[c].told \in {"error", "internal_error"}
        PROVE  \/ d \in printed'
               \/ cli'[c].devbox = d
                    /\ (cli'[c].pc \in Requesting \/ cli'[c].told \in {"error", "internal_error"})
    <3>1. Moved(c) /\ InOrder(c) /\ StepMoves
      BY <2>3, CliInvStep DEF StepMoves, CliInv, CliTypeOK, Commands
    <3>2. KeyOf[c] = d
      BY <2>3, <3>1, NoneAssumption DEF InOrder
    <3>3. CASE cli'[c] = cli[c]
      BY <2>3, <3>3
    <3>4. CASE Begins(c) \/ LooksAgain(c) \/ Concludes(c)
      BY <2>3, <3>1, <3>4 DEF InOrder, Begins, LooksAgain, Concludes, Requesting
    <3>5. CASE IsSent(c) \/ IsAnswered(c) \/ Repeats(c)
      BY <2>3, <3>2, <3>5 DEF IsSent, IsAnswered, Repeats, Keeps, Requesting
    <3>6. CASE GivesUp(c)
      BY <2>3, <3>1, <3>6 DEF InOrder, GivesUp, Requesting
    <3>7. CASE IsReceived(c)
      BY <2>3, <3>7 DEF IsReceived
    <3>8. QED BY <3>1, <3>3, <3>4, <3>5, <3>6, <3>7 DEF Moved
  <2>4. QED BY <2>1, <2>2, <2>3 DEF DevboxesAreKnown
<1>3. QED BY <1>1, <1>2, CliInvariant, PTL DEF CliSpec

(***************************************************************************)
(* What was told stays true.  VerdictsStand alone is not inductive: it says  *)
(* nothing of a status that has been heard and not yet judged.               *)
(***************************************************************************)
\* A devbox that once had status s may now have status now.
Behind(s, now) ==
  /\ s = "READY"   => now \in {"READY", "DELETING", "DELETED"}
  /\ s = "FAILED"  => now \in {"FAILED", "DELETING", "DELETED"}
  /\ s = "DELETED" => now = "DELETED"

Heeded(c) ==
  /\ cli[c].pc \in {"look", "fetch"} => Behind(cli[c].heard, rows[cli[c].devbox].status)
  /\ cli[c].pc = "answered" => Behind(cli[c].answer, rows[cli[c].devbox].status)

HeardStands == \A c \in Commands : Heeded(c)

LEMMA StatusMovesOn ==
  ASSUME CliInv, [CliNext]_allVars, NEW d \in Devboxes, NEW s
  PROVE  Behind(s, rows[d].status) => Behind(s, rows'[d].status)
<1>1. [Next]_vars /\ NameInv
  BY CliInvStep DEF CliInv
<1>2. CASE UNCHANGED vars
  BY <1>2 DEF vars
<1>3. CASE Next
  <2>1. ContractMove(d)
    BY <1>1, <1>3, StepFollowsContract
  <2>2. QED BY <2>1 DEF ContractMove, IsDevboxTransitionAllowed, DevboxTransitions, DevboxStatus, Behind
<1>4. QED BY <1>1, <1>2, <1>3

LEMMA HeardStandsStep ==
  ASSUME CliInv, HeardStands, [CliNext]_allVars
  PROVE  HeardStands'
<1> SUFFICES ASSUME NEW c \in Commands PROVE Heeded(c)'
  BY DEF HeardStands
<1>1. Moved(c) /\ InOrder(c) /\ Heeded(c)
  BY CliInvStep DEF StepMoves, CliInv, CliTypeOK, HeardStands
<1>2. \A d \in Devboxes, s \in RowStatus \cup {"none", "error"} :
        Behind(s, rows[d].status) => Behind(s, rows'[d].status)
  BY StatusMovesOn
<1>3. /\ \A now : Behind("error", now)
      /\ \A now : Behind(now, now)
  BY DEF Behind
<1>4. cli[c].heard \in RowStatus /\ cli[c].answer \in RowStatus \cup {"none", "error"}
  BY DEF CliInv, CliTypeOK, CommandState
<1>5. CASE cli'[c] = cli[c]
  BY <1>1, <1>2, <1>4, <1>5 DEF Heeded, InOrder
<1>6. CASE Begins(c) \/ GivesUp(c) \/ Repeats(c) \/ Concludes(c)
  BY <1>6 DEF Heeded, Begins, GivesUp, Repeats, Concludes, Keeps
<1>7. CASE IsSent(c) \/ IsAnswered(c)
  BY <1>3, <1>7 DEF Heeded, IsSent, IsAnswered, Keeps
<1>8. CASE IsReceived(c)
  BY <1>1, <1>2, <1>4, <1>8 DEF Heeded, InOrder, IsReceived, Keeps
<1>9. CASE LooksAgain(c)
  <2>1. cli[c].devbox \in Devboxes /\ rows[cli[c].devbox].status \in RowStatus
    BY <1>1, <1>9 DEF InOrder, LooksAgain, CliInv, NameInv, TypeOK, Row
  <2>2. QED BY <1>1, <1>2, <1>3, <1>4, <1>9, <2>1 DEF Heeded, LooksAgain, Keeps
<1>10. QED BY <1>1, <1>5, <1>6, <1>7, <1>8, <1>9 DEF Moved

\* READY, failed and DELETED are told only when they are true, and stay true.
THEOREM VerdictsTrue == CliSpec => []VerdictsStand
<1>1. CliInit => HeardStands /\ VerdictsStand
  BY DEF CliInit, Command, HeardStands, Heeded, VerdictsStand
<1>2. CliInv /\ HeardStands /\ VerdictsStand /\ [CliNext]_allVars => VerdictsStand'
  <2> SUFFICES ASSUME CliInv, HeardStands, VerdictsStand, [CliNext]_allVars, NEW c \in Commands
               PROVE  /\ cli'[c].told = "ready" => rows'[cli'[c].devbox].status \in {"READY", "DELETING", "DELETED"}
                      /\ cli'[c].told = "bootstrap_failed"
                           => rows'[cli'[c].devbox].status \in {"FAILED", "DELETING", "DELETED"}
                      /\ cli'[c].told = "deleted" => rows'[cli'[c].devbox].status = "DELETED"
    BY DEF VerdictsStand
  <2>1. Moved(c) /\ InOrder(c) /\ Heeded(c)
    BY CliInvStep DEF StepMoves, CliInv, CliTypeOK, HeardStands
  <2>2. \A d \in Devboxes, s \in RowStatus : Behind(s, rows[d].status) => Behind(s, rows'[d].status)
    BY StatusMovesOn
  <2>3. CASE Concludes(c)
    <3>1. cli[c].devbox \in Devboxes /\ cli[c].heard \in RowStatus
      BY <2>1, <2>3 DEF InOrder, Concludes, CliInv, CliTypeOK, CommandState
    <3>2. Behind(cli[c].heard, rows'[cli[c].devbox].status)
      BY <2>1, <2>2, <2>3, <3>1 DEF Heeded, Concludes
    <3>3. QED BY <2>3, <3>2 DEF Concludes, Verdict, Behind
  <2>4. CASE cli'[c].told \notin {"ready", "bootstrap_failed", "deleted"}
    BY <2>4
  <2>5. CASE cli'[c] = cli[c] /\ cli[c].told \in {"ready", "bootstrap_failed", "deleted"}
    <3>1. cli[c].devbox \in Devboxes
      BY <2>1, <2>5 DEF InOrder
    <3>2. /\ Behind("READY", rows[cli[c].devbox].status) => Behind("READY", rows'[cli[c].devbox].status)
          /\ Behind("FAILED", rows[cli[c].devbox].status) => Behind("FAILED", rows'[cli[c].devbox].status)
          /\ Behind("DELETED", rows[cli[c].devbox].status) => Behind("DELETED", rows'[cli[c].devbox].status)
      BY <2>2, <3>1 DEF RowStatus, DevboxStatus
    <3>3. QED BY <2>5, <3>2 DEF VerdictsStand, Behind
  <2>6. QED BY <2>1, <2>3, <2>4, <2>5
        DEF Moved, InOrder, Begins, IsSent, IsAnswered, GivesUp, Repeats, IsReceived, LooksAgain, Keeps, Requesting
<1>3. QED BY <1>1, <1>2, HeardStandsStep, CliInvariant, PTL DEF CliSpec
=============================================================================
