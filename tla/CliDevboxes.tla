---------------------------- MODULE CliDevboxes ----------------------------
(***************************************************************************)
(* The CLI's devbox commands against the backend: `devbox create` posts with *)
(* one idempotency key for all its attempts and then polls, `devbox delete`  *)
(* asks once and then polls.  Requests and answers get lost or time out      *)
(* while the handler goes on, so an attempt can overtake the one before it.  *)
(*                                                                           *)
(* The server's side is Devboxes, step for step; a request occupies one of   *)
(* its handlers, and what that handler leaves in the row is the answer.      *)
(***************************************************************************)
EXTENDS Devboxes

CONSTANTS Creates, Deletes,  \* the commands that may be given
          KeyOf,             \* the idempotency key each create draws
          Attempts,          \* requests a create makes at most (3)
          PollAttempts,      \* looks at the status a command takes (900)
          MaxLosses          \* requests and answers that may be lost or time out

ASSUME CommandAssumption == Creates \cap Deletes = {} /\ KeyOf \in [Creates -> Devboxes]
ASSUME BoundAssumption   == Attempts \in Nat \ {0} /\ PollAttempts \in Nat /\ MaxLosses \in Nat
ASSUME HandlerAssumption == None \notin Handlers

VARIABLES cli,      \* where each command is
          printed,  \* the devbox ids that have been shown
          losses    \* losses so far

cliVars == <<cli, printed, losses>>
allVars == <<vars, cliVars>>

Commands == Creates \cup Deletes
AttemptsOf(c) == IF c \in Creates THEN Attempts ELSE 1

\* A command: its step, the devbox it is about, the handler that works on its request, the
\* request's number, what the handler answers, the status last heard, the looks left, and
\* what it has told its user.
Command(pc, d) == [pc |-> pc, devbox |-> d, handler |-> None, attempt |-> 1,
                   answer |-> "none", heard |-> "ABSENT", polls |-> 0, told |-> "none"]

CliInit == Init /\ cli = [c \in Commands |-> Command("idle", None)] /\ printed = {} /\ losses = 0

CliAt(c, pc) == cli[c].pc = pc
CliBecomes(c, command) == cli' = [cli EXCEPT ![c] = command]
Tells(c, told) == [cli[c] EXCEPT !.pc = "ended", !.told = told]

Loss == losses < MaxLosses /\ losses' = losses + 1

\* Mutant: a key is drawn for every attempt.
KeyPerAttempt(c) ==
  IF cli[c].attempt = 1 THEN KeyOf[c] ELSE CHOOSE d \in Devboxes : rows[d].status = "ABSENT"

Key(c) == KeyOf[c]

BeginCreate(c) ==
  /\ CliAt(c, "idle")
  /\ CliBecomes(c, Command("send", None))
  /\ UNCHANGED <<vars, printed, losses>>

BeginDelete(c, d) ==
  /\ CliAt(c, "idle") /\ d \in printed
  /\ CliBecomes(c, Command("send", d))
  /\ UNCHANGED <<vars, printed, losses>>

(***************************************************************************)
(* A request and its answer.                                                *)
(***************************************************************************)
\* The request of c for devbox d has reached handler h, which may be through with it at once.
Sent(c, d, h) ==
  LET sent == [cli[c] EXCEPT !.devbox = d, !.answer = "none"] IN
  CliBecomes(c, IF handlers'[h] = Idle
                THEN [sent EXCEPT !.pc = "answered", !.answer = rows'[d].status]
                ELSE [sent EXCEPT !.pc = "waiting", !.handler = h])

SendCreate(c, h) ==
  /\ CliAt(c, "send")
  /\ CreateDevbox(h, Key(c))
  /\ Sent(c, Key(c), h)
  /\ UNCHANGED <<printed, losses>>

SendDelete(c, h) ==
  /\ CliAt(c, "send")
  /\ DeleteDevbox(h, cli[c].devbox)
  /\ Sent(c, cli[c].devbox, h)
  /\ UNCHANGED <<printed, losses>>

\* Mutant: one attempt too few.
RetryOrGiveUpEarly(c) ==
  IF cli[c].attempt + 1 < AttemptsOf(c)
  THEN [cli[c] EXCEPT !.pc = "send", !.handler = None, !.attempt = @ + 1]
  ELSE [Tells(c, "error") EXCEPT !.handler = None]

RetryOrGiveUp(c) ==
  IF cli[c].attempt < AttemptsOf(c)
  THEN [cli[c] EXCEPT !.pc = "send", !.handler = None, !.attempt = @ + 1]
  ELSE [Tells(c, "error") EXCEPT !.handler = None]

\* The transport fails on the way there, by its timeout of 30 seconds, or before the headers
\* of the answer.  The handler, if there is one, goes on.
RequestLost(c) ==
  /\ cli[c].pc \in {"send", "waiting", "answered"}
  /\ Loss
  /\ CliBecomes(c, RetryOrGiveUp(c))
  /\ UNCHANGED <<vars, printed>>

\* The body of an answer breaks off.  It is read outside the try: no attempt follows.
BodyLost(c) ==
  /\ CliAt(c, "answered")
  /\ Loss
  /\ CliBecomes(c, Tells(c, "internal_error"))
  /\ UNCHANGED <<vars, printed>>

\* Nobody listens on the server's port.
Refused(c) ==
  /\ CliAt(c, "send") /\ phase # "serving"
  /\ CliBecomes(c, RetryOrGiveUp(c))
  /\ UNCHANGED <<vars, printed, losses>>

\* The command that waits for handler h, if any still does, learns what h has come to.
Awaits(c, h) == CliAt(c, "waiting") /\ cli[c].handler = h

Answered(h, error) ==
  cli' = [c \in Commands |->
            IF ~Awaits(c, h) THEN cli[c]
            ELSE LET answer == IF error \/ cli[c].answer = "error" THEN "error"
                               ELSE rows'[cli[c].devbox].status
                 IN IF handlers'[h] = Idle
                    THEN [cli[c] EXCEPT !.pc = "answered", !.handler = None, !.answer = answer]
                    ELSE [cli[c] EXCEPT !.answer = IF error THEN "error" ELSE @]]

\* The service throws: 503 for a launch, 500 for a terminate.
HandlerThrows(h) ==
  /\ LaunchRefused(h) \/ LaunchAnswerLost(h) \/ TerminateFailed(h)
  /\ Answered(h, TRUE)
  /\ UNCHANGED <<printed, losses>>

HandlerWorks(h) ==
  /\ \/ LaunchDevbox(h) \/ ReadAfterFailedLaunch(h) \/ ApplyTransition(h)
     \/ SaveLaunch(h) \/ TerminateDevbox(h) \/ InstanceNotShown(h) \/ MarkDeleted(h)
  /\ Answered(h, FALSE)
  /\ UNCHANGED <<printed, losses>>

\* 202 and 200 answers carry the devbox; a create prints its id.  5xx answers are retried.
Receive(c) ==
  /\ CliAt(c, "answered")
  /\ IF cli[c].answer = "error"
     THEN CliBecomes(c, RetryOrGiveUp(c)) /\ UNCHANGED printed
     ELSE /\ CliBecomes(c, [cli[c] EXCEPT !.pc = "look", !.heard = cli[c].answer, !.polls = PollAttempts])
          /\ printed' = IF c \in Creates THEN printed \cup {cli[c].devbox} ELSE printed
  /\ UNCHANGED <<vars, losses>>

(***************************************************************************)
(* pollDevbox: a look at the status, two seconds, the next status.          *)
(***************************************************************************)
Verdict(c) ==
  IF c \in Creates
  THEN CASE cli[c].heard = "READY" -> "ready"
         [] cli[c].heard \in {"FAILED", "DELETED"} -> "bootstrap_failed"
         [] OTHER -> "none"
  ELSE IF cli[c].heard = "DELETED" THEN "deleted" ELSE "none"

Look(c) ==
  /\ CliAt(c, "look") /\ cli[c].polls > 0
  /\ CliBecomes(c, IF Verdict(c) # "none" THEN Tells(c, Verdict(c))
                   ELSE [cli[c] EXCEPT !.pc = "fetch"])
  /\ UNCHANGED <<vars, printed, losses>>

\* Mutant: the looks are not counted.
FetchUncounted(c) ==
  /\ CliAt(c, "fetch") /\ phase = "serving"
  /\ CliBecomes(c, [cli[c] EXCEPT !.pc = "look", !.heard = rows[cli[c].devbox].status])
  /\ UNCHANGED <<vars, printed, losses>>

\* Two seconds later, GET /devboxes/:id.
Fetch(c) ==
  /\ CliAt(c, "fetch") /\ phase = "serving"
  /\ CliBecomes(c, [cli[c] EXCEPT !.pc = "look", !.heard = rows[cli[c].devbox].status, !.polls = @ - 1])
  /\ UNCHANGED <<vars, printed, losses>>

\* A GET is not repeated: its failure ends the command.
FetchFails(c) ==
  /\ CliAt(c, "fetch")
  /\ \/ phase # "serving" /\ UNCHANGED losses
     \/ Loss
  /\ CliBecomes(c, Tells(c, "error"))
  /\ UNCHANGED <<vars, printed>>

\* POLL_TIMEOUT, without a look at what the last GET brought.
PollTimeout(c) ==
  /\ CliAt(c, "look") /\ cli[c].polls = 0
  /\ CliBecomes(c, Tells(c, "timeout"))
  /\ UNCHANGED <<vars, printed, losses>>

(***************************************************************************)
(* The rest of the backend, which the commands only see through the rows.   *)
(***************************************************************************)
ServerRestarts == StartUp /\ UNCHANGED cliVars

\* A crash resets the connections of the requests in progress.
ServerCrashes ==
  /\ Crash
  /\ cli' = [c \in Commands |-> IF CliAt(c, "waiting") THEN RetryOrGiveUp(c) ELSE cli[c]]
  /\ UNCHANGED <<printed, losses>>

BackendGoesOn ==
  /\ \/ \E h \in Handlers, m \in inflight : UpdateDevboxStatus(h, m)
     \/ \E m \in inflight : CallbackLost(m)
     \/ \E t \in Tokens : Bootstrap(t)
     \/ \E d \in Devboxes : DeadlinePasses(d)
  /\ UNCHANGED cliVars

HandlerGoesOn(h) == HandlerThrows(h) \/ HandlerWorks(h)

CreateStep(c) == \E h \in Handlers : SendCreate(c, h)
DeleteStep(c) == \E h \in Handlers : SendDelete(c, h)
CommandStep(c) ==
  \/ c \in Creates /\ CreateStep(c)
  \/ c \in Deletes /\ DeleteStep(c)
  \/ Refused(c) \/ Receive(c) \/ Look(c) \/ Fetch(c) \/ FetchFails(c) \/ PollTimeout(c)

CliNext ==
  \/ ServerRestarts \/ ServerCrashes \/ BackendGoesOn
  \/ \E h \in Handlers : HandlerGoesOn(h)
  \/ \E c \in Creates : BeginCreate(c)
  \/ \E c \in Deletes, d \in Devboxes : BeginDelete(c, d)
  \/ \E c \in Commands : CommandStep(c) \/ RequestLost(c) \/ BodyLost(c)

CliSpec == CliInit /\ [][CliNext]_allVars

\* The backend's own fairness, and a CLI process that runs: it sends, waits no longer than
\* its timeout and polls again.
CliFairness ==
  /\ WF_allVars(ServerRestarts)
  /\ \A h \in Handlers : WF_allVars(HandlerGoesOn(h))
  /\ \A c \in Commands : WF_allVars(CommandStep(c))

CliFairSpec == CliSpec /\ CliFairness
=============================================================================
