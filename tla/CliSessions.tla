---------------------------- MODULE CliSessions ----------------------------
(***************************************************************************)
(* The CLI's commands that go over SSH, against the backend: `session start` *)
(* creates a session, prints its id and starts the agent; `session connect`  *)
(* inspects and attaches; `devbox ssh` opens a shell.  Each works with a     *)
(* temporary key in a directory of its own, which signals must not leave     *)
(* behind.                                                                   *)
(*                                                                           *)
(* The server's side is Sessions, step for step.  An agent now starts where  *)
(* an SSH command starts it, and may be lost with its devbox.                *)
(***************************************************************************)
EXTENDS Sessions

CONSTANTS Starts, Visits,  \* the commands: `session start`; `session connect` or `devbox ssh`
          KeyOf,           \* the idempotency key each start draws
          Attempts,        \* requests a start makes at most (3)
          MaxLosses        \* requests, answers and connections that may be lost

Commands == Starts \cup Visits

ASSUME CommandAssumption == Starts \cap Visits = {} /\ KeyOf \in [Starts -> SessionKeys]
ASSUME BoundAssumption   == Attempts \in Nat \ {0} /\ MaxLosses \in Nat
ASSUME HandlerAssumption == None \notin Handlers

VARIABLES cli,      \* where each command is
          printed,  \* the session ids that have been shown
          lost,     \* the agents that are gone without an outcome
          losses    \* losses so far

cliVars == <<cli, printed, losses>>
allVars == <<vars, cliVars, lost>>

\* A command: its step, its session and devbox, the handler that works on its request, the
\* request's number, what lies in its temporary directory, whether its signal handlers are
\* registered, whether its order to start the agent is on its way, and what it told its user.
Command(pc, s, d) == [pc |-> pc, session |-> s, devbox |-> d, handler |-> None, attempt |-> 1,
                      directory |-> "none", handled |-> FALSE, ordered |-> FALSE, told |-> "none"]

CliInit ==
  /\ Init
  /\ cli = [c \in Commands |-> Command("idle", None, None)]
  /\ printed = {} /\ lost = {} /\ losses = 0

CliAt(c, pc) == cli[c].pc = pc
CliBecomes(c, command) == cli' = [cli EXCEPT ![c] = command]
To(c, pc) == [cli[c] EXCEPT !.pc = pc]
Tells(c, told) == [cli[c] EXCEPT !.pc = "ended", !.told = told]
Loss == losses < MaxLosses /\ losses' = losses + 1

\* A step of the command alone.
Alone(c, command) == CliBecomes(c, command) /\ UNCHANGED <<vars, printed, lost, losses>>

(***************************************************************************)
(* POST /sessions, at most three times and with one key, until an answer    *)
(* says what has become of it; then the id is printed.                       *)
(***************************************************************************)
BeginStart(c, d) == CliAt(c, "idle") /\ Alone(c, Command("send", KeyOf[c], d))

Key(c) == KeyOf[c]

\* The request has reached handler h, which answers at once when it knows the key.
SendCreate(c, h) ==
  /\ CliAt(c, "send")
  /\ CreateSession(h, Key(c), cli[c].devbox)
  /\ CliBecomes(c, IF handlers'[h] = Idle THEN [cli[c] EXCEPT !.pc = "created", !.session = Key(c)]
                   ELSE [cli[c] EXCEPT !.pc = "waiting", !.session = Key(c), !.handler = h])
  /\ UNCHANGED <<printed, lost, losses>>

RetryOrGiveUp(c) ==
  IF cli[c].attempt < Attempts
  THEN [cli[c] EXCEPT !.pc = "send", !.handler = None, !.attempt = @ + 1]
  ELSE [cli[c] EXCEPT !.pc = "ended", !.told = "error", !.handler = None]

\* The transport fails on the way there, by its timeout, or on the way back.
RequestLost(c) ==
  /\ cli[c].pc \in {"send", "waiting", "created"}
  /\ Loss
  /\ CliBecomes(c, RetryOrGiveUp(c))
  /\ UNCHANGED <<vars, printed, lost>>

Refused(c) == CliAt(c, "send") /\ ~serving /\ Alone(c, RetryOrGiveUp(c))

\* The start that waits for handler h, if there is one, has its answer when h is through.
Answered(h, pc, told) ==
  cli' = [c \in Commands |-> IF CliAt(c, "waiting") /\ cli[c].handler = h /\ handlers'[h] = Idle
                             THEN [cli[c] EXCEPT !.pc = pc, !.told = told, !.handler = None]
                             ELSE cli[c]]

\* 409 when the devbox is not READY, or else the session.
Creates(h) ==
  /\ \/ LockDevbox(h) /\ Answered(h, "ended", "error")
     \/ InsertSession(h) /\ Answered(h, "created", "none")
  /\ UNCHANGED <<printed, lost, losses>>

\* Mutant: the id is printed when the session has been started.
PrintLater(c) == CliAt(c, "created") /\ Alone(c, To(c, "mkdir"))

\* The id comes first: whatever happens to the command now, its user can connect.
PrintSession(c) ==
  /\ CliAt(c, "created")
  /\ CliBecomes(c, To(c, "mkdir"))
  /\ printed' = printed \cup {cli[c].session}
  /\ UNCHANGED <<vars, lost, losses>>

(***************************************************************************)
(* GET /sessions/:id.  A terminal status needs no SSH.                       *)
(***************************************************************************)
BeginConnect(c, s) ==
  /\ CliAt(c, "idle") /\ s \in printed
  /\ Alone(c, Command("get", s, sessions[s].devbox))

GetSession(c) ==
  /\ CliAt(c, "get") /\ serving
  /\ LET status == sessions[cli[c].session].status IN
     Alone(c, IF status \in Outcome THEN Tells(c, status) ELSE To(c, "mkdir"))

BeginShell(c, d) == CliAt(c, "idle") /\ Alone(c, Command("mkdir", None, d))

(***************************************************************************)
(* withTemporarySshIdentity: mkdtemp, the signal handlers, ssh-keygen, the  *)
(* operation; in the end the handlers go and then the directory.            *)
(***************************************************************************)
\* Mutant: the handlers are registered after ssh-keygen, that is, never in a run that dies in it.
MakeDirectoryUnhandled(c) ==
  CliAt(c, "mkdir") /\ Alone(c, [cli[c] EXCEPT !.pc = "keygen", !.directory = "empty"])

MakeDirectory(c) ==
  CliAt(c, "mkdir") /\ Alone(c, [cli[c] EXCEPT !.pc = "handle", !.directory = "empty"])

AddHandlers(c) == CliAt(c, "handle") /\ Alone(c, [cli[c] EXCEPT !.pc = "keygen", !.handled = TRUE])

\* ssh-keygen works on its own, and may fail before or after it has written the key.
WriteKey(c) ==
  /\ CliAt(c, "keygen") /\ cli[c].directory = "empty"
  /\ Alone(c, [cli[c] EXCEPT !.directory = "key"])

\* An error, or an outcome to tell, leaves the operation for the finally block.
Leaves(c, told) == [cli[c] EXCEPT !.pc = "finally", !.told = told]

KeygenEnds(c) ==
  /\ CliAt(c, "keygen")
  /\ \/ cli[c].directory = "key" /\ Alone(c, To(c, "authorize"))
     \/ Alone(c, Leaves(c, "error"))

RemoveHandlers(c) == CliAt(c, "finally") /\ Alone(c, [cli[c] EXCEPT !.pc = "remove", !.handled = FALSE])

RemoveDirectory(c) == CliAt(c, "remove") /\ Alone(c, [cli[c] EXCEPT !.pc = "ended", !.directory = "none"])

\* SIGHUP, SIGINT or SIGTERM: a registered handler removes the directory before it lets the
\* signal have its way.
Signal(c) ==
  /\ cli[c].pc \notin {"idle", "ended", "signalled", "cut_short", "killed"}
  /\ Alone(c, IF cli[c].handled THEN [cli[c] EXCEPT !.pc = "signalled", !.directory = "none"]
              ELSE To(c, IF CliAt(c, "remove") THEN "cut_short" ELSE "signalled"))

\* SIGKILL, or the machine goes down.
Killed(c) ==
  /\ cli[c].pc \notin {"idle", "ended", "signalled", "cut_short", "killed"}
  /\ Alone(c, To(c, "killed"))

(***************************************************************************)
(* The operations: the key is authorized anew before each connection.       *)
(***************************************************************************)
Operation(c) == IF c \in Starts THEN "start" ELSE IF cli[c].session = None THEN "shell" ELSE "inspect"

Authorize(c) ==
  /\ cli[c].pc \in {"authorize", "reauthorize"}
  /\ serving
  /\ LET next == IF CliAt(c, "authorize") THEN Operation(c) ELSE "attach" IN
     Alone(c, IF devboxes[cli[c].devbox] = "READY" THEN [cli[c] EXCEPT !.pc = next, !.ordered = next = "start"]
              ELSE Leaves(c, "error"))

\* `session start` on the devbox, which its command may have given up on or not outlived: the
\* supervisor starts the agent, or cannot.
RemoteStart(c) ==
  /\ cli[c].ordered
  /\ devboxes[cli[c].devbox] # "DELETED"
  /\ agents[cli[c].session] = "none"
  /\ AgentStarts(cli[c].session) \/ AgentEnds(cli[c].session, "FAILED")
  /\ CliBecomes(c, [cli[c] EXCEPT !.ordered = FALSE])
  /\ UNCHANGED <<printed, lost, losses>>

\* The status that `session inspect` finds on the devbox.
Inspected(s) ==
  CASE agents[s] = "none"                    -> "MISSING"
    [] agents[s] \in Outcome                 -> agents[s]
    [] agents[s] = "RUNNING" /\ s \in lost   -> "UNRECOVERABLE"
    [] OTHER                                 -> "RUNNING"

\* What start and connect make of it: tell an outcome, attach to what runs, or give up.
Reply(c) ==
  /\ \/ CliAt(c, "start") /\ ~cli[c].ordered
     \/ CliAt(c, "inspect")
  /\ devboxes[cli[c].devbox] # "DELETED"
  /\ LET status == Inspected(cli[c].session) IN
     Alone(c, CASE status \in Outcome   -> Leaves(c, status)
                [] status = "RUNNING"   -> To(c, "reauthorize")
                [] OTHER                -> Leaves(c, "not_recoverable"))

\* The user detaches or the agent ends; a shell is left.
SshEnds(c) ==
  \/ CliAt(c, "attach") /\ Inspected(cli[c].session) # "MISSING" /\ Alone(c, To(c, "result"))
  \/ CliAt(c, "shell") /\ Alone(c, Leaves(c, "done"))

\* Mutant: a start whose connection broke is told as a failed session.
SshFailsTellsFailed(c) ==
  /\ cli[c].pc \in {"start", "inspect", "attach", "shell"}
  /\ \/ Loss
     \/ UNCHANGED losses /\ \/ devboxes[cli[c].devbox] # "READY"
                            \/ CliAt(c, "attach") /\ Inspected(cli[c].session) # "RUNNING"
  /\ CliBecomes(c, Leaves(c, IF CliAt(c, "start") THEN "FAILED" ELSE "error"))
  /\ UNCHANGED <<vars, printed, lost>>

\* A connection breaks, the devbox is going, or the session to attach to is over.
SshFails(c) ==
  /\ cli[c].pc \in {"start", "inspect", "attach", "shell"}
  /\ \/ Loss
     \/ UNCHANGED losses /\ \/ devboxes[cli[c].devbox] # "READY"
                            \/ CliAt(c, "attach") /\ Inspected(cli[c].session) # "RUNNING"
  /\ CliBecomes(c, Leaves(c, "error"))
  /\ UNCHANGED <<vars, printed, lost>>

\* printAttachmentResult: the backend's outcome, or that the command has detached.
PrintResult(c) ==
  /\ CliAt(c, "result") /\ serving
  /\ LET status == sessions[cli[c].session].status IN
     Alone(c, Leaves(c, IF status \in Outcome THEN status ELSE "detached"))

\* A request that is not repeated: its failure is an error, but for that of the last look.
CallFails(c) ==
  /\ cli[c].pc \in {"get", "authorize", "reauthorize", "result"}
  /\ \/ ~serving /\ UNCHANGED losses
     \/ Loss
  /\ CliBecomes(c, CASE CliAt(c, "get")    -> Tells(c, "error")
                     [] CliAt(c, "result") -> Leaves(c, "detached")
                     [] OTHER              -> Leaves(c, "error"))
  /\ UNCHANGED <<vars, printed, lost>>

(***************************************************************************)
(* The rest of the backend and of the devbox.                                *)
(***************************************************************************)
ServerCrashes ==
  /\ Crash
  /\ cli' = [c \in Commands |-> IF CliAt(c, "waiting") THEN RetryOrGiveUp(c) ELSE cli[c]]
  /\ UNCHANGED <<printed, lost, losses>>

\* An agent that is lost ends no more.
AgentGoesOn(s) ==
  /\ agents[s] = "RUNNING" /\ s \notin lost
  /\ \E outcome \in Outcome : AgentEnds(s, outcome)
  /\ UNCHANGED <<cliVars, lost>>

\* tmux and the supervisor die, with their devbox or without it.
AgentLost(s) ==
  /\ agents[s] = "RUNNING" /\ s \notin lost
  /\ lost' = lost \cup {s}
  /\ UNCHANGED <<vars, cliVars>>

BackendGoesOn ==
  /\ \/ Restart
     \/ \E h \in Handlers : TransitionSession(h) \/ MarkDevboxDeleted(h) \/ TerminateFailed(h)
     \/ \E h \in Handlers, d \in Devboxes : DeleteDevbox(h, d)
     \/ \E d \in Devboxes : Bootstrapped(d)
     \/ \E s \in SessionKeys : DeadlinePasses(s)
     \/ \E m \in inflight : Receive(m) \/ CallbackLost(m)
  /\ UNCHANGED <<cliVars, lost>>

CommandStep(c) ==
  \/ GetSession(c) \/ Authorize(c) \/ RemoteStart(c) \/ Reply(c) \/ SshEnds(c) \/ SshFails(c)
  \/ PrintResult(c) \/ CallFails(c) \/ Signal(c) \/ Killed(c)
  \/ MakeDirectory(c) \/ AddHandlers(c) \/ WriteKey(c) \/ KeygenEnds(c)
  \/ RemoveHandlers(c) \/ RemoveDirectory(c)

StartStep(c) ==
  \/ \E d \in Devboxes : BeginStart(c, d)
  \/ \E h \in Handlers : SendCreate(c, h)
  \/ RequestLost(c) \/ Refused(c) \/ PrintSession(c)

CliNext ==
  \/ ServerCrashes \/ BackendGoesOn
  \/ \E h \in Handlers : Creates(h)
  \/ \E s \in SessionKeys : AgentGoesOn(s) \/ AgentLost(s)
  \/ \E c \in Starts : StartStep(c)
  \/ \E c \in Visits, s \in SessionKeys : BeginConnect(c, s)
  \/ \E c \in Visits, d \in Devboxes : BeginShell(c, d)
  \/ \E c \in Commands : CommandStep(c)

CliSpec == CliInit /\ [][CliNext]_allVars
=============================================================================
