--------------------------- MODULE DevboxRuntime ---------------------------
(***************************************************************************)
(* One agent session on its devbox: the `session start` processes that     *)
(* compete for the session directory, the supervisor that tmux runs, the   *)
(* agent it spawns, and the `session inspect` processes that read the      *)
(* files of the others while they are being written.                       *)
(*                                                                          *)
(* A file is what its reader makes of it: "absent" when missing or empty.   *)
(* The state file is replaced by a rename, hence in one step.  Directories   *)
(* of different sessions share nothing, so one session is modelled.         *)
(***************************************************************************)
EXTENDS Naturals, Contracts

CONSTANTS Starters,     \* `session start` processes
          Inspectors,   \* `session inspect` processes, and the inspections of the others
          FaultKinds,   \* the faults of this environment
          MaxFaults     \* how many faults there may be

AllFaultKinds == {"start_refused", "start_answer_lost", "spawn_failed", "write_failed",
                  "pipe_broken", "callback_failed", "start_killed", "supervisor_killed"}

ASSUME RuntimeFaultAssumption == FaultKinds \subseteq AllFaultKinds /\ MaxFaults \in Nat

VARIABLES files,        \* the session directory
          tmux,         \* the tmux session of that name: "absent" or "present"
          supervisor,   \* what the supervisor does next, the result of its agent, and what
                        \* its start has learnt of it (kept for the properties only)
          agent,        \* the agent process
          transport,    \* the pipe of the prompt to the agent
          spawned,      \* agent processes spawned so far
          starters,     \* what each start does next
          inspectors,   \* what each inspection has read and, in the end, reports
          posted,       \* statuses the backend has received from here
          faults        \* faults so far

vars == <<files, tmux, supervisor, agent, transport, spawned, starters, inspectors, posted, faults>>

Outcome == {"SUCCEEDED", "FAILED"}
Presence == {"absent", "present"}
Exit == {"zero", "nonzero", "signal"}          \* how an agent can end

\* What an inspection reads, and how far it is.
Sources == {"dir", "tmux", "state", "pid", "exit"}
Unseen == [f \in Sources |-> "unseen"]

SupervisorAt(pc, answer) == [pc |-> pc, result |-> "none", answer |-> answer]

Init ==
  /\ files = [dir |-> "absent", token |-> "absent", prompt |-> "absent",
              state |-> "absent", pid |-> "absent", exit |-> "absent"]
  /\ tmux = "absent"
  /\ supervisor = SupervisorAt("none", "none")
  /\ agent = "none"
  /\ transport = "none"
  /\ spawned = 0
  /\ starters = [c \in Starters |-> "idle"]
  /\ inspectors = [i \in Inspectors |-> [seen |-> Unseen, began |-> "none", report |-> "none"]]
  /\ posted = {}
  /\ faults = 0

Fault(kind) ==
  /\ kind \in FaultKinds
  /\ faults < MaxFaults
  /\ faults' = faults + 1

Write(name, value) == files' = [files EXCEPT ![name] = value]
Remove(name) == Write(name, "absent")

At(c, pc) == starters[c] = pc
Goto(c, pc) == starters' = [starters EXCEPT ![c] = pc]
Does(pc) == supervisor.pc = pc
Supervisor(pc) == supervisor' = [supervisor EXCEPT !.pc = pc]

\* A callback: accepted, or failed for the poster, who cannot tell whether it arrived.
Accepted(status) == posted' = posted \cup {status} /\ UNCHANGED faults
Failed(status) == posted' \in {posted, posted \cup {status}} /\ Fault("callback_failed")

(***************************************************************************)
(* session start: the tmux session, then the directory as a lock, then its  *)
(* files, then tmux.  A start that does not fail inspects in the end: that   *)
(* is an inspection like any other, below.                                  *)
(***************************************************************************)
StartSession(c) ==
  /\ At(c, "idle")
  /\ Goto(c, IF tmux = "present" THEN "done" ELSE "mkdir")
  /\ UNCHANGED <<files, tmux, supervisor, agent, transport, spawned, inspectors, posted, faults>>

\* Mutant: a start that finds the directory takes over what an interrupted start left.
MakeDirectoryOrResume(c) ==
  /\ At(c, "mkdir")
  /\ Write("dir", "present")
  /\ Goto(c, IF files.dir = "present" THEN "launch" ELSE "token")
  /\ UNCHANGED <<tmux, supervisor, agent, transport, spawned, inspectors, posted, faults>>

MakeDirectory(c) ==
  /\ At(c, "mkdir")
  /\ Write("dir", "present")
  /\ Goto(c, IF files.dir = "present" THEN "done" ELSE "token")
  /\ UNCHANGED <<tmux, supervisor, agent, transport, spawned, inspectors, posted, faults>>

WriteFiles(c) ==
  /\ \/ At(c, "token")  /\ Write("token", "present")  /\ Goto(c, "prompt")
     \/ At(c, "prompt") /\ Write("prompt", "present") /\ Goto(c, "state")
     \/ At(c, "state")  /\ Write("state", "STARTING") /\ Goto(c, "launch")
  /\ UNCHANGED <<tmux, supervisor, agent, transport, spawned, inspectors, posted, faults>>

LaunchSupervisor(c) ==
  /\ At(c, "launch") /\ tmux = "absent"
  /\ tmux' = "present"
  /\ \/ Goto(c, "done") /\ supervisor' = SupervisorAt("check", "received") /\ UNCHANGED faults
     \/ /\ Goto(c, "fail_state") /\ supervisor' = SupervisorAt("check", "lost")
        /\ Fault("start_answer_lost")
  /\ UNCHANGED <<files, agent, transport, spawned, inspectors, posted>>

\* Mutant: the error ends the start, and nothing else happens.
LaunchRefusedOnly(c) ==
  /\ At(c, "launch")
  /\ IF tmux = "present" THEN UNCHANGED faults ELSE Fault("start_refused")
  /\ Goto(c, "done")
  /\ UNCHANGED <<files, tmux, supervisor, agent, transport, spawned, inspectors, posted>>

\* tmux refuses, also because a session of that name exists.
LaunchRefused(c) ==
  /\ At(c, "launch")
  /\ IF tmux = "present" THEN UNCHANGED faults ELSE Fault("start_refused")
  /\ Goto(c, "fail_state")
  /\ UNCHANGED <<files, tmux, supervisor, agent, transport, spawned, inspectors, posted>>

\* The catch block: record FAILED, drop the prompt, report, drop the token.
CleanUp(c) ==
  /\ \/ At(c, "fail_state")  /\ Write("state", "FAILED") /\ Goto(c, "fail_prompt")
     \/ At(c, "fail_prompt") /\ Remove("prompt")         /\ Goto(c, "fail_post")
     \/ At(c, "fail_token")  /\ Remove("token")          /\ Goto(c, "done")
  /\ UNCHANGED <<tmux, supervisor, agent, transport, spawned, inspectors, posted, faults>>

PostStartFailed(c) ==
  /\ At(c, "fail_post")
  /\ \/ Accepted("FAILED") /\ Goto(c, "fail_token")
     \/ Failed("FAILED") /\ Goto(c, "done")
  /\ UNCHANGED <<files, tmux, supervisor, agent, transport, spawned, inspectors>>

StartKilled(c) ==
  /\ starters[c] \notin {"idle", "done", "killed"}
  /\ Fault("start_killed")
  /\ Goto(c, "killed")
  /\ UNCHANGED <<files, tmux, supervisor, agent, transport, spawned, inspectors, posted>>

(***************************************************************************)
(* supervise: tmux runs it once per session it creates.                     *)
(***************************************************************************)
CheckSession ==
  /\ Does("check")
  /\ Supervisor(IF files.state = "STARTING" /\ files.pid = "absent" THEN "token" ELSE "exited")
  /\ UNCHANGED <<files, tmux, agent, transport, spawned, starters, inspectors, posted, faults>>

ReadToken ==
  /\ Does("token")
  /\ Supervisor(IF files.token = "present" THEN "spawn" ELSE "exited")
  /\ UNCHANGED <<files, tmux, agent, transport, spawned, starters, inspectors, posted, faults>>

SpawnAgent ==
  /\ Does("spawn")
  /\ agent' = "running" /\ transport' = "open" /\ spawned' = spawned + 1
  /\ Supervisor("pid")
  /\ UNCHANGED <<files, tmux, starters, inspectors, posted, faults>>

\* The error event rejects two promises, and nobody handles the second: Node ends the
\* supervisor before the first write of the catch block is done.
SpawnFails ==
  /\ Does("spawn")
  /\ Fault("spawn_failed")
  /\ Supervisor("crashed")
  /\ UNCHANGED <<files, tmux, agent, transport, spawned, starters, inspectors, posted>>

RecordStart ==
  /\ \/ Does("pid") /\ files.pid = "absent" /\ Write("pid", "present") /\ Supervisor("running")
     \/ Does("running") /\ Write("state", "RUNNING") /\ Supervisor("announce")
  /\ UNCHANGED <<tmux, agent, transport, spawned, starters, inspectors, posted, faults>>

\* When either file cannot be written, the agent is killed and the session becomes FAILED.
RecordStartFails ==
  /\ \/ Does("pid")
     \/ Does("running")
  /\ Fault("write_failed")
  /\ agent' \in IF agent = "running" THEN Exit ELSE {agent}
  /\ Supervisor("state")
  /\ UNCHANGED <<files, tmux, transport, spawned, starters, inspectors, posted>>

\* The poster of RUNNING goes on whether or not it succeeds.
AnnounceRunning ==
  /\ Does("announce")
  /\ Accepted("RUNNING") \/ Failed("RUNNING")
  /\ Supervisor("agent")
  /\ UNCHANGED <<files, tmux, agent, transport, spawned, starters, inspectors>>

PromptSent ==
  /\ Does("agent") /\ transport = "open"
  /\ files.prompt = "present" /\ agent = "running"
  /\ transport' = "sent"
  /\ UNCHANGED <<files, tmux, supervisor, agent, spawned, starters, inspectors, posted, faults>>

\* There is no prompt to read, or the agent closes its end before it has read a prompt larger
\* than the pipe's buffer.  The rejection has no handler while the agent is awaited.
PipeBreaks ==
  /\ Does("agent") /\ transport = "open"
  /\ IF files.prompt = "absent" THEN UNCHANGED faults ELSE Fault("pipe_broken")
  /\ transport' = "broken"
  /\ Supervisor("crashed")
  /\ UNCHANGED <<files, tmux, agent, spawned, starters, inspectors, posted>>

AgentEnds ==
  /\ agent = "running"
  /\ agent' \in Exit
  /\ UNCHANGED <<files, tmux, supervisor, transport, spawned, starters, inspectors, posted, faults>>

\* The end of the agent closes the pipe.  A clean exit without the whole prompt sent counts
\* as no result.
AgentResult == IF agent = "zero" /\ transport = "open" THEN "none" ELSE agent

\* Mutant: an exit code that is null is written, too.
AgentReturnsNullCode ==
  /\ Does("agent") /\ agent \in Exit
  /\ supervisor' = [supervisor EXCEPT !.pc = "exit", !.result = AgentResult]
  /\ UNCHANGED <<files, tmux, agent, transport, spawned, starters, inspectors, posted, faults>>

AgentReturns ==
  /\ Does("agent") /\ agent \in Exit
  /\ supervisor' = [supervisor EXCEPT !.pc = IF AgentResult \in {"zero", "nonzero"} THEN "exit" ELSE "state",
                                       !.result = AgentResult]
  /\ UNCHANGED <<files, tmux, agent, transport, spawned, starters, inspectors, posted, faults>>

\* finishSession: the exit code, the state, the prompt; the callback; the token.
Final == IF supervisor.result = "zero" THEN "SUCCEEDED" ELSE "FAILED"

\* Mutant: the outcome is reported before it is recorded.
FinishSessionAfterPost ==
  /\ \/ Does("exit")    /\ Write("exit", supervisor.result) /\ Supervisor("post")
     \/ Does("state")   /\ UNCHANGED files                  /\ Supervisor("post")
     \/ Does("release") /\ Write("state", Final)            /\ Supervisor("prompt")
     \/ Does("prompt")  /\ Remove("prompt")                 /\ Supervisor("exited")
  /\ UNCHANGED <<tmux, agent, transport, spawned, starters, inspectors, posted, faults>>

FinishSession ==
  /\ \/ Does("exit")    /\ Write("exit", supervisor.result) /\ Supervisor("state")
     \/ Does("state")   /\ Write("state", Final)            /\ Supervisor("prompt")
     \/ Does("prompt")  /\ Remove("prompt")                 /\ Supervisor("post")
     \/ Does("release") /\ Remove("token")                  /\ Supervisor("exited")
  /\ UNCHANGED <<tmux, agent, transport, spawned, starters, inspectors, posted, faults>>

PostOutcome ==
  /\ Does("post")
  /\ \/ Accepted(Final) /\ Supervisor("release")
     \/ Failed(Final)   /\ Supervisor("exited")
  /\ UNCHANGED <<files, tmux, agent, transport, spawned, starters, inspectors>>

Ended == {"exited", "killed", "crashed"}

\* The agent may live on.
SupervisorKilled ==
  /\ supervisor.pc \notin {"none"} \cup Ended
  /\ Fault("supervisor_killed")
  /\ Supervisor("killed")
  /\ UNCHANGED <<files, tmux, agent, transport, spawned, starters, inspectors, posted>>

TmuxEnds ==
  /\ tmux = "present" /\ supervisor.pc \in Ended
  /\ tmux' = "absent"
  /\ UNCHANGED <<files, supervisor, agent, transport, spawned, starters, inspectors, posted, faults>>

(***************************************************************************)
(* session inspect; start ends with one, attach is one before and one after  *)
(* attaching to tmux.  The directory and tmux in either order, then the     *)
(* three files in any order.                                                *)
(***************************************************************************)
\* Mutant: all five reads are started together.
ToReadTogether(seen) == {f \in Sources : seen[f] = "unseen"}

ToRead(seen) ==
  LET unseen == {f \in Sources : seen[f] = "unseen"}
      first  == unseen \cap {"dir", "tmux"}
  IN IF first # {} THEN first ELSE IF seen.dir = "absent" THEN {} ELSE unseen

View(f) == IF f = "tmux" THEN tmux ELSE files[f]

\* The outcome the files tell, if any: the exit code comes before the state.
Told(seen) ==
  IF seen.exit # "absent" THEN IF seen.exit = "zero" THEN "SUCCEEDED" ELSE "FAILED"
  ELSE IF seen.state \in Outcome THEN seen.state ELSE "none"

\* How far the session is when an inspection begins (kept for the properties only).
Progress ==
  IF Told(files) # "none" THEN Told(files)
  ELSE IF supervisor.pc = "none" THEN "none" ELSE "started"

Read(i) ==
  /\ inspectors[i].report = "none"
  /\ \E f \in ToRead(inspectors[i].seen) :
       inspectors' = [inspectors EXCEPT
                        ![i] = [seen   |-> [@.seen EXCEPT ![f] = View(f)],
                                began  |-> IF @.seen = Unseen THEN Progress ELSE @.began,
                                report |-> "none"]]
  /\ UNCHANGED <<files, tmux, supervisor, agent, transport, spawned, starters, posted, faults>>

\* The state file has a pid if and only if it says RUNNING (or an outcome).
PidIsLive(seen) ==
  (seen.state = "RUNNING" \/ seen.pid = "present") /\ agent = "running"

Unfinished(seen) ==
  IF seen.tmux = "present"
  THEN IF seen.state = "STARTING" /\ ~PidIsLive(seen) THEN "STARTING" ELSE "RUNNING"
  ELSE IF seen.state = "STARTING" /\ seen.pid = "absent" THEN "STARTING" ELSE "UNRECOVERABLE"

Undirected(seen) == IF seen.tmux = "present" THEN "RUNNING" ELSE "MISSING"

\* Mutant: a live tmux session outweighs what the files tell.
InspectionPrefersTmux(seen) ==
  IF seen.dir = "absent" THEN Undirected(seen)
  ELSE IF seen.tmux = "present" \/ Told(seen) = "none" THEN Unfinished(seen) ELSE Told(seen)

Inspection(seen) ==
  IF seen.dir = "absent" THEN Undirected(seen)
  ELSE IF Told(seen) = "none" THEN Unfinished(seen) ELSE Told(seen)

Report(i) ==
  /\ inspectors[i].report = "none" /\ ToRead(inspectors[i].seen) = {}
  /\ inspectors' = [inspectors EXCEPT ![i].report = Inspection(inspectors[i].seen)]
  /\ UNCHANGED <<files, tmux, supervisor, agent, transport, spawned, starters, posted, faults>>

StartStep(c) ==
  \/ MakeDirectory(c) \/ WriteFiles(c) \/ LaunchSupervisor(c) \/ LaunchRefused(c)
  \/ CleanUp(c) \/ PostStartFailed(c)

SupervisorStep ==
  \/ CheckSession \/ ReadToken \/ SpawnAgent \/ SpawnFails
  \/ RecordStart \/ RecordStartFails \/ AnnounceRunning
  \/ PromptSent \/ PipeBreaks \/ AgentReturns \/ FinishSession \/ PostOutcome

Next ==
  \/ \E c \in Starters : StartSession(c) \/ StartStep(c) \/ StartKilled(c)
  \/ \E i \in Inspectors : Read(i) \/ Report(i)
  \/ SupervisorStep \/ SupervisorKilled \/ TmuxEnds \/ AgentEnds

Spec == Init /\ [][Next]_vars

\* A process goes on unless it is killed: its file operations end and its callbacks time
\* out.  An agent may run for ever.
FairSpec == Spec /\ WF_vars(SupervisorStep) /\ \A c \in Starters : WF_vars(StartStep(c))
=============================================================================
