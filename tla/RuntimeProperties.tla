------------------------- MODULE RuntimeProperties -------------------------
(***************************************************************************)
(* What the devbox runtime promises about a session.                        *)
(***************************************************************************)
EXTENDS DevboxRuntime

StartPc == {"mkdir", "token", "prompt", "state", "launch",
            "fail_state", "fail_prompt", "fail_post", "fail_token"}
SupervisorPc == {"none", "check", "token", "spawn", "pid", "running", "announce", "agent",
                 "exit", "state", "prompt", "post", "release"} \cup Ended

States == {"absent"} \cup SessionStatus
Exits == {"absent", "zero", "nonzero"}
LocalStatus == SessionStatus \cup {"MISSING", "UNRECOVERABLE"}

\* The type invariant, with the fact that only a number is written as an exit code.
TypeOK ==
  /\ files \in [dir : Presence, token : Presence, prompt : Presence,
               state : States, pid : Presence, exit : Exits]
  /\ tmux \in Presence
  /\ supervisor \in [pc : SupervisorPc, result : {"none"} \cup Exit,
                    answer : {"none", "received", "lost"}]
  /\ supervisor.pc = "exit" => supervisor.result \in {"zero", "nonzero"}
  /\ agent \in {"none", "running"} \cup Exit
  /\ transport \in {"none", "open", "sent", "broken"}
  /\ spawned \in Nat
  /\ starters \in [Starters -> StartPc \cup {"idle", "done", "killed"}]
  /\ inspectors \in [Inspectors -> [seen : [Sources -> {"unseen", "present"} \cup States \cup Exits],
                                    began : {"none", "started"} \cup Outcome,
                                    report : {"none"} \cup LocalStatus]]
  /\ posted \subseteq SessionStatus
  /\ faults \in 0..MaxFaults

\* However many starts race, are killed half way or are repeated, and whatever becomes of
\* tmux and the supervisor, a session has one agent process at most.
AtMostOneAgent == spawned <= 1

\* The callback token is retained until an outcome has been accepted, whichever of the start
\* and the supervisor reports it, and although both may be doing so at once.
TokenOutlivesReport ==
  files.state # "absent" /\ files.token = "absent" => posted \cap Outcome # {}

\* The files never say more than the agent did: SUCCEEDED needs a clean exit and the whole
\* prompt, and an exit code is the agent's own.
FilesAreTrue ==
  /\ files.state = "SUCCEEDED" => agent = "zero" /\ transport = "sent"
  /\ files.exit # "absent" => files.exit = agent

\* To the backend the runtime is the abstract agent: what arrives is on disk already, in
\* the order of the contract, and stays there, whoever is killed in between.
AgentReported == INSTANCE AgentReports
  WITH agent <- IF files.state \in {"absent", "STARTING"} THEN "none" ELSE files.state,
       reports <- posted

ReportsRefined == AgentReported!Spec

\* What follows about inspections needs tmux to be believed: a start that is told that its
\* supervisor does not run, although it does, writes FAILED over what that one records.
TmuxBelieved == supervisor.answer # "lost"

\* Once the files tell an outcome, every inspection that begins tells the same, although
\* the exit code, the state and the end of tmux are three steps.
FinishedIsReported ==
  TmuxBelieved => \A i \in Inspectors :
    inspectors[i].report # "none" /\ inspectors[i].began \in Outcome
    => inspectors[i].report = inspectors[i].began

\* An outcome that an inspection has reported, half way through the writing of it or not, is
\* what the files tell from then on: no two inspections ever report different outcomes.
ReportsStand ==
  TmuxBelieved => \A i \in Inspectors :
    inspectors[i].report \in Outcome => Told(files) = inspectors[i].report

\* Nobody is at work on the session and nothing has been recorded about its end.
Lost ==
  /\ \A c \in Starters : starters[c] \notin {"token", "prompt", "state", "launch", "fail_state"}
  /\ supervisor.pc \in {"none"} \cup Ended
  /\ Told(files) = "none"

\* An inspection that begins once the supervisor has been started reports the session as
\* lost only if it is: the supervisor is gone, and no outcome is or will be on disk.
LostIsLost ==
  TmuxBelieved => \A i \in Inspectors :
    inspectors[i].report = "UNRECOVERABLE" /\ inspectors[i].began = "started" => Lost

\* What the CLI makes of that report, of every inspection: "The original agent process is
\* missing or cannot be recovered on this devbox."
UnrecoverableIsUnattachable ==
  [][\A i \in Inspectors :
       inspectors'[i].report = "UNRECOVERABLE" /\ inspectors[i].report = "none"
         => ~(tmux = "present" /\ agent = "running")]_vars

\* What the catch block of the supervisor says ("The agent process could not be started."): a
\* supervisor that ends by itself leaves an outcome on disk.
SupervisorLeavesOutcome ==
  supervisor.pc \in {"exited", "crashed"} => files.state \in Outcome

\* Whatever fails around it, a supervisor that returns (it is neither killed nor ended by Node)
\* leaves an outcome on disk, although a start may be failing the same session meanwhile.
ExitLeavesOutcome ==
  supervisor.pc = "exited" => files.state \in Outcome

\* An agent's end gets onto the disk and the prompt off it, unless the supervisor dies.
EndIsRecorded ==
  agent \in Exit ~> \/ files.state \in Outcome /\ files.prompt = "absent"
                    \/ supervisor.pc \in {"killed", "crashed"}

\* A session begun gets an agent or becomes FAILED, unless someone dies on the way.
StartSettles ==
  files.dir = "present" ~> \/ files.state \in {"RUNNING"} \cup Outcome
                           \/ supervisor.pc \in {"killed", "crashed"}
                           \/ \E c \in Starters : At(c, "killed")
=============================================================================
