--------------------------- MODULE RuntimeProofs ---------------------------
(***************************************************************************)
(* Theorems about DevboxRuntime, for any number of starts, inspections and  *)
(* faults.                                                                  *)
(***************************************************************************)
EXTENDS RuntimeProperties, TLAPS

Owner == {"token", "prompt", "state", "launch"}
Failing == {"fail_state", "fail_prompt", "fail_post", "fail_token"}

\* Nothing has happened yet but for the work of the start that owns the directory.
Untouched ==
  /\ supervisor.pc = "none" /\ tmux = "absent" /\ agent = "none" /\ spawned = 0
  /\ files.pid = "absent" /\ files.exit = "absent" /\ posted = {}

\* One start has the directory, and before its launch nobody else is at work.
Locked ==
  /\ \A c, d \in Starters : starters[c] \in Owner \cup Failing /\ starters[d] \in Owner \cup Failing
                              => c = d
  /\ \A c \in Starters : starters[c] \in Owner \cup Failing => files.dir = "present"
  /\ \A c \in Starters : starters[c] \in Owner => Untouched
  /\ files.dir = "absent" => Untouched /\ files.state = "absent"

\* How far the files are when a start is at each of its steps.
Written ==
  \A c \in Starters :
    /\ starters[c] \in {"token", "prompt", "state"} => files.state = "absent"
    /\ starters[c] \in {"prompt", "state"} => files.token = "present"
    /\ starters[c] = "launch" => files.state = "STARTING"
    /\ starters[c] \in Failing => files.state # "absent"
    /\ starters[c] = "fail_token" => "FAILED" \in posted

\* The steps of the supervisor before it has spawned an agent, and once it has a result.
Fresh == {"none", "check", "token", "spawn"}
Finishing == {"exit", "state", "prompt", "post", "release"}

\* What the supervisor knows is so.
Supervised ==
  /\ supervisor.pc \in Fresh => spawned = 0 /\ agent = "none"
  /\ supervisor.pc = "none" => supervisor.answer = "none"
  /\ supervisor.pc # "none" => files.state # "absent"
  /\ supervisor.pc = "release" => posted \cap Outcome # {}
  /\ supervisor.pc \notin Finishing \cup Ended =>
       supervisor.result = "none" /\ files.exit = "absent" /\ files.state # "SUCCEEDED"
  /\ supervisor.result # "none" => agent = supervisor.result
  /\ supervisor.result = "zero" => transport = "sent"
  /\ supervisor.pc \in {"pid", "running", "announce", "agent"} =>
       transport \in {"open", "sent"} /\ spawned = 1
  /\ supervisor.pc \in {"state", "prompt", "post", "release"} /\ supervisor.result = "zero"
       => files.exit = "zero"
  /\ supervisor.pc \in {"post", "release"} => files.prompt = "absent"

\* Until it has an agent the supervisor finds STARTING or a start's FAILED, and its token
\* unless that start has given it away; once it has a result it leaves one behind.
Leaving ==
  /\ supervisor.pc \in Fresh => files.pid = "absent"
  /\ supervisor.pc \in {"check", "token"} => files.state \in {"STARTING", "FAILED"}
  /\ supervisor.pc \in {"check", "token"} /\ files.token = "absent" => files.state = "FAILED"
  /\ supervisor.pc \in {"prompt", "post", "release", "exited"} => files.state \in Outcome
  /\ \A c \in Starters :
       /\ starters[c] = "launch" => files.token = "present"
       /\ starters[c] \in {"fail_prompt", "fail_post", "fail_token"} /\ supervisor.pc \in {"check", "token"}
            => files.state = "FAILED"

RuntimeInv ==
  /\ Locked /\ Written /\ Supervised /\ Leaving
  /\ AtMostOneAgent /\ TokenOutlivesReport /\ FilesAreTrue

\* In an environment without lost answers tmux is always to be believed.
TmuxIsTrue == "start_answer_lost" \notin FaultKinds

\* The exit code on disk is the supervisor's result, and the outcome there, if any, follows from it.
ExitAgrees ==
  files.exit # "absent" =>
    /\ supervisor.pc \in {"state", "prompt", "post", "release"} \cup Ended
    /\ supervisor.result = files.exit
    /\ files.state \in Outcome => files.state = Final

\* The prompt is there until the agent has its pipe, if no start gives up on a session that runs.
PromptKept ==
  /\ \A c \in Starters : starters[c] \in {"state", "launch"} => files.prompt = "present"
  /\ supervisor.pc \in {"check", "token", "spawn", "pid", "running", "announce", "agent"}
       => files.prompt = "present"

\* What each step of start and supervisor finds in the state file, if tmux is to be believed: a
\* start that was refused has no supervisor.
Ordered ==
  /\ \A c \in Starters :
       /\ starters[c] \in Failing => supervisor.pc = "none"
       /\ starters[c] = "fail_state" => files.state = "STARTING"
       /\ starters[c] \in {"fail_prompt", "fail_post", "fail_token"} => files.state = "FAILED"
  /\ supervisor.pc \in {"check", "token", "spawn", "pid", "running"} => files.state = "STARTING"
  /\ supervisor.pc \in {"announce", "agent", "exit"} => files.state = "RUNNING"
  /\ supervisor.pc = "state" =>
       files.state \in (IF supervisor.result = "zero" THEN {"RUNNING"} ELSE {"STARTING", "RUNNING"})
  /\ supervisor.pc \in {"prompt", "post", "release"} => files.state = Final
  /\ tmux = "absent" => supervisor.pc \in {"none"} \cup Ended
  /\ ExitAgrees /\ PromptKept

\* What an inspection has seen, against what is there now.
Sighted(i) ==
  LET seen == inspectors[i].seen
      began == inspectors[i].began
  IN /\ seen.tmux \in {"unseen"} \cup Presence
     /\ seen.exit \in {"unseen"} \cup Exits
     /\ began # "none" => (seen.dir # "unseen" \/ seen.tmux # "unseen")
     /\ seen.state # "unseen" \/ seen.exit # "unseen" => seen.dir # "unseen" /\ seen.tmux # "unseen"
     /\ began # "none" => files.dir = "present" /\ seen.dir \in {"unseen", "present"}
     /\ seen.exit \in {"zero", "nonzero"} => seen.exit = files.exit
     /\ seen.state \in Outcome => Told(files) = seen.state
     /\ began # "started" \/
          /\ supervisor.pc # "none"
          /\ (seen.tmux = "absent" => /\ supervisor.pc \in Ended
                                      /\ seen.exit \in {"unseen", files.exit}
                                      /\ seen.state \in {"unseen", files.state})
     /\ began \notin Outcome \/
          /\ Told(files) = began
          /\ seen.exit \in {"unseen", files.exit}
          /\ (files.exit = "absent" => seen.state \in {"unseen", files.state})

InspectionInv ==
  /\ Ordered
  /\ \A i \in Inspectors : Sighted(i)
  /\ LostIsLost /\ FinishedIsReported /\ ReportsStand

\* Every step keeps the type invariant.
LEMMA TypeStep == TypeOK /\ [Next]_vars => TypeOK'
<1> SUFFICES ASSUME TypeOK, [Next]_vars PROVE TypeOK'
  OBVIOUS
<1> USE RuntimeFaultAssumption
    DEF TypeOK, StartPc, SupervisorPc, Ended, Presence, States, Exits, Exit, Outcome,
        SessionStatus, LocalStatus, Fault, Write, Remove, At, Goto, Does, Supervisor,
        SupervisorAt, Accepted, Failed
<1>1. ASSUME NEW c \in Starters, StartSession(c) PROVE TypeOK'
  BY <1>1 DEF StartSession
<1>2. ASSUME NEW c \in Starters, MakeDirectory(c) PROVE TypeOK'
  BY <1>2 DEF MakeDirectory
<1>3. ASSUME NEW c \in Starters, WriteFiles(c) PROVE TypeOK'
  BY <1>3 DEF WriteFiles
<1>4. ASSUME NEW c \in Starters, LaunchSupervisor(c) PROVE TypeOK'
  BY <1>4 DEF LaunchSupervisor
<1>5. ASSUME NEW c \in Starters, LaunchRefused(c) PROVE TypeOK'
  BY <1>5 DEF LaunchRefused
<1>6. ASSUME NEW c \in Starters, CleanUp(c) PROVE TypeOK'
  <2>1. /\ files' \in [dir : Presence, token : Presence, prompt : Presence,
                       state : States, pid : Presence, exit : Exits]
        /\ starters' \in [Starters -> StartPc \cup {"idle", "done", "killed"}]
    BY <1>6 DEF CleanUp
  <2>2. QED BY <1>6, <2>1 DEF CleanUp
<1>7. ASSUME NEW c \in Starters, PostStartFailed(c) PROVE TypeOK'
  <2>1. starters' \in [Starters -> StartPc \cup {"idle", "done", "killed"}]
    BY <1>7 DEF PostStartFailed
  <2>4. posted' \subseteq SessionStatus
    BY <1>7 DEF PostStartFailed
  <2>5. faults' \in 0..MaxFaults
    BY <1>7 DEF PostStartFailed
  <2>2. UNCHANGED <<files, tmux, supervisor, agent, transport, spawned, inspectors>>
    BY <1>7 DEF PostStartFailed
  <2>3. QED BY <2>1, <2>2, <2>4, <2>5
<1>8. ASSUME NEW c \in Starters, StartKilled(c) PROVE TypeOK'
  BY <1>8 DEF StartKilled
<1>9. CASE CheckSession
  BY <1>9 DEF CheckSession
<1>10. CASE ReadToken
  BY <1>10 DEF ReadToken
<1>11. CASE SpawnAgent
  BY <1>11 DEF SpawnAgent
<1>12. CASE SpawnFails
  BY <1>12 DEF SpawnFails
<1>13. CASE RecordStart
  BY <1>13 DEF RecordStart
<1>14. CASE RecordStartFails
  BY <1>14 DEF RecordStartFails
<1>15. CASE AnnounceRunning
  BY <1>15 DEF AnnounceRunning
<1>16. CASE PromptSent
  BY <1>16 DEF PromptSent
<1>17. CASE PipeBreaks
  BY <1>17 DEF PipeBreaks
<1>18. CASE AgentReturns
  <2>1. AgentResult \in {"none"} \cup Exit
    BY <1>18 DEF AgentReturns, AgentResult
  <2>2. supervisor'.result = AgentResult /\ supervisor'.pc \in {"exit", "state"}
    BY <1>18 DEF AgentReturns
  <2>3. supervisor'.pc = "exit" => supervisor'.result \in {"zero", "nonzero"}
    BY <1>18 DEF AgentReturns
  <2>4. supervisor' \in [pc : SupervisorPc, result : {"none"} \cup Exit,
                         answer : {"none", "received", "lost"}]
    BY <1>18, <2>1 DEF AgentReturns
  <2>5. QED BY <1>18, <2>3, <2>4 DEF AgentReturns
<1>19. CASE FinishSession
  BY <1>19 DEF FinishSession, Final
<1>20. CASE PostOutcome
  BY <1>20 DEF PostOutcome, Final
<1>21. CASE SupervisorKilled
  BY <1>21 DEF SupervisorKilled
<1>22. CASE TmuxEnds
  BY <1>22 DEF TmuxEnds
<1>23. CASE AgentEnds
  BY <1>23 DEF AgentEnds
<1>24. ASSUME NEW i \in Inspectors, Read(i) PROVE TypeOK'
  <2>1. PICK f \in ToRead(inspectors[i].seen) :
          inspectors' = [inspectors EXCEPT
                           ![i] = [seen   |-> [inspectors[i].seen EXCEPT ![f] = View(f)],
                                   began  |-> IF inspectors[i].seen = Unseen THEN Progress
                                              ELSE inspectors[i].began,
                                   report |-> "none"]]
    BY <1>24 DEF Read
  <2>2. f \in Sources
    BY DEF ToRead
  <2>3. View(f) \in {"present"} \cup States \cup Exits
    BY <2>2 DEF View, Sources
  <2>4. Progress \in {"none", "started"} \cup Outcome
    BY DEF Progress, Told
  <2>5. inspectors' \in [Inspectors -> [seen : [Sources -> {"unseen", "present"} \cup States \cup Exits],
                                        began : {"none", "started"} \cup Outcome,
                                        report : {"none"} \cup LocalStatus]]
    <3> DEFINE record == [seen  |-> [inspectors[i].seen EXCEPT ![f] = View(f)],
                          began |-> IF inspectors[i].seen = Unseen THEN Progress
                                    ELSE inspectors[i].began,
                          report |-> "none"]
    <3>1. record \in [seen : [Sources -> {"unseen", "present"} \cup States \cup Exits],
                      began : {"none", "started"} \cup Outcome,
                      report : {"none"} \cup LocalStatus]
      BY <2>2, <2>3, <2>4
    <3>2. inspectors' = [inspectors EXCEPT ![i] = record]
      BY <2>1
    <3>3. QED BY <3>1, <3>2
  <2>6. UNCHANGED <<files, tmux, supervisor, agent, transport, spawned, starters, posted, faults>>
    BY <1>24 DEF Read
  <2>7. QED BY <2>5, <2>6
<1>25. ASSUME NEW i \in Inspectors, Report(i) PROVE TypeOK'
  <2>1. Inspection(inspectors[i].seen) \in {"none"} \cup LocalStatus
    BY DEF Inspection, Undirected, Unfinished, Told
  <2>2. QED BY <1>25, <2>1 DEF Report
<1>26. CASE UNCHANGED vars
  BY <1>26 DEF vars
<1> QED
  BY <1>1, <1>2, <1>3, <1>4, <1>5, <1>6, <1>7, <1>8, <1>9, <1>10, <1>11, <1>12, <1>13,
     <1>14, <1>15, <1>16, <1>17, <1>18, <1>19, <1>20, <1>21, <1>22, <1>23, <1>24, <1>25,
     <1>26 DEF Next, StartStep, SupervisorStep
\* Every step keeps the invariant of starts and supervisor.
LEMMA RuntimeStep == TypeOK /\ RuntimeInv /\ [Next]_vars => RuntimeInv'
<1> SUFFICES ASSUME TypeOK, RuntimeInv, [Next]_vars PROVE RuntimeInv'
  OBVIOUS
<1> USE RuntimeFaultAssumption
    DEF TypeOK, StartPc, SupervisorPc, Ended, Presence, States, Exits, Exit, Outcome,
        SessionStatus, LocalStatus, Fault, Write, Remove, At, Goto, Does, Supervisor,
        SupervisorAt, Accepted, Failed,
        RuntimeInv, Locked, Written, Supervised, Leaving, Untouched, Owner, Failing, Fresh, Finishing,
        AtMostOneAgent, TokenOutlivesReport, FilesAreTrue
<1>1. ASSUME NEW c \in Starters, StartSession(c) PROVE RuntimeInv'
  BY <1>1 DEF StartSession
<1>2. ASSUME NEW c \in Starters, MakeDirectory(c) PROVE RuntimeInv'
  BY <1>2 DEF MakeDirectory
<1>3. ASSUME NEW c \in Starters, WriteFiles(c) PROVE RuntimeInv'
  BY <1>3 DEF WriteFiles
<1>4. ASSUME NEW c \in Starters, LaunchSupervisor(c) PROVE RuntimeInv'
  BY <1>4 DEF LaunchSupervisor
<1>5. ASSUME NEW c \in Starters, LaunchRefused(c) PROVE RuntimeInv'
  BY <1>5 DEF LaunchRefused
<1>6. ASSUME NEW c \in Starters, CleanUp(c) PROVE RuntimeInv'
  BY <1>6 DEF CleanUp
<1>7. ASSUME NEW c \in Starters, PostStartFailed(c) PROVE RuntimeInv'
  BY <1>7 DEF PostStartFailed
<1>8. ASSUME NEW c \in Starters, StartKilled(c) PROVE RuntimeInv'
  BY <1>8 DEF StartKilled
<1>9. CASE CheckSession
  BY <1>9 DEF CheckSession
<1>10. CASE ReadToken
  BY <1>10 DEF ReadToken
<1>11. CASE SpawnAgent
  BY <1>11 DEF SpawnAgent
<1>12. CASE SpawnFails
  BY <1>12 DEF SpawnFails
<1>13. CASE RecordStart
  BY <1>13 DEF RecordStart
<1>14. CASE RecordStartFails
  BY <1>14 DEF RecordStartFails
<1>15. CASE AnnounceRunning
  BY <1>15 DEF AnnounceRunning
<1>16. CASE PromptSent
  BY <1>16 DEF PromptSent
<1>17. CASE PipeBreaks
  BY <1>17 DEF PipeBreaks
<1>18. CASE AgentReturns
  BY <1>18 DEF AgentReturns, AgentResult
<1>19. CASE FinishSession
  BY <1>19 DEF FinishSession, Final
<1>20. CASE PostOutcome
  <2>1. Final \in Outcome
    BY DEF Final
  <2>2. CASE Accepted(Final) /\ Supervisor("release")
    BY <1>20, <2>1, <2>2 DEF PostOutcome
  <2>3. CASE Failed(Final) /\ Supervisor("exited")
    BY <1>20, <2>1, <2>3 DEF PostOutcome
  <2>4. QED BY <1>20, <2>2, <2>3 DEF PostOutcome
<1>21. CASE SupervisorKilled
  BY <1>21 DEF SupervisorKilled
<1>22. CASE TmuxEnds
  BY <1>22 DEF TmuxEnds
<1>23. CASE AgentEnds
  BY <1>23 DEF AgentEnds
<1>24. ASSUME NEW i \in Inspectors, Read(i) \/ Report(i) PROVE RuntimeInv'
  BY <1>24 DEF Read, Report
<1>25. CASE UNCHANGED vars
  BY <1>25 DEF vars
<1> QED
  BY <1>1, <1>2, <1>3, <1>4, <1>5, <1>6, <1>7, <1>8, <1>9, <1>10, <1>11, <1>12, <1>13,
     <1>14, <1>15, <1>16, <1>17, <1>18, <1>19, <1>20, <1>21, <1>22, <1>23, <1>24,
     <1>25 DEF Next, StartStep, SupervisorStep

\* An answer lost is lost for good.
LEMMA LostForGood ==
  ASSUME TypeOK, RuntimeInv, [Next]_vars
  PROVE  /\ TmuxBelieved' => TmuxBelieved
         /\ TmuxIsTrue /\ TmuxBelieved => TmuxBelieved'
<1> USE DEF TmuxBelieved, TmuxIsTrue, TypeOK, Supervisor, SupervisorAt, Does
<1>1. ASSUME NEW c \in Starters, LaunchSupervisor(c)
      PROVE  TmuxBelieved /\ (TmuxIsTrue => TmuxBelieved')
  BY <1>1 DEF LaunchSupervisor, RuntimeInv, Supervised, Locked, Untouched, Owner, At, Fault
<1>2. SupervisorStep => supervisor'.answer = supervisor.answer
  BY DEF SupervisorStep, CheckSession, ReadToken, SpawnAgent, SpawnFails, RecordStart, RecordStartFails,
         AnnounceRunning, PromptSent, PipeBreaks, AgentReturns, FinishSession, PostOutcome
<1>3. SupervisorKilled => supervisor'.answer = supervisor.answer
  BY DEF SupervisorKilled
<1>4. \/ SupervisorStep \/ SupervisorKilled \/ supervisor' = supervisor
      \/ \E c \in Starters : LaunchSupervisor(c)
  BY DEF Next, StartSession, StartStep, MakeDirectory, WriteFiles, LaunchRefused, CleanUp, PostStartFailed,
         StartKilled, Read, Report, TmuxEnds, AgentEnds, vars
<1>5. QED BY <1>1, <1>2, <1>3, <1>4

\* Every step keeps the order of the files and the processes, if tmux is to be believed.
LEMMA OrderedStep ==
  ASSUME TypeOK, RuntimeInv, Ordered, [Next]_vars, TmuxBelieved'
  PROVE  Ordered'
<1> USE RuntimeFaultAssumption
    DEF TmuxBelieved, TypeOK, StartPc, SupervisorPc, Ended, Presence, States, Exits, Exit, Outcome,
        SessionStatus, LocalStatus, Fault, Write, Remove, At, Goto, Does, Supervisor,
        SupervisorAt, Accepted, Failed,
        RuntimeInv, Locked, Written, Supervised, Leaving, Untouched, Owner, Failing, Fresh, Finishing,
        AtMostOneAgent, TokenOutlivesReport, FilesAreTrue, Ordered, ExitAgrees, PromptKept, Final
<1>1. ASSUME NEW c \in Starters, StartSession(c) PROVE Ordered'
  BY <1>1 DEF StartSession
<1>2. ASSUME NEW c \in Starters, MakeDirectory(c) PROVE Ordered'
  BY <1>2 DEF MakeDirectory
<1>3. ASSUME NEW c \in Starters, WriteFiles(c) PROVE Ordered'
  BY <1>3 DEF WriteFiles
<1>4. ASSUME NEW c \in Starters, LaunchSupervisor(c) PROVE Ordered'
  BY <1>4 DEF LaunchSupervisor
<1>5. ASSUME NEW c \in Starters, LaunchRefused(c) PROVE Ordered'
  BY <1>5 DEF LaunchRefused
<1>6. ASSUME NEW c \in Starters, CleanUp(c) PROVE Ordered'
  BY <1>6 DEF CleanUp
<1>7. ASSUME NEW c \in Starters, PostStartFailed(c) PROVE Ordered'
  BY <1>7 DEF PostStartFailed
<1>8. ASSUME NEW c \in Starters, StartKilled(c) PROVE Ordered'
  BY <1>8 DEF StartKilled
<1>9. CASE CheckSession
  BY <1>9 DEF CheckSession
<1>10. CASE ReadToken
  BY <1>10 DEF ReadToken
<1>11. CASE SpawnAgent
  BY <1>11 DEF SpawnAgent
<1>12. CASE SpawnFails
  BY <1>12 DEF SpawnFails
<1>13. CASE RecordStart
  BY <1>13 DEF RecordStart
<1>14. CASE RecordStartFails
  BY <1>14 DEF RecordStartFails
<1>15. CASE AnnounceRunning
  BY <1>15 DEF AnnounceRunning
<1>16. CASE PromptSent
  BY <1>16 DEF PromptSent
<1>17. CASE PipeBreaks
  BY <1>17 DEF PipeBreaks
<1>18. CASE AgentReturns
  BY <1>18 DEF AgentReturns, AgentResult
<1>19. CASE FinishSession
  BY <1>19 DEF FinishSession
<1>20. CASE PostOutcome
  BY <1>20 DEF PostOutcome
<1>21. CASE SupervisorKilled
  BY <1>21 DEF SupervisorKilled
<1>22. CASE TmuxEnds
  BY <1>22 DEF TmuxEnds
<1>23. CASE AgentEnds
  BY <1>23 DEF AgentEnds
<1>24. ASSUME NEW i \in Inspectors, Read(i) \/ Report(i) PROVE Ordered'
  BY <1>24 DEF Read, Report
<1>25. CASE UNCHANGED vars
  BY <1>25 DEF vars
<1> QED
  BY <1>1, <1>2, <1>3, <1>4, <1>5, <1>6, <1>7, <1>8, <1>9, <1>10, <1>11, <1>12, <1>13, <1>14,
     <1>15, <1>16, <1>17, <1>18, <1>19, <1>20, <1>21, <1>22, <1>23, <1>24, <1>25 DEF Next, StartStep, SupervisorStep

\* What an inspection that is half way can rely on, whatever the others do meanwhile.
Steady ==
  /\ inspectors' = inspectors
  /\ files.dir = "present" => files'.dir = "present"
  /\ supervisor.pc # "none" => supervisor'.pc # "none"
  /\ supervisor.pc \in Ended =>
       supervisor'.pc \in Ended /\ files'.exit = files.exit /\ files'.state = files.state
  /\ Told(files) # "none" =>
       /\ Told(files)' = Told(files)
       /\ files'.exit = files.exit
       /\ files.exit = "absent" => files'.state = files.state
  /\ Lost /\ files.dir = "present" => Lost'

\* Every step of the other processes is steady.
LEMMA OthersAreSteady ==
  ASSUME TypeOK, RuntimeInv, Ordered, [Next]_vars
  PROVE Steady \/ \E i \in Inspectors : Read(i) \/ Report(i)
<1> USE RuntimeFaultAssumption
    DEF TypeOK, StartPc, SupervisorPc, Ended, Presence, States, Exits, Exit, Outcome,
        SessionStatus, LocalStatus, Fault, Write, Remove, At, Goto, Does, Supervisor,
        SupervisorAt, Accepted, Failed,
        RuntimeInv, Locked, Written, Supervised, Leaving, Untouched, Owner, Failing, Fresh, Finishing,
        AtMostOneAgent, TokenOutlivesReport, FilesAreTrue, Ordered, ExitAgrees, PromptKept, Final, Steady, Lost, Told
<1>1. ASSUME NEW c \in Starters, StartSession(c) PROVE Steady
  BY <1>1 DEF StartSession
<1>2. ASSUME NEW c \in Starters, MakeDirectory(c) PROVE Steady
  BY <1>2 DEF MakeDirectory
<1>3. ASSUME NEW c \in Starters, WriteFiles(c) PROVE Steady
  BY <1>3 DEF WriteFiles
<1>4. ASSUME NEW c \in Starters, LaunchSupervisor(c) PROVE Steady
  BY <1>4 DEF LaunchSupervisor
<1>5. ASSUME NEW c \in Starters, LaunchRefused(c) PROVE Steady
  BY <1>5 DEF LaunchRefused
<1>6. ASSUME NEW c \in Starters, CleanUp(c) PROVE Steady
  BY <1>6 DEF CleanUp
<1>7. ASSUME NEW c \in Starters, PostStartFailed(c) PROVE Steady
  BY <1>7 DEF PostStartFailed
<1>8. ASSUME NEW c \in Starters, StartKilled(c) PROVE Steady
  BY <1>8 DEF StartKilled
<1>9. CASE CheckSession
  BY <1>9 DEF CheckSession
<1>10. CASE ReadToken
  BY <1>10 DEF ReadToken
<1>11. CASE SpawnAgent
  BY <1>11 DEF SpawnAgent
<1>12. CASE SpawnFails
  BY <1>12 DEF SpawnFails
<1>13. CASE RecordStart
  BY <1>13 DEF RecordStart
<1>14. CASE RecordStartFails
  BY <1>14 DEF RecordStartFails
<1>15. CASE AnnounceRunning
  BY <1>15 DEF AnnounceRunning
<1>16. CASE PromptSent
  BY <1>16 DEF PromptSent
<1>17. CASE PipeBreaks
  BY <1>17 DEF PipeBreaks
<1>18. CASE AgentReturns
  BY <1>18 DEF AgentReturns, AgentResult
<1>19. CASE FinishSession
  BY <1>19 DEF FinishSession
<1>20. CASE PostOutcome
  BY <1>20 DEF PostOutcome
<1>21. CASE SupervisorKilled
  BY <1>21 DEF SupervisorKilled
<1>22. CASE TmuxEnds
  BY <1>22 DEF TmuxEnds
<1>23. CASE AgentEnds
  BY <1>23 DEF AgentEnds
<1>24. CASE UNCHANGED vars
  BY <1>24 DEF vars
<1> QED
  BY <1>1, <1>2, <1>3, <1>4, <1>5, <1>6, <1>7, <1>8, <1>9, <1>10, <1>11, <1>12, <1>13, <1>14,
     <1>15, <1>16, <1>17, <1>18, <1>19, <1>20, <1>21, <1>22, <1>23, <1>24 DEF Next, StartStep, SupervisorStep

\* Files that hold both an exit code and an outcome tell the same by either.
LEMMA OutcomeIsTold ==
  ASSUME TypeOK, ExitAgrees, files.state \in Outcome
  PROVE  Told(files) = files.state
BY DEF TypeOK, Exits, ExitAgrees, Final, Told, Outcome

\* Every step keeps what inspections have seen true enough, and their reports.
LEMMA InspectionStep ==
  ASSUME TypeOK, RuntimeInv, InspectionInv, [Next]_vars, TmuxBelieved'
  PROVE  InspectionInv'
<1>0. TmuxBelieved
  BY LostForGood
<1>1. Ordered'
  BY OrderedStep DEF InspectionInv
<1>2. ASSUME Steady PROVE InspectionInv'
  <2>1. ASSUME NEW i \in Inspectors PROVE Sighted(i)'
    <3>1. Sighted(i) /\ inspectors' = inspectors
      BY <1>2 DEF InspectionInv, Steady
    <3>2. /\ files.exit \in {"zero", "nonzero"} => Told(files) # "none"
          /\ "none" \notin Outcome
      BY DEF Told, Outcome
    <3>3. QED BY <1>2, <3>1, <3>2 DEF Sighted, Steady
  <2>2. LostIsLost'
    <3> SUFFICES ASSUME NEW i \in Inspectors,
                        inspectors[i].report = "UNRECOVERABLE", inspectors[i].began = "started"
                 PROVE Lost'
      BY <1>2 DEF LostIsLost, Steady
    <3>1. Lost /\ files.dir = "present"
      BY <1>0 DEF InspectionInv, LostIsLost, Sighted
    <3>2. QED BY <1>2, <3>1 DEF Steady
  <2>3. FinishedIsReported'
    BY <1>0, <1>2 DEF InspectionInv, FinishedIsReported, Steady
  <2>4. ReportsStand'
    BY <1>0, <1>2 DEF InspectionInv, ReportsStand, Steady, Outcome
  <2>5. QED BY <1>1, <2>1, <2>2, <2>3, <2>4 DEF InspectionInv
<1>3. ASSUME NEW i \in Inspectors, Read(i) PROVE InspectionInv'
  <2>1. PICK f \in ToRead(inspectors[i].seen) :
          inspectors' = [inspectors EXCEPT
                           ![i] = [seen   |-> [inspectors[i].seen EXCEPT ![f] = View(f)],
                                   began  |-> IF inspectors[i].seen = Unseen THEN Progress
                                              ELSE inspectors[i].began,
                                   report |-> "none"]]
    BY <1>3 DEF Read
  <2>2. UNCHANGED <<files, tmux, supervisor, agent, transport, spawned, starters, posted, faults>>
    BY <1>3 DEF Read
  <2>3. f \in Sources /\ inspectors[i].seen \in [Sources -> {"unseen", "present"} \cup States \cup Exits]
    BY DEF ToRead, TypeOK
  <2>4. /\ inspectors'[i].seen = [inspectors[i].seen EXCEPT ![f] = View(f)]
        /\ inspectors'[i].began = IF inspectors[i].seen = Unseen THEN Progress
                                  ELSE inspectors[i].began
        /\ inspectors'[i].report = "none"
        /\ \A j \in Inspectors \ {i} : inspectors'[j] = inspectors[j]
    BY <2>1 DEF TypeOK
  <2>5. Sighted(i) /\ Ordered
    BY DEF InspectionInv
  <2>6. Sighted(i)'
    <3>1. View(f) # "unseen" /\ (f = "tmux" => View(f) \in Presence)
      BY <2>3 DEF View, Sources, TypeOK, Presence, States, Exits, SessionStatus
    <3>2. CASE inspectors[i].seen = Unseen
      <4>1. f \in {"dir", "tmux"} /\ inspectors[i].seen = [g \in Sources |-> "unseen"]
        BY <3>2 DEF ToRead, Unseen, Sources
      <4>2. Progress # "none" => files.dir = "present"
        BY DEF Progress, Told, RuntimeInv, Locked, Untouched, TypeOK, Presence, States, Exits,
               SessionStatus, Outcome
      <4>3. Progress = "started" => supervisor.pc # "none"
        BY DEF Progress, Told, Outcome
      <4>4. Progress \in Outcome => Told(files) = Progress
        BY DEF Progress, Told, Outcome
      <4>5. tmux = "absent" /\ supervisor.pc # "none" => supervisor.pc \in Ended
        BY DEF InspectionInv, Ordered
      <4>6. QED
        BY <2>2, <2>4, <3>1, <3>2, <4>1, <4>2, <4>3, <4>4, <4>5
           DEF Sighted, View, Sources, Told, Outcome
    <3>3. CASE inspectors[i].seen # Unseen
      <4>1. f \in {"state", "pid", "exit"} =>
              inspectors[i].seen["dir"] # "unseen" /\ inspectors[i].seen["tmux"] # "unseen"
        BY DEF ToRead, Sources
      <4>2. tmux = "absent" /\ supervisor.pc # "none" => supervisor.pc \in Ended
        BY DEF InspectionInv, Ordered
      <4>3. inspectors'[i].began = inspectors[i].began
        BY <2>4, <3>3
      <4>4. CASE f \in {"dir", "tmux"}
        <5>1. inspectors[i].seen[f] = "unseen"
          BY DEF ToRead
        <5>2. QED
          BY <2>2, <2>3, <2>4, <2>5, <3>1, <4>2, <4>3, <4>4, <5>1 DEF Sighted, View, Sources, Told
      <4>5. CASE f \in {"state", "pid", "exit"}
        <5>1. files.state \in Outcome => Told(files) = files.state
          BY OutcomeIsTold DEF InspectionInv, Ordered
        <5>2. CASE f = "state"
          BY <2>2, <2>3, <2>4, <2>5, <3>1, <4>1, <4>3, <5>1, <5>2 DEF Sighted, View, Sources, Told
        <5>3. CASE f = "pid"
          BY <2>2, <2>3, <2>4, <2>5, <3>1, <4>1, <4>3, <5>3 DEF Sighted, View, Sources, Told
        <5>4. CASE f = "exit"
          BY <2>2, <2>3, <2>4, <2>5, <3>1, <4>1, <4>3, <5>4 DEF Sighted, View, Sources, Told, TypeOK
        <5>5. QED BY <4>5, <5>2, <5>3, <5>4
      <4>6. QED BY <2>3, <4>4, <4>5 DEF Sources
    <3>4. QED BY <3>2, <3>3
  <2>7. ASSUME NEW j \in Inspectors PROVE Sighted(j)'
    <3>1. CASE j = i
      BY <2>6, <3>1
    <3>2. CASE j # i
      <4>1. Sighted(j) /\ inspectors'[j] = inspectors[j]
        BY <2>4, <3>2 DEF InspectionInv
      <4>2. QED BY <2>2, <4>1 DEF Sighted, Told
    <3>3. QED BY <3>1, <3>2
  <2>8. LostIsLost' /\ FinishedIsReported' /\ ReportsStand'
    BY <1>0, <2>2, <2>4 DEF InspectionInv, LostIsLost, FinishedIsReported, ReportsStand, Lost, Told, Outcome
  <2>9. QED BY <1>1, <2>7, <2>8 DEF InspectionInv
<1>4. ASSUME NEW i \in Inspectors, Report(i) PROVE InspectionInv'
  <2>1. UNCHANGED <<files, tmux, supervisor, agent, transport, spawned, starters, posted, faults>>
    BY <1>4 DEF Report
  <2>2. /\ inspectors'[i].seen = inspectors[i].seen
        /\ inspectors'[i].began = inspectors[i].began
        /\ inspectors'[i].report = Inspection(inspectors[i].seen)
        /\ \A j \in Inspectors \ {i} : inspectors'[j] = inspectors[j]
    BY <1>4 DEF Report, TypeOK
  <2>3. \A j \in Inspectors : Sighted(j)'
    BY <2>1, <2>2 DEF InspectionInv, Sighted, Told
  <2>4. Sighted(i) /\ ToRead(inspectors[i].seen) = {}
    BY <1>4 DEF InspectionInv, Report
  <2>5. inspectors[i].began = "started" /\ Inspection(inspectors[i].seen) = "UNRECOVERABLE" => Lost
    <3> SUFFICES ASSUME inspectors[i].began = "started",
                        Inspection(inspectors[i].seen) = "UNRECOVERABLE"
                 PROVE Lost
      OBVIOUS
    <3> DEFINE seen == inspectors[i].seen
    <3>1. seen.dir = "present" /\ supervisor.pc # "none"
      BY <2>4 DEF Sighted, ToRead, Sources
    <3>2. \A f \in Sources : seen[f] # "unseen"
      BY <2>4, <3>1 DEF ToRead, Sources
    <3>3. Told(seen) = "none" /\ seen.tmux # "present"
      BY <3>1 DEF Inspection, Unfinished, Told, Outcome
    <3>4. seen.tmux = "absent"
      BY <2>4, <3>2, <3>3 DEF Sighted, Presence, Sources
    <3>5. seen.exit = files.exit /\ seen.state = files.state /\ supervisor.pc \in Ended
      BY <2>4, <3>2, <3>4 DEF Sighted, Sources
    <3>6. Told(files) = "none"
      BY <3>3, <3>5 DEF Told
    <3>7. \A c \in Starters : starters[c] \notin {"token", "prompt", "state", "launch", "fail_state"}
      BY <3>1 DEF RuntimeInv, Locked, Untouched, Owner, InspectionInv, Ordered, Failing
    <3>8. QED BY <3>5, <3>6, <3>7 DEF Lost
  <2>6. inspectors[i].began \in Outcome =>
          Inspection(inspectors[i].seen) = inspectors[i].began
    BY <2>4 DEF Sighted, ToRead, Sources, Inspection, Told, Outcome
  <2>7. LostIsLost' /\ FinishedIsReported'
    BY <1>0, <2>1, <2>2, <2>5, <2>6 DEF InspectionInv, LostIsLost, FinishedIsReported, Lost, Told
  <2>8. Inspection(inspectors[i].seen) \in Outcome => Told(files) = Inspection(inspectors[i].seen)
    <3> SUFFICES ASSUME Inspection(inspectors[i].seen) \in Outcome
                 PROVE  Told(files) = Inspection(inspectors[i].seen)
      OBVIOUS
    <3> DEFINE seen == inspectors[i].seen
    <3>1. seen.dir # "absent" /\ Inspection(seen) = Told(seen) /\ Told(seen) \in Outcome
      BY DEF Inspection, Undirected, Unfinished, Outcome
    <3>2. seen.exit # "unseen"
      BY <2>4, <3>1 DEF ToRead, Sources
    <3>3. seen \in [Sources -> {"unseen", "present"} \cup States \cup Exits]
      BY DEF TypeOK
    <3>4. CASE seen.exit \in {"zero", "nonzero"}
      BY <2>4, <3>1, <3>4 DEF Sighted, Told
    <3>5. CASE seen.exit = "absent"
      BY <2>4, <3>1, <3>5 DEF Sighted, Told, Outcome
    <3>6. QED BY <2>4, <3>2, <3>4, <3>5 DEF Sighted, Exits
  <2>9. ReportsStand'
    BY <1>0, <2>1, <2>2, <2>8 DEF InspectionInv, ReportsStand, Told
  <2>10. QED BY <1>1, <2>3, <2>7, <2>9 DEF InspectionInv
<1>5. QED
  BY <1>2, <1>3, <1>4, OthersAreSteady DEF InspectionInv

\* What the abstract agent's variables are here.
MappedAgent == IF files.state \in {"absent", "STARTING"} THEN "none" ELSE files.state
MappedVars == <<MappedAgent, posted>>

\* What the start and the supervisor write and post is a step of the abstract agent, or none.
LEMMA AgentStep ==
  ASSUME TypeOK, RuntimeInv, Ordered, [Next]_vars
  PROVE [AgentReported!Next]_MappedVars
<1> USE RuntimeFaultAssumption
    DEF TypeOK, StartPc, SupervisorPc, Ended, Presence, States, Exits, Exit, Outcome,
        SessionStatus, LocalStatus, Fault, Write, Remove, At, Goto, Does, Supervisor,
        SupervisorAt, Accepted, Failed, RuntimeInv, Locked, Untouched, Owner, Ordered, Final,
        Failing, Written, MappedVars, MappedAgent,
        AgentReported!Next, AgentReported!Starts, AgentReported!Ends, AgentReported!Reported
<1>1. ASSUME NEW c \in Starters, StartSession(c) PROVE [AgentReported!Next]_MappedVars
  BY <1>1 DEF StartSession
<1>2. ASSUME NEW c \in Starters, MakeDirectory(c) PROVE [AgentReported!Next]_MappedVars
  BY <1>2 DEF MakeDirectory
<1>3. ASSUME NEW c \in Starters, WriteFiles(c) PROVE [AgentReported!Next]_MappedVars
  BY <1>3 DEF WriteFiles
<1>4. ASSUME NEW c \in Starters, LaunchSupervisor(c) PROVE [AgentReported!Next]_MappedVars
  BY <1>4 DEF LaunchSupervisor
<1>5. ASSUME NEW c \in Starters, LaunchRefused(c) PROVE [AgentReported!Next]_MappedVars
  BY <1>5 DEF LaunchRefused
<1>6. ASSUME NEW c \in Starters, CleanUp(c) PROVE [AgentReported!Next]_MappedVars
  BY <1>6 DEF CleanUp
<1>7. ASSUME NEW c \in Starters, PostStartFailed(c) PROVE [AgentReported!Next]_MappedVars
  BY <1>7 DEF PostStartFailed
<1>8. ASSUME NEW c \in Starters, StartKilled(c) PROVE [AgentReported!Next]_MappedVars
  BY <1>8 DEF StartKilled
<1>9. CASE CheckSession
  BY <1>9 DEF CheckSession
<1>10. CASE ReadToken
  BY <1>10 DEF ReadToken
<1>11. CASE SpawnAgent
  BY <1>11 DEF SpawnAgent
<1>12. CASE SpawnFails
  BY <1>12 DEF SpawnFails
<1>13. CASE RecordStart
  BY <1>13 DEF RecordStart
<1>14. CASE RecordStartFails
  BY <1>14 DEF RecordStartFails
<1>15. CASE AnnounceRunning
  BY <1>15 DEF AnnounceRunning
<1>16. CASE PromptSent
  BY <1>16 DEF PromptSent
<1>17. CASE PipeBreaks
  BY <1>17 DEF PipeBreaks
<1>18. CASE AgentReturns
  BY <1>18 DEF AgentReturns, AgentResult
<1>19. CASE FinishSession
  BY <1>19 DEF FinishSession
<1>20. CASE PostOutcome
  BY <1>20 DEF PostOutcome
<1>21. CASE SupervisorKilled
  BY <1>21 DEF SupervisorKilled
<1>22. CASE TmuxEnds
  BY <1>22 DEF TmuxEnds
<1>23. CASE AgentEnds
  BY <1>23 DEF AgentEnds
<1>24. ASSUME NEW i \in Inspectors, Read(i) \/ Report(i) PROVE [AgentReported!Next]_MappedVars
  BY <1>24 DEF Read, Report
<1>25. CASE UNCHANGED vars
  BY <1>25 DEF vars
<1> QED
  BY <1>1, <1>2, <1>3, <1>4, <1>5, <1>6, <1>7, <1>8, <1>9, <1>10, <1>11, <1>12, <1>13,
     <1>14, <1>15, <1>16, <1>17, <1>18, <1>19, <1>20, <1>21, <1>22, <1>23, <1>24,
     <1>25 DEF Next, StartStep, SupervisorStep

\* It all holds before the first start.
LEMMA RuntimeInit == Init => TypeOK /\ RuntimeInv /\ InspectionInv
  BY RuntimeFaultAssumption
     DEF Init, TypeOK, StartPc, SupervisorPc, Ended, Presence, States, Exits, Exit, Outcome,
         SessionStatus, LocalStatus, SupervisorAt, Unseen, RuntimeInv, Locked, Written,
         Supervised, Leaving, Untouched, Owner, Failing, Fresh, Finishing, AtMostOneAgent,
         TokenOutlivesReport, FilesAreTrue, InspectionInv, Ordered, ExitAgrees, PromptKept, Final,
         Sighted, LostIsLost, FinishedIsReported, ReportsStand, Sources

\* The state of a session, its processes and its files has its types.
THEOREM TypeCorrect == Spec => []TypeOK
  BY RuntimeInit, TypeStep, PTL DEF Spec

LEMMA RuntimeCorrect == Spec => []RuntimeInv
<1>1. TypeOK /\ RuntimeInv /\ [Next]_vars => (TypeOK /\ RuntimeInv)'
  BY TypeStep, RuntimeStep
<1>2. QED BY RuntimeInit, <1>1, PTL DEF Spec

\* The directory is a lock: whatever starts race, fail or are killed, and whether or not tmux
\* answers truly, no second agent process is ever spawned for a session.
THEOREM OneAgent == Spec => []AtMostOneAgent
<1>1. RuntimeInv => AtMostOneAgent
  BY DEF RuntimeInv
<1>2. QED BY RuntimeCorrect, <1>1, PTL

\* Neither the supervisor nor a start that failed drops the callback token before an outcome
\* has been accepted.
THEOREM TokenRetained == Spec => []TokenOutlivesReport
<1>1. RuntimeInv => TokenOutlivesReport
  BY DEF RuntimeInv
<1>2. QED BY RuntimeCorrect, <1>1, PTL

\* SUCCEEDED is written for a clean exit after the whole prompt only, and an exit code is the
\* agent's.
THEOREM TrueFiles == Spec => []FilesAreTrue
<1>1. RuntimeInv => FilesAreTrue
  BY DEF RuntimeInv
<1>2. QED BY RuntimeCorrect, <1>1, PTL

LEMMA InspectionCorrect ==
  Spec => [](TypeOK /\ RuntimeInv /\ (TmuxBelieved => InspectionInv))
<1> DEFINE Inv == TypeOK /\ RuntimeInv /\ (TmuxBelieved => InspectionInv)
<1>1. Init => Inv
  BY RuntimeInit
<1>2. Inv /\ [Next]_vars => Inv'
  BY TypeStep, RuntimeStep, InspectionStep, LostForGood
<1>3. QED BY <1>1, <1>2, PTL DEF Spec

\* Without lost answers all of it holds for good.
LEMMA AlwaysBelieved ==
  ASSUME TmuxIsTrue
  PROVE  Spec => [](TypeOK /\ RuntimeInv /\ TmuxBelieved /\ InspectionInv)
<1>1. Init => TmuxBelieved
  BY DEF Init, SupervisorAt, TmuxBelieved
<1>2. TypeOK /\ RuntimeInv /\ TmuxBelieved /\ [Next]_vars => TmuxBelieved'
  BY LostForGood
<1>3. QED BY <1>1, <1>2, InspectionCorrect, PTL DEF Spec

\* As long as a start is refused by tmux only when it has no supervisor, what arrives at the
\* backend is what the abstract agent of AgentReports allows.
THEOREM ReportsImplemented == TmuxIsTrue => (Spec => ReportsRefined)
<1> SUFFICES ASSUME TmuxIsTrue PROVE Spec => ReportsRefined
  OBVIOUS
<1>1. Init => AgentReported!Init
  BY DEF Init, AgentReported!Init
<1>2. TypeOK /\ RuntimeInv /\ InspectionInv /\ [Next]_vars => [AgentReported!Next]_MappedVars
  BY AgentStep DEF InspectionInv
<1>3. QED
  BY <1>1, <1>2, AlwaysBelieved, PTL
     DEF Spec, ReportsRefined, AgentReported!Spec, MappedVars, MappedAgent

\* As long as no answer of tmux has been lost an inspection, whose five
\* reads the others may interleave with as they like, calls a supervised session lost only if it is.
THEOREM LostIsTrue == Spec => []LostIsLost
<1>1. (TmuxBelieved => InspectionInv) => LostIsLost
  BY DEF InspectionInv, LostIsLost
<1>2. QED BY <1>1, InspectionCorrect, PTL

\* And it reports the outcome that the files told when it began.
THEOREM OutcomeIsReported == Spec => []FinishedIsReported
<1>1. (TmuxBelieved => InspectionInv) => FinishedIsReported
  BY DEF InspectionInv, FinishedIsReported
<1>2. QED BY <1>1, InspectionCorrect, PTL

\* As long as tmux is to be believed no inspection reports an outcome that another denies, then
\* or later: what one has made of five reads is what the files tell from then on.
THEOREM ReportsAreFinal == Spec => []ReportsStand
<1>1. (TmuxBelieved => InspectionInv) => ReportsStand
  BY DEF InspectionInv, ReportsStand
<1>2. QED BY <1>1, InspectionCorrect, PTL

\* Under every fault, a lost answer of tmux too: a supervisor that returns leaves an outcome.
THEOREM ReturnLeavesOutcome == Spec => []ExitLeavesOutcome
<1>1. RuntimeInv => ExitLeavesOutcome
  BY DEF RuntimeInv, Leaving, ExitLeavesOutcome
<1>2. QED BY RuntimeCorrect, <1>1, PTL

\* What the supervisor's catch block promises is true but for the two errors that end it from
\* outside the block, a failed spawn and a broken pipe: without them it never crashes, since
\* it finds the prompt.  With either alone, or with an answer of tmux lost, it is refuted.
THEOREM OutcomeUnlessCrashed ==
  TmuxIsTrue /\ FaultKinds \cap {"spawn_failed", "pipe_broken"} = {}
    => (Spec => []SupervisorLeavesOutcome)
<1> SUFFICES ASSUME TmuxIsTrue, FaultKinds \cap {"spawn_failed", "pipe_broken"} = {}
             PROVE  Spec => []SupervisorLeavesOutcome
  OBVIOUS
<1> DEFINE Alive == supervisor.pc # "crashed"
<1>1. Init => Alive
  BY DEF Init, SupervisorAt
<1>2. ASSUME TypeOK, InspectionInv, Alive, [Next]_vars PROVE Alive'
  <2>1. ~Fault("spawn_failed") /\ ~Fault("pipe_broken")
    BY DEF Fault
  <2>2. ~SpawnFails /\ ~PipeBreaks
    BY <1>2, <2>1 DEF SpawnFails, PipeBreaks, Does, InspectionInv, Ordered, PromptKept
  <2>3. SupervisorStep => Alive'
    BY <1>2, <2>2 DEF SupervisorStep, CheckSession, ReadToken, SpawnAgent, RecordStart, RecordStartFails,
         AnnounceRunning, PromptSent, AgentReturns, FinishSession, PostOutcome, Supervisor, TypeOK
  <2>4. QED
    BY <1>2, <2>3 DEF Next, StartStep, StartSession, MakeDirectory, WriteFiles, LaunchSupervisor,
         LaunchRefused, CleanUp, PostStartFailed, StartKilled, Read, Report, SupervisorKilled,
         Supervisor, SupervisorAt, TmuxEnds, AgentEnds, TypeOK, vars
<1>3. RuntimeInv /\ Alive => SupervisorLeavesOutcome
  BY DEF RuntimeInv, Leaving, SupervisorLeavesOutcome
<1>4. QED BY <1>1, <1>2, <1>3, AlwaysBelieved, PTL DEF Spec

(***************************************************************************)
(* What a composition with the backend relies on: facts that no later step  *)
(* of start, supervisor or agent undoes.                                    *)
(***************************************************************************)

\* The agent has read its prompt and ended cleanly, and that is on disk.
Completed ==
  agent = "zero" /\ transport = "sent" /\ files.exit = "zero" /\ files.prompt = "absent"

LEMMA CompletedForGood ==
  ASSUME TypeOK, RuntimeInv, Completed, [Next]_vars
  PROVE  Completed'
<1> USE DEF Completed, TypeOK, RuntimeInv, Locked, Untouched, Supervised, Owner, Failing, Fresh,
            Write, Remove, At, Does
<1>1. SupervisorStep => Completed'
  BY DEF SupervisorStep, CheckSession, ReadToken, SpawnAgent, SpawnFails, RecordStart, RecordStartFails,
         AnnounceRunning, PromptSent, PipeBreaks, AgentReturns, FinishSession, PostOutcome
<1>2. ASSUME NEW c \in Starters, StartStep(c) PROVE Completed'
  BY <1>2 DEF StartStep, MakeDirectory, WriteFiles, LaunchSupervisor, LaunchRefused, CleanUp, PostStartFailed
<1>3. QED
  BY <1>1, <1>2 DEF Next, StartSession, StartKilled, Read, Report, SupervisorKilled, TmuxEnds, AgentEnds, vars

LEMMA SpawnedForGood ==
  ASSUME TypeOK, RuntimeInv, spawned = 1, [Next]_vars
  PROVE  spawned' = 1
<1>1. spawned' = spawned \/ SpawnAgent
  BY DEF Next, StartSession, StartStep, MakeDirectory, WriteFiles, LaunchSupervisor, LaunchRefused, CleanUp,
         PostStartFailed, StartKilled, SupervisorStep, CheckSession, ReadToken, SpawnFails, RecordStart,
         RecordStartFails, AnnounceRunning, PromptSent, PipeBreaks, AgentReturns, FinishSession, PostOutcome,
         Read, Report, SupervisorKilled, TmuxEnds, AgentEnds, vars
<1>2. ~SpawnAgent
  BY DEF SpawnAgent, Does, RuntimeInv, Supervised, Fresh
<1>3. QED BY <1>1, <1>2

\* A supervisor comes into being for a session that has not failed, and never ceases to have been.
LEMMA SupervisorBegins ==
  ASSUME TypeOK, RuntimeInv, [Next]_vars
  PROVE  /\ supervisor.pc = "none" /\ supervisor'.pc # "none" => files.state = "STARTING"
         /\ supervisor.pc # "none" => supervisor'.pc # "none"
<1> USE DEF Does, Supervisor, SupervisorAt, TypeOK
<1>1. SupervisorStep => supervisor.pc # "none" /\ supervisor'.pc # "none"
  BY DEF SupervisorStep, CheckSession, ReadToken, SpawnAgent, SpawnFails, RecordStart, RecordStartFails,
         AnnounceRunning, PromptSent, PipeBreaks, AgentReturns, FinishSession, PostOutcome
<1>2. ASSUME NEW c \in Starters, LaunchSupervisor(c)
      PROVE  files.state = "STARTING" /\ supervisor'.pc # "none"
  BY <1>2 DEF LaunchSupervisor, RuntimeInv, Written, At
<1>3. SupervisorKilled => supervisor.pc # "none" /\ supervisor'.pc # "none"
  BY DEF SupervisorKilled
<1>4. \/ SupervisorStep \/ SupervisorKilled \/ supervisor' = supervisor
      \/ \E c \in Starters : LaunchSupervisor(c)
  BY DEF Next, StartSession, StartStep, MakeDirectory, WriteFiles, LaunchRefused, CleanUp, PostStartFailed,
         StartKilled, Read, Report, TmuxEnds, AgentEnds, vars
<1>5. QED BY <1>1, <1>2, <1>3, <1>4
=============================================================================
