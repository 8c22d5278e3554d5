--------------------------- MODULE InstanceProofs ---------------------------
(***************************************************************************)
(* Proofs about one EC2 instance, for any number of calls, volumes, commits, *)
(* polls and faults: the types, what terminateDevbox's success means, what   *)
(* READY means, and that the steps add up to InstanceLife.                   *)
(***************************************************************************)
EXTENDS InstanceProperties, TLAPS

Calling == {"terminate", "await_instance", "await_volumes"}
Dead == {"terminated", "gone"}

\* A call past its first describe has seen the instance, and one that awaits the volumes, or
\* is done, has seen its end.
CallerInv ==
  \A c \in Callers :
    /\ callers[c].pc \in Calling => visible
    /\ callers[c].pc \in {"await_volumes", "ok"} => instance \in Dead

\* The bootstrap runs only on an instance that has started, reports once, and gets to its
\* report by way of the commit and the setup.
BootInv ==
  /\ boot.pc # "prepare" => instance # "pending"
  /\ boot.pc # "ended" => posts = {}
  /\ boot.pc \in {"setup", "post_ready"} => boot.head = Wanted /\ Wanted \in boot.fetched
  /\ boot.pc = "post_ready" => boot.setup

IInv == TypeOK /\ CallerInv /\ BootInv /\ SeenVolumeIsGone /\ ReadyIsEarned

LEMMA InitInv == Init => IInv
<1> SUFFICES ASSUME Init PROVE IInv
  OBVIOUS
<1> USE WantedAssumption, PollAssumption, FaultAssumption DEF Init
<1>1. callers \in [Callers -> [pc : {"idle"}, seen : SUBSET Volumes, polls : 0..PollAttempts]]
  OBVIOUS
<1>2. callers \in [Callers -> [pc : {"idle", "terminate", "await_instance", "await_volumes"} \cup Finished,
                              seen : SUBSET Volumes, polls : 0..PollAttempts]]
  BY <1>1 DEF Finished
<1>3. visible \in BOOLEAN /\ (~visible => instance = "pending")
  OBVIOUS
<1>4. boot \in [pc : {"prepare", "fetch", "verify", "setup", "post_ready", "post_failed", "ended"},
               fetched : SUBSET Commits, head : Commits \cup {NoCommit}, setup : BOOLEAN]
  OBVIOUS
<1>5. TypeOK
  BY <1>2, <1>3, <1>4 DEF TypeOK
<1>6. CallerInv /\ BootInv /\ SeenVolumeIsGone /\ ReadyIsEarned
  BY DEF CallerInv, BootInv, SeenVolumeIsGone, ReadyIsEarned, Calling, Dead
<1> QED
  BY <1>5, <1>6 DEF IInv

\* The steps of EC2 leave calls and bootstrap alone.
LEMMA Ec2Inv == IInv /\ (Ec2 \/ Stops) => IInv'
<1> SUFFICES ASSUME IInv, Ec2 \/ Stops PROVE IInv'
  OBVIOUS
<1> USE FaultAssumption DEF IInv, TypeOK, CallerInv, BootInv, SeenVolumeIsGone, ReadyIsEarned,
                            Calling, Dead, Fault, bootVars, ec2Vars
<1>1. CASE Appears
  BY <1>1 DEF Appears
<1>2. CASE Starts
  BY <1>2 DEF Starts
<1>3. CASE Stops
  BY <1>3 DEF Stops
<1>4. CASE Dies
  BY <1>4 DEF Dies
<1>5. CASE Forgotten
  BY <1>5 DEF Forgotten
<1>6. ASSUME NEW v \in Volumes, DiskDeleted(v) PROVE IInv'
  BY <1>6 DEF DiskDeleted
<1> QED
  BY <1>1, <1>2, <1>3, <1>4, <1>5, <1>6 DEF Ec2

\* A step of one call.
LEMMA CallInv ==
  ASSUME IInv, NEW c \in Callers, DescribeBeforeTerminate(c) \/ TerminateDevbox(c) \/ CallFailed(c)
  PROVE IInv'
<1> USE PollAssumption, FaultAssumption
    DEF IInv, TypeOK, CallerInv, BootInv, SeenVolumeIsGone, ReadyIsEarned, Calling, Dead,
        Finished, Fault, At, Becomes, Goes, Found, Terminal, AfterInstance, TerminateInstances,
        bootVars, ec2Vars
<1>1. CASE DescribeBeforeTerminate(c)
  BY <1>1 DEF DescribeBeforeTerminate
<1>2. CASE Terminate(c)
  BY <1>2 DEF Terminate
<1>3. CASE TerminateTooLate(c)
  BY <1>3 DEF TerminateTooLate
<1>4. CASE PollInstance(c)
  <2>1. CASE ~Found \/ instance \in Terminal
    <3>1. callers' = [callers EXCEPT ![c] = AfterInstance(c)]
      BY <1>4, <2>1 DEF PollInstance
    <3>2. instance \in Dead
      BY <1>4, <2>1 DEF PollInstance
    <3>3. callers[c] = [pc |-> "await_instance", seen |-> callers[c].seen, polls |-> callers[c].polls]
      BY <1>4 DEF PollInstance
    <3>4. CASE callers[c].seen = {}
      <4>1. AfterInstance(c) = [pc |-> "ok", seen |-> {}, polls |-> callers[c].polls]
        BY <3>3, <3>4
      <4> HIDE DEF AfterInstance
      <4> QED
        BY <1>4, <3>1, <3>2, <3>4, <4>1 DEF PollInstance
    <3>5. CASE callers[c].seen # {}
      <4>1. AfterInstance(c) = [pc |-> "await_volumes", seen |-> callers[c].seen, polls |-> PollAttempts]
        BY <3>3, <3>5
      <4> HIDE DEF AfterInstance
      <4> QED
        BY <1>4, <3>1, <3>2, <3>5, <4>1 DEF PollInstance
    <3> QED
      BY <3>4, <3>5
  <2>2. CASE ~(~Found \/ instance \in Terminal)
    BY <1>4, <2>2 DEF PollInstance
  <2> QED
    BY <2>1, <2>2
<1>5. CASE PollVolumes(c)
  BY <1>5 DEF PollVolumes
<1>6. CASE PollsExhausted(c)
  BY <1>6 DEF PollsExhausted
<1>7. CASE CallFailed(c)
  BY <1>7 DEF CallFailed
<1> QED
  BY <1>1, <1>2, <1>3, <1>4, <1>5, <1>6, <1>7 DEF TerminateDevbox

\* A step of the user data, the bootstrap or the remote branch.
BootNext == BootstrapStep \/ PrepareFails \/ StepFails \/ PostLost \/ Push

LEMMA BootStepInv == IInv /\ BootNext => IInv'
<1> SUFFICES ASSUME IInv, BootNext PROVE IInv'
  OBVIOUS
<1> USE WantedAssumption, FaultAssumption
    DEF IInv, TypeOK, CallerInv, BootInv, SeenVolumeIsGone, ReadyIsEarned, Calling, Dead,
        Fault, BootAt, BootGoes, BootOnly, bootVars, ec2Vars
<1>1. CASE Prepare
  BY <1>1 DEF Prepare
<1>2. CASE PrepareFails
  BY <1>2 DEF PrepareFails
<1>3. CASE Fetch
  BY <1>3 DEF Fetch
<1>4. CASE CheckOut
  BY <1>4 DEF CheckOut
<1>5. CASE RunSetupCommand
  BY <1>5 DEF RunSetupCommand
<1>6. CASE StepFails
  BY <1>6 DEF StepFails
<1>7. CASE PostReady
  BY <1>7 DEF PostReady
<1>8. CASE PostFailed
  BY <1>8 DEF PostFailed
<1>9. CASE PostLost
  BY <1>9 DEF PostLost
<1>10. CASE Push
  BY <1>10 DEF Push
<1> QED
  BY <1>1, <1>2, <1>3, <1>4, <1>5, <1>6, <1>7, <1>8, <1>9, <1>10 DEF BootNext, BootstrapStep

LEMMA StutterInv == IInv /\ UNCHANGED vars => IInv'
  BY DEF IInv, TypeOK, CallerInv, BootInv, SeenVolumeIsGone, ReadyIsEarned, vars, ec2Vars, bootVars

\* The invariant all the results below rest on.
THEOREM Invariant == Spec => []IInv
<1>1. IInv /\ [Next]_vars => IInv'
  BY Ec2Inv, CallInv, BootStepInv, StutterInv DEF Next, BootNext
<1> QED
  BY InitInv, <1>1, PTL DEF Spec

\* Every reachable state is well typed; no poll loop of terminateDevbox counts below zero.
THEOREM TypeCorrect == Spec => []TypeOK
  BY Invariant, PTL DEF IInv

\* terminateDevbox succeeds only for an instance that is terminated, whatever other calls,
\* faults and EC2 do.
THEOREM SuccessIsTrue == Spec => []SuccessMeansTerminated
<1>1. IInv => SuccessMeansTerminated
  BY DEF IInv, CallerInv, SuccessMeansTerminated, Dead
<1> QED
  BY <1>1, Invariant, PTL

\* A success that had volumes to wait for has seen one of them gone.
THEOREM VolumesAwaited == Spec => []SeenVolumeIsGone
  BY Invariant, PTL DEF IInv

\* READY is reported only of the requested commit, set up, and never along with FAILED.
THEOREM ReadyEarned == Spec => []ReadyIsEarned
  BY Invariant, PTL DEF IInv

LifeVars == Life!vars

LEMMA InitRefines == Init => Life!Init
  BY DEF Init, Life!Init, Finished

LEMMA Ec2Refines == IInv /\ (Ec2 \/ Stops) => [Life!Next]_LifeVars
<1> SUFFICES ASSUME IInv, Ec2 \/ Stops PROVE [Life!Next]_LifeVars
  OBVIOUS
<1> USE DEF Life!Next, Life!Boot, Life!Terminate, LifeVars, Life!vars, IInv, TypeOK, BootInv,
            Finished, Fault, bootVars, ec2Vars
<1>1. CASE Appears
  BY <1>1 DEF Appears
<1>2. CASE Starts
  BY <1>2 DEF Starts
<1>3. CASE Stops
  BY <1>3 DEF Stops
<1>4. CASE Dies
  BY <1>4 DEF Dies
<1>5. CASE Forgotten
  BY <1>5 DEF Forgotten
<1>6. ASSUME NEW v \in Volumes, DiskDeleted(v) PROVE [Life!Next]_LifeVars
  BY <1>6 DEF DiskDeleted
<1> QED
  BY <1>1, <1>2, <1>3, <1>4, <1>5, <1>6 DEF Ec2
\* A step of a call is an answer to it, or nothing.
LEMMA CallRefines ==
  ASSUME IInv, NEW c \in Callers, DescribeBeforeTerminate(c) \/ TerminateDevbox(c) \/ CallFailed(c)
  PROVE [Life!Next]_LifeVars
<1> DEFINE Verdict(x) == IF x.pc \in Finished THEN x.pc ELSE "none"
<1> USE PollAssumption
    DEF IInv, TypeOK, CallerInv, BootInv, Calling, Dead, Finished, Fault, At, Becomes, Goes,
        Found, Terminal, bootVars, ec2Vars
<1>1. /\ posts' = posts /\ boot' = boot
      /\ instance \in Dead <=> instance' \in Dead
  BY DEF DescribeBeforeTerminate, TerminateDevbox, Terminate, TerminateTooLate, PollInstance,
         PollVolumes, PollsExhausted, CallFailed, TerminateInstances
<1>2. PICK x : callers' = [callers EXCEPT ![c] = x]
  BY DEF DescribeBeforeTerminate, TerminateDevbox, Terminate, TerminateTooLate, PollInstance,
         PollVolumes, PollsExhausted, CallFailed
<1>3. callers[c].pc \notin Finished
  BY DEF DescribeBeforeTerminate, TerminateDevbox, Terminate, TerminateTooLate, PollInstance,
         PollVolumes, PollsExhausted, CallFailed
<1>4. callers'[c] = x
  BY <1>2
<1>5. \/ x.pc \notin Finished
      \/ x.pc = "failed"
      \/ x.pc = "ok" /\ instance \in Dead
      \/ x.pc = "not_found" /\ ~Found
  <2>1. CASE DescribeBeforeTerminate(c)
    BY <2>1, <1>4 DEF DescribeBeforeTerminate
  <2>2. CASE Terminate(c) \/ TerminateTooLate(c)
    BY <2>2, <1>4 DEF Terminate, TerminateTooLate
  <2>3. CASE PollInstance(c)
    BY <2>3, <1>4 DEF PollInstance, AfterInstance
  <2>4. CASE PollVolumes(c) \/ PollsExhausted(c)
    BY <2>4, <1>4 DEF PollVolumes, PollsExhausted
  <2>5. CASE CallFailed(c)
    BY <2>5, <1>4 DEF CallFailed
  <2> QED
    BY <2>1, <2>2, <2>3, <2>4, <2>5 DEF TerminateDevbox
<1> HIDE DEF Finished, Found
<1>6. [d \in Callers |-> Verdict(callers'[d])]
      = [[d \in Callers |-> Verdict(callers[d])] EXCEPT ![c] = Verdict(x)]
  BY <1>2
<1>7. Verdict(callers[c]) = "none"
  BY <1>3
<1>8. CASE x.pc \notin Finished
  <2>1. Verdict(x) = "none"
    BY <1>8
  <2>2. [d \in Callers |-> Verdict(callers'[d])] = [d \in Callers |-> Verdict(callers[d])]
    BY <1>6, <1>7, <2>1
  <2> QED
    BY <1>1, <2>2 DEF LifeVars, Life!vars
<1>9. CASE x.pc \in Finished
  <2>1. Verdict(x) = x.pc
    BY <1>9
  <2>2. x.pc = "not_found" => instance \in Dead \/ boot.pc = "prepare"
    BY <1>5, <1>9 DEF Finished, Found
  <2>3. Life!Answer(c)
    BY <1>1, <1>5, <1>6, <1>7, <1>9, <2>1, <2>2 DEF Life!Answer, Finished
  <2> QED
    BY <2>3 DEF Life!Next
<1> QED
  BY <1>8, <1>9

\* A step of the bootstrap is its one report, or nothing.
LEMMA BootRefines == IInv /\ BootNext => [Life!Next]_LifeVars
<1> SUFFICES ASSUME IInv, BootNext PROVE [Life!Next]_LifeVars
  OBVIOUS
<1> USE DEF Life!Next, Life!Boot, LifeVars, Life!vars, IInv, TypeOK, BootInv, Fault,
            BootAt, BootGoes, BootOnly, bootVars, ec2Vars
<1>1. CASE Prepare
  BY <1>1 DEF Prepare
<1>2. CASE PrepareFails
  BY <1>2 DEF PrepareFails
<1>3. CASE Fetch
  BY <1>3 DEF Fetch
<1>4. CASE CheckOut
  BY <1>4 DEF CheckOut
<1>5. CASE RunSetupCommand
  BY <1>5 DEF RunSetupCommand
<1>6. CASE StepFails
  BY <1>6 DEF StepFails
<1>7. CASE PostReady
  BY <1>7 DEF PostReady
<1>8. CASE PostFailed
  BY <1>8 DEF PostFailed
<1>9. CASE PostLost
  BY <1>9 DEF PostLost
<1>10. CASE Push
  BY <1>10 DEF Push
<1> QED
  BY <1>1, <1>2, <1>3, <1>4, <1>5, <1>6, <1>7, <1>8, <1>9, <1>10 DEF BootNext, BootstrapStep

\* EC2, terminateDevbox and the bootstrap implement the instance of the backend's lifecycle.
THEOREM LifeImplemented == Spec => RefinesLife
<1>1. IInv /\ [Next]_vars => [Life!Next]_LifeVars
  <2> SUFFICES ASSUME IInv, [Next]_vars PROVE [Life!Next]_LifeVars
    OBVIOUS
  <2>1. CASE UNCHANGED vars
    BY <2>1 DEF LifeVars, Life!vars, vars, ec2Vars, bootVars
  <2>2. CASE Next
    BY <2>2, Ec2Refines, CallRefines, BootRefines DEF Next, BootNext
  <2> QED
    BY <2>1, <2>2
<1> QED
  BY InitRefines, <1>1, Invariant, PTL DEF Spec, RefinesLife, Life!Spec, LifeVars
=============================================================================
