--------------------------- MODULE StartupProofs ---------------------------
(***************************************************************************)
(* Proofs about the start of the servers, for any number of servers,        *)
(* releases, configurations and faults.                                     *)
(***************************************************************************)
EXTENDS StartupProperties, TLAPS

\* The holder of the lock works from what is recorded, on the first file it lacks.
HolderInv ==
  \A s \in Servers :
    /\ servers[s].pc \in {"apply", "commit"} => servers[s].applied = recorded
    /\ servers[s].pc = "commit" => servers[s].txn = Len(schema) + 1
    /\ ~At(s, "collision")

\* What a start has behind it when it gets to the seed, and past it.
ProgressInv ==
  \A s \in Servers :
    /\ servers[s].pc \in {"seed", "insert", "reconcile", "listening"} => 1..LastFile[s] \subseteq recorded
    /\ servers[s].pc \in {"reconcile", "listening"} => environment = Hash[s]

IInv == TypeOK /\ SchemaIsRecorded /\ HolderInv /\ ProgressInv

LEMMA InitInv == Init => IInv
<1> SUFFICES ASSUME Init PROVE IInv
  OBVIOUS
<1> USE NoneAssumption, FaultAssumption
    DEF Init, StartCount, ProcessState, Down, Process, NoFile, Migrating, Exited, At
<1>1. TypeOK
  BY DEF TypeOK
<1>2. SchemaIsRecorded
  BY DEF SchemaIsRecorded
<1>3. HolderInv /\ ProgressInv
  BY DEF HolderInv, ProgressInv
<1> QED
  BY <1>1, <1>2, <1>3 DEF IInv

\* What it means for a process to go on to its next step.
LEMMA Advance ==
  ASSUME TypeOK, NEW s \in Servers,
         NEW pc \in {"read", "insert", "reconcile", "listening"}, Goes(s, pc)
  PROVE /\ \A t \in Servers \ {s} : servers'[t] = servers[t]
        /\ servers'[s] = [pc |-> pc, applied |-> servers[s].applied, txn |-> servers[s].txn]
        /\ servers' \in [Servers -> ProcessState]
<1>1. servers \in [Servers -> ProcessState]
  BY DEF TypeOK
<1>2. servers' = [servers EXCEPT ![s] = [servers[s] EXCEPT !.pc = pc]]
  BY DEF Goes, Becomes
<1>3. [servers[s] EXCEPT !.pc = pc] = [pc |-> pc, applied |-> servers[s].applied, txn |-> servers[s].txn]
  BY <1>1 DEF ProcessState
<1>4. [pc |-> pc, applied |-> servers[s].applied, txn |-> servers[s].txn] \in ProcessState
  BY <1>1 DEF ProcessState, Migrating
<1> QED
  BY <1>1, <1>2, <1>3, <1>4

\* A process that has its migrations goes on, and may have seeded the environment.
LEMMA SeedInv ==
  ASSUME IInv, NEW s \in Servers, NEW pc \in {"insert", "reconcile", "listening"},
         servers[s].pc \in {"seed", "insert", "reconcile"}, Goes(s, pc),
         UNCHANGED <<lock, recorded, schema, starts, faults>>,
         environment' = environment \/ (environment = None /\ environment' = Hash[s]),
         pc # "insert" => environment' = Hash[s]
  PROVE IInv'
<1> DEFINE P == servers'[s]
<1>1. /\ \A t \in Servers \ {s} : servers'[t] = servers[t]
      /\ P = [pc |-> pc, applied |-> servers[s].applied, txn |-> servers[s].txn]
  BY Advance DEF IInv
<1>2. servers' \in [Servers -> ProcessState]
  BY Advance DEF IInv
<1>3. lock # s
  BY DEF IInv, TypeOK, Migrating
<1>4. environment' \in {None} \cup {Hash[t] : t \in Servers}
  BY DEF IInv, TypeOK
<1>5. \A t \in Servers : servers'[t].pc \in Migrating <=> lock' = t
  BY <1>1, <1>3 DEF IInv, TypeOK, Migrating
<1>6. TypeOK'
  BY <1>2, <1>4, <1>5 DEF IInv, TypeOK
<1>7. SchemaIsRecorded'
  BY DEF IInv, SchemaIsRecorded
<1>8. HolderInv'
  BY <1>1 DEF IInv, HolderInv, At
<1>9. ProgressInv'
  BY <1>1, NoneAssumption DEF IInv, ProgressInv
<1> QED
  BY <1>6, <1>7, <1>8, <1>9 DEF IInv

\* A process that gets the lock begins to migrate, and is the only one that does.
LEMMA LockInv ==
  ASSUME IInv, NEW s \in Servers, TakeLock(s)
  PROVE IInv'
<1>0. /\ lock = None /\ lock' = s /\ servers[s].pc = "lock" /\ Goes(s, "read")
      /\ UNCHANGED <<recorded, schema, environment, starts, faults>>
  BY DEF TakeLock, At
<1>1. /\ \A t \in Servers \ {s} : servers'[t] = servers[t]
      /\ servers'[s].pc = "read"
      /\ servers' \in [Servers -> ProcessState]
  <2>1. TypeOK /\ "read" \in {"read", "insert", "reconcile", "listening"}
    BY DEF IInv
  <2>2. /\ \A t \in Servers \ {s} : servers'[t] = servers[t]
        /\ servers'[s] = [pc |-> "read", applied |-> servers[s].applied, txn |-> servers[s].txn]
        /\ servers' \in [Servers -> ProcessState]
    BY <1>0, <2>1, Advance, Zenon
  <2> QED
    BY <2>2
<1>2. \A t \in Servers : servers'[t].pc \in Migrating <=> lock' = t
  BY <1>0, <1>1, NoneAssumption DEF IInv, TypeOK, Migrating
<1>3. TypeOK'
  BY <1>0, <1>1, <1>2 DEF IInv, TypeOK
<1>4. SchemaIsRecorded'
  BY <1>0 DEF IInv, SchemaIsRecorded
<1>5. HolderInv' /\ ProgressInv'
  BY <1>0, <1>1 DEF IInv, HolderInv, ProgressInv, At
<1> QED
  BY <1>3, <1>4, <1>5 DEF IInv

\* A step of one process.
LEMMA StepInv ==
  ASSUME IInv, NEW s \in Servers, Proceeds(s) \/ SqlFails(s) \/ Crash(s) \/ Shutdown(s)
  PROVE IInv'
<1> USE NoneAssumption, FileAssumption, FaultAssumption
    DEF IInv, TypeOK, SchemaIsRecorded, HolderInv, ProgressInv, ProcessState, Migrating, Exited, Exit,
        Down, Stopped, Process, NoFile, At, Becomes, Goes, Fault, Released
<1>1. CASE Start(s)
  <2>1. starts' \in [Servers -> StartCount]
    BY <1>1 DEF Start, StartsLeft, StartCount
  <2> QED
    BY <1>1, <2>1 DEF Start
<1>2. CASE TakeLock(s)
  BY <1>2, LockInv
<1>3. CASE ReadApplied(s)
  BY <1>3 DEF ReadApplied
<1>4. CASE Execute(s)
  <2>1. PICK f \in NextFile(s) : servers' = [servers EXCEPT ![s] = Process("commit", servers[s].applied, f)]
    BY <1>4 DEF Execute
  <2>2. f = Len(schema) + 1
    <3>1. servers[s].applied = 1..Len(schema) /\ Len(schema) \in Nat /\ LastFile[s] \in Nat
      BY <1>4 DEF Execute
    <3>2. f \in Nat /\ f > Len(schema) /\ f <= LastFile[s]
      BY <2>1, <3>1 DEF NextFile, ToApply
    <3>3. Len(schema) + 1 \in ToApply(s)
      BY <3>1, <3>2 DEF ToApply
    <3> QED
      BY <2>1, <3>1, <3>2, <3>3 DEF NextFile
  <2> QED
    BY <1>4, <2>1, <2>2 DEF Execute
<1>5. CASE Commit(s)
  <2>1. servers[s].txn = Len(schema) + 1 /\ servers[s].txn \notin recorded
    BY <1>5 DEF Commit
  <2>2. /\ recorded' = recorded \cup {Len(schema) + 1}
        /\ schema' = Append(schema, Len(schema) + 1)
        /\ servers' = [servers EXCEPT ![s] = Process("apply", recorded', NoFile)]
        /\ UNCHANGED <<lock, environment, faults>>
    BY <1>5, <2>1 DEF Commit
  <2>3. SchemaIsRecorded' /\ schema' \in Seq(Nat)
    BY <2>2
  <2>4. \A t \in Servers : t # s => servers[t].pc \notin {"apply", "commit"}
    BY <1>5 DEF Commit
  <2> QED
    BY <1>5, <2>2, <2>3, <2>4 DEF Commit
<1>6. CASE Unlock(s)
  <2>1. 1..LastFile[s] \subseteq recorded
    BY <1>6 DEF Unlock, ToApply
  <2> QED
    BY <1>6, <2>1 DEF Unlock
<1>7. CASE ReadEnvironment(s)
  <2>1. CASE SeedFound(s) /\ Goes(s, "reconcile")
    BY SeedInv, <1>7, <2>1 DEF ReadEnvironment, SeedFound
  <2>2. CASE environment = None /\ Goes(s, "insert")
    BY SeedInv, <1>7, <2>2 DEF ReadEnvironment
  <2>3. CASE Becomes(s, Exit("other_environment"))
    BY <1>7, <2>3 DEF ReadEnvironment
  <2> QED
    BY <1>7, <2>1, <2>2, <2>3 DEF ReadEnvironment
<1>8. CASE InsertEnvironment(s)
  <2>1. CASE environment = None /\ environment' = Hash[s] /\ Goes(s, "reconcile")
    BY SeedInv, <1>8, <2>1 DEF InsertEnvironment
  <2>2. CASE environment' = environment /\ Becomes(s, Exit("seed_race"))
    BY <1>8, <2>2 DEF InsertEnvironment
  <2> QED
    BY <1>8, <2>1, <2>2 DEF InsertEnvironment
<1>9. CASE Listen(s)
  BY <1>9, SeedInv DEF Listen
<1>10. CASE SqlFails(s)
  BY <1>10 DEF SqlFails
<1>11. CASE Crash(s)
  BY <1>11 DEF Crash
<1>12. CASE Shutdown(s)
  BY <1>12 DEF Shutdown
<1> QED
  BY <1>1, <1>2, <1>3, <1>4, <1>5, <1>6, <1>7, <1>8, <1>9, <1>10, <1>11, <1>12 DEF Proceeds

\* The invariant all the results below rest on.
THEOREM Invariant == Spec => []IInv
<1>1. IInv /\ [Next]_vars => IInv'
  <2>1. IInv /\ UNCHANGED vars => IInv'
    BY DEF IInv, TypeOK, SchemaIsRecorded, HolderInv, ProgressInv, At, vars
  <2> QED
    BY <2>1, StepInv DEF Next
<1> QED
  BY InitInv, <1>1, PTL DEF Spec

\* Every reachable state is well typed, and only the holder of the lock migrates.
THEOREM TypeCorrect == Spec => []TypeOK
  BY Invariant, PTL DEF IInv

\* schema_migrations names exactly the files that took effect, in order, under every fault.
THEOREM SchemaRecorded == Spec => []SchemaIsRecorded
  BY Invariant, PTL DEF IInv

\* No start fails because another one migrates.
THEOREM NoCollision == Spec => []MigrationsDoNotCollide
<1>1. IInv => MigrationsDoNotCollide
  BY DEF IInv, HolderInv, MigrationsDoNotCollide
<1> QED
  BY <1>1, Invariant, PTL

\* A listening server has its migrations and its environment.
THEOREM OwnSchema == Spec => []ListensOnItsOwn
<1>1. IInv => ListensOnItsOwn
  BY DEF IInv, ProgressInv, ListensOnItsOwn, At
<1> QED
  BY <1>1, Invariant, PTL

\* No start replaces the default environment.
THEOREM EnvironmentFixed == Spec => EnvironmentIsFixed
<1>1. [Next]_vars => [environment # None => environment' = environment]_environment
  BY DEF Next, Proceeds, Start, TakeLock, ReadApplied, Execute, Commit, Unlock, ReadEnvironment,
         InsertEnvironment, Listen, SqlFails, Crash, Shutdown, vars
<1> QED
  BY <1>1, PTL DEF Spec, EnvironmentIsFixed
=============================================================================
