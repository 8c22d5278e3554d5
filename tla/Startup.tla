------------------------------ MODULE Startup ------------------------------
(***************************************************************************)
(* Several server processes that start against one database: the schema      *)
(* migrations under an advisory lock, then the seed of the one default       *)
(* environment, which no lock protects, then reconciliation and listening.   *)
(* A process that fails on the way exits, and the platform starts it again,  *)
(* though not for ever: it restarts on failure only, MaxRetries times.       *)
(*                                                                           *)
(* Servers may be of different releases: a release brings its own migration  *)
(* files, which only ever grow at the end, and its own configuration hash.   *)
(***************************************************************************)
EXTENDS Naturals, Sequences

CONSTANTS Servers,
          LastFile,    \* of each server's release: its migrations are 1..LastFile[s]
          Hash,        \* of each server's environment configuration
          None,        \* no holder of the lock, no default environment
          MaxRetries,  \* how often the platform restarts a failing server (railway.json: 3)
          FaultKinds,  \* the faults of this environment
          MaxFaults    \* how many faults there may be

ASSUME NoneAssumption  == None \notin Servers /\ \A s \in Servers : Hash[s] # None
ASSUME FileAssumption  == LastFile \in [Servers -> Nat]
ASSUME FaultAssumption == MaxRetries \in Nat /\ MaxFaults \in Nat

VARIABLES lock,         \* who holds the advisory lock
          recorded,     \* the rows of schema_migrations
          schema,       \* the migrations whose SQL has taken effect, in order
          environment,  \* the hash of the default environment
          servers,      \* where each process is, the names it read, its open transaction
          starts,       \* how often each has been started
          faults        \* faults so far

vars == <<lock, recorded, schema, environment, servers, starts, faults>>

NoFile == 0
Process(pc, applied, txn) == [pc |-> pc, applied |-> applied, txn |-> txn]
Down == Process("down", {}, NoFile)

\* An exit, with what made it: a name already recorded, a failing statement, the environment.
Exit(why) == Process(why, {}, NoFile)
Stopped == Process("stopped", {}, NoFile)
Exited == {"collision", "sql_error", "seed_race", "other_environment"}

Init ==
  /\ lock = None
  /\ recorded = {}
  /\ schema = <<>>
  /\ environment = None
  /\ servers = [s \in Servers |-> Down]
  /\ starts = [s \in Servers |-> 0]
  /\ faults = 0

\* Another fault happens, if this environment still has one to give.
Fault(kind) ==
  /\ kind \in FaultKinds
  /\ faults < MaxFaults
  /\ faults' = faults + 1

At(s, pc) == servers[s].pc = pc
Becomes(s, process) == servers' = [servers EXCEPT ![s] = process]
Goes(s, pc) == Becomes(s, [servers[s] EXCEPT !.pc = pc])

\* pg_advisory_unlock, and what the database does when the session that holds it ends.
Released(s) == IF lock = s THEN None ELSE lock

\* Restart policy ON_FAILURE: the first start, and so many more after a failing end.
StartsLeft(s) == starts[s] <= MaxRetries

Start(s) ==
  /\ servers[s].pc \in {"down"} \cup Exited
  /\ StartsLeft(s)
  /\ starts' = [starts EXCEPT ![s] = @ + 1]
  /\ Becomes(s, Process("lock", {}, NoFile))
  /\ UNCHANGED <<lock, recorded, schema, environment, faults>>

\* Mutant: no lock is taken.
TakeLockFreely(s) ==
  /\ At(s, "lock")
  /\ lock' = s
  /\ Goes(s, "read")
  /\ UNCHANGED <<recorded, schema, environment, faults, starts>>

TakeLock(s) ==
  /\ At(s, "lock") /\ lock = None
  /\ lock' = s
  /\ Goes(s, "read")
  /\ UNCHANGED <<recorded, schema, environment, faults, starts>>

ReadApplied(s) ==
  /\ At(s, "read")
  /\ Becomes(s, Process("apply", recorded, NoFile))
  /\ UNCHANGED <<lock, recorded, schema, environment, faults, starts>>

ToApply(s) == (1..LastFile[s]) \ servers[s].applied

\* Mutant: the directory is read unsorted.
NextFiles(s) == ToApply(s)

NextFile(s) == {f \in ToApply(s) : \A g \in ToApply(s) : f <= g}

\* BEGIN and the SQL of the file; nothing of it shows before the COMMIT.
Execute(s) ==
  /\ At(s, "apply")
  /\ \E f \in NextFile(s) : Becomes(s, Process("commit", servers[s].applied, f))
  /\ UNCHANGED <<lock, recorded, schema, environment, faults, starts>>

\* The INSERT of the name and the COMMIT; the primary key refuses a name that another
\* process has recorded in between.
Commit(s) ==
  /\ At(s, "commit")
  /\ LET f == servers[s].txn
         new == f \notin recorded
     IN /\ recorded' = recorded \cup {f}
        /\ schema' = IF new THEN Append(schema, f) ELSE schema
        /\ Becomes(s, IF new THEN Process("apply", servers[s].applied \cup {f}, NoFile)
                      ELSE Exit("collision"))
        /\ lock' = IF new THEN lock ELSE Released(s)
  /\ UNCHANGED <<environment, faults, starts>>

\* A statement of the file fails, or the connection does: ROLLBACK, unlock, exit.
SqlFails(s) ==
  /\ At(s, "commit")
  /\ Fault("sql_error")
  /\ lock' = Released(s)
  /\ Becomes(s, Exit("sql_error"))
  /\ UNCHANGED <<recorded, schema, environment, starts>>

Unlock(s) ==
  /\ At(s, "apply") /\ ToApply(s) = {}
  /\ lock' = Released(s)
  /\ Becomes(s, Process("seed", {}, NoFile))
  /\ UNCHANGED <<recorded, schema, environment, faults, starts>>

\* Mutant: an environment that is there is taken without comparing the hash.
SeedFoundAny(s) == environment # None

SeedFound(s) == environment = Hash[s]

\* Mutant: the INSERT is tried without looking first.
ReadEnvironmentSkipped(s) ==
  /\ At(s, "seed")
  /\ Goes(s, "insert")
  /\ UNCHANGED <<lock, recorded, schema, environment, faults, starts>>

ReadEnvironment(s) ==
  /\ At(s, "seed")
  /\ \/ SeedFound(s) /\ Goes(s, "reconcile")
     \/ environment = None /\ Goes(s, "insert")
     \/ environment # None /\ ~SeedFound(s) /\ Becomes(s, Exit("other_environment"))
  /\ UNCHANGED <<lock, recorded, schema, environment, faults, starts>>

\* Mutant: an upsert in place of the INSERT that the index on is_default may refuse.
InsertEnvironmentOver(s) ==
  /\ At(s, "insert")
  /\ environment' = Hash[s]
  /\ Goes(s, "reconcile")
  /\ UNCHANGED <<lock, recorded, schema, faults, starts>>

InsertEnvironment(s) ==
  /\ At(s, "insert")
  /\ \/ environment = None /\ environment' = Hash[s] /\ Goes(s, "reconcile")
     \/ environment # None /\ UNCHANGED environment /\ Becomes(s, Exit("seed_race"))
  /\ UNCHANGED <<lock, recorded, schema, faults, starts>>

Listen(s) ==
  /\ At(s, "reconcile")
  /\ Goes(s, "listening")
  /\ UNCHANGED <<lock, recorded, schema, environment, faults, starts>>

\* The process dies; its transaction is rolled back and its lock released.
Crash(s) ==
  /\ servers[s].pc \notin {"down", "stopped"} \cup Exited
  /\ Fault("crash")
  /\ Becomes(s, Down)
  /\ lock' = Released(s)
  /\ UNCHANGED <<recorded, schema, environment, starts>>

\* SIGTERM or SIGINT, which nobody sends to a server that is to go on: it ends and stays down.
Shutdown(s) ==
  /\ ~At(s, "stopped")
  /\ Becomes(s, Stopped)
  /\ lock' = Released(s)
  /\ UNCHANGED <<recorded, schema, environment, starts, faults>>

Proceeds(s) ==
  \/ Start(s) \/ TakeLock(s) \/ ReadApplied(s) \/ Execute(s) \/ Commit(s) \/ Unlock(s)
  \/ ReadEnvironment(s) \/ InsertEnvironment(s) \/ Listen(s)

Next == \E s \in Servers : Proceeds(s) \/ SqlFails(s) \/ Crash(s) \/ Shutdown(s)

Spec == Init /\ [][Next]_vars

\* The platform restarts what failed, as long as it has retries left for it, the database
\* answers, and who waits for a lock that stays free gets it.
Fairness == \A s \in Servers : WF_vars(Proceeds(s))

FairSpec == Spec /\ Fairness
=============================================================================
