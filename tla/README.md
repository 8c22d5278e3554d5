# Verification of starfolk-mini (sfkm)

sfkm gives a developer a remote devbox: `sfkm` (the CLI) asks a backend server for an EC2
instance with a repository checked out at one commit, and starts coding agents on it in tmux
sessions. This directory holds TLA+ modules of the parts whose correctness depends on order,
concurrency and failure, the TLC configurations that check them on small instances, and proofs
for every instance.

## The system

| Part | State it keeps | Operations | Talks to |
|---|---|---|---|
| Shared contract (`packages/contracts`) | none | status enums, transition tables, schemas | everyone |
| Backend devbox lifecycle (`apps/server/src/service.ts`, `db/postgres.ts`) | table `devboxes` | create, delete, bootstrap callback, startup reconciliation, SSH authorization | Postgres, EC2 |
| Backend sessions (same files) | table `sessions`, row locks | create, status callback, expiry, failing on deletion | Postgres |
| EC2 provider (`apps/server/src/aws`) | none (polls) | launch, terminate and wait, describe, send a key | EC2, EC2 Instance Connect |
| Runtime bootstrap (`apps/devbox-runtime/src/bootstrap.ts`) | repository directory | clone the exact commit, run setup, one callback | git, backend |
| Runtime sessions (`apps/devbox-runtime/src/sessions`) | a directory per session, a tmux session, an agent process | start, supervise, inspect, attach | tmux, agent, backend |
| CLI (`apps/cli/src`) | a temporary SSH key | create, delete, ssh, session start/connect, polling | backend, runtime over SSH |
| Migrations and environment seed (`apps/server/src/db/migrations.ts`, `seedDefaultEnvironment`) | schema, one default environment | run by every server before it listens | Postgres |
| HTTP layer, configuration, git preflight, installer, spike scripts | none, or read-only | | |

The parts meet in four places. The CLI calls the backend over HTTP with an idempotency key and
may repeat any call. The backend calls EC2 in the middle of a request, between two statements
of SQL. The instance and the supervisor call back, once each, over HTTP. And the server
process, of which the platform runs one replica, may die at any await and starts again with
`reconcileStartup` before it listens.

### What is hard in it

* **Interleaving.** Node runs one handler at a time but lets others in at every `await`. No
  request takes a lock across an EC2 call, so a delete can run while a launch is in progress.
  What holds the system together are the conditions inside single SQL statements.
* **Stale reads.** Handlers read a status, await, and write. The write is an UPDATE with the
  old status in its WHERE clause, and each WHERE clause has to be the right one.
* **Failure.** EC2 may refuse, launch without answering, or fail to terminate; callbacks are
  posted once and never retried; the process may die between any two steps.
* **Replays.** A create may be repeated by the client, by a concurrent request, and by startup
  reconciliation. The EC2 client token in the row makes the launch idempotent.
* **Deadlines.** Bootstrap and session deadlines are enforced when the server starts and when
  a callback arrives, never by a timer. Calls to EC2, callbacks and API requests time out, while
  what they asked for may still happen.
* **Outside events.** EC2 shows instances late and ends them slowly, the remote branch moves after
  it was checked, tmux and agents die, and signals hit the CLI at any step.

`PROJECT.json` lists each hazard at its line, with the properties aimed at it.

### What makes each part correct

* Devboxes: at most one instance per devbox; no instance outlives its devbox; a deletion begun
  is finished; statuses move only along the contract's table.
* Sessions: created only on a READY devbox, never active on a deleted one; a terminal status is
  final and says what happened; an agent that ended is reported.
* Provider: `terminateDevbox` returns only when the instance and its volumes are gone; bootstrap
  reports READY only of the requested commit, once.
* Runtime: at most one agent per session; an inspection never reports a finished session as
  running, nor a live one as lost; the final state is on disk before it is announced.
* CLI: no devbox and no session exists that its user was neither shown nor told to have failed;
  the private key does not outlive the command; what a command tells its user is so and stays so.
* Migrations: each applied once, in order, whichever servers start together.

## Modules

| Module | What it is |
|---|---|
| `Contracts` | status values and transition tables of `packages/contracts/src/states.ts` |
| `StatusMachine` | abstract specification: an item appears with its first status and then moves along a table |
| `Devboxes` | the devbox lifecycle: table, handlers, EC2, bootstrap, deadline, crash and restart |
| `Sessions` | the session table: creating transaction, lock, callbacks, deadline, deletion of the devbox |
| `DevboxRuntime` | one session on its devbox: starts, supervisor, agent, files, tmux, inspections |
| `AgentReports` | abstract specification: what the backend may assume of an agent and its reports |
| `Instance` | one EC2 instance: EC2, the calls of `terminateDevbox`, user data and bootstrap |
| `InstanceLife` | abstract specification: the instance as `Devboxes` sees it |
| `Startup` | servers that migrate, seed the environment and listen |
| `CliDevboxes` | `devbox create` and `devbox delete`, composed with `Devboxes` |
| `CliSessions` | `session start`, `session connect` and `devbox ssh`, composed with `Sessions` |
| `EndToEnd` | one session from its devbox to its row: `DevboxRuntime`, the callbacks, `Sessions` |

Each of `Devboxes`, `Sessions`, `DevboxRuntime`, `Instance`, `Startup`, `CliDevboxes`,
`CliSessions` and `EndToEnd` has its type invariant and properties in `...Properties`, its theorems in
`...Proofs` and its instances for TLC in `MC...`.

What composes with what: `CliDevboxes` EXTENDS `Devboxes`, `CliSessions` EXTENDS `Sessions`, and
every step of the composition is a step of the backend's module or leaves its variables alone
(`BackendImplemented`). `Devboxes` and `Sessions` implement `StatusMachine`, `Instance` implements
`InstanceLife`, which is what `Devboxes` assumes of an instance, and `DevboxRuntime` implements
`AgentReports`, which is what `Sessions` assumes of an agent. `EndToEnd` puts the two together: it
INSTANCEs both, joins them by the HTTP exchange, and implements `Sessions` with the real devbox for
its agent (`BackendImplemented` there).

### Devboxes

`rows` is the table, keyed by idempotency key; of a row the model keeps the status, the EC2
client token, the instance id and whether the bootstrap deadline has passed. `ec2` maps a
client token to the instance EC2 holds under it: one token, one instance, which is EC2's own
promise. An instance is named by its token, boots once, and is terminated in one step: `Instance`
has the steps behind that. `terminateDevbox` has two ways to succeed: `TerminateDevbox` ends the instance,
and `InstanceNotShown` finds nothing, since EC2 does not show yet what it has just launched, and leaves it
alone. The caller cannot tell them apart (`AfterTerminate`) and marks the row DELETED.

`handlers` holds the requests in progress. A handler is what the code is between two awaits:
the next step (`pc`), the devbox, and the value it carries over the await (client token,
instance id, status). Every step of a handler is one action: `CreateDevbox` (insert or find the
row), `LaunchDevbox` / `LaunchRefused` / `LaunchAnswerLost`, `ReadAfterFailedLaunch` and
`ApplyTransition` (the catch block), `SaveLaunch` with `AfterSave` (what it does with the row
the UPDATE returned), `DeleteDevbox`, `TerminateDevbox` / `InstanceNotShown` / `TerminateFailed`, `MarkDeleted`,
`UpdateDevboxStatus`. One SQL statement is one atomic step; a statement followed by a plain read
of the same row (`INSERT ... ON CONFLICT DO NOTHING` then `SELECT`) is atomic at the read,
because rows are never removed and the failed first statement changes nothing.

`phase` and `queue` are the process: `Crash` drops everything in progress; `Restart` expires
and lists; `ReconcileNext` takes one record and runs the same handler steps; `Listen` opens for
requests when the list is empty. `inflight` holds bootstrap callbacks, in no order.

### Sessions

`sessions` is the table; `devboxes` keeps the status of each devbox row only. The creating
transaction is two steps around the lock: `LockDevbox` (the `SELECT ... FOR SHARE`, which rolls
back unless READY) and `InsertSession` (insert, `ON CONFLICT DO NOTHING`, commit). A handler
between them holds the row's share lock (`ShareLocked`), and the UPDATEs of that row wait:
`DeleteDevbox`, `MarkDevboxDeleted`. `MarkDevboxDeleted` is one step because it is one transaction that
holds the row exclusively from its first statement. The insertion and the commit are one step
because an uncommitted row is invisible and a rival insert of the same key waits for it. Startup
reconciliation of a DELETING devbox is the same two steps as a repeated DELETE.

`agents` is what the supervisor on the devbox has done: nothing, started, ended. It posts
RUNNING and then the outcome; the RUNNING post gives up after 15 seconds while the request may
still be on its way, so the two callbacks may be handled in either order, and together.

### DevboxRuntime

`files` is the session directory, each file as its reader takes it (a missing, empty or invalid
one is "absent"; `state` is the status in `state.json`, which a rename replaces in one step).
`tmux`, `agent` and `transport` (the pipe the prompt goes through) are what the operating system
holds. `starters` are the `session start` processes and `supervisor` the process tmux runs; both
are a program counter between two awaits, and each file operation, tmux command and callback is
a step of its own. `posted` is what the backend has received.

* `StartSession`, `MakeDirectory`, `WriteFiles`, `LaunchSupervisor` / `LaunchRefused`, then
  `CleanUp` and `PostStartFailed` (the catch block): `sessions/manager.ts`.
* `CheckSession`, `ReadToken`, `SpawnAgent` / `SpawnFails`, `RecordStart` / `RecordStartFails`,
  `AnnounceRunning`, `PromptSent` / `PipeBreaks`, `AgentReturns`, `FinishSession`,
  `PostOutcome`: `sessions/supervisor.ts` and the agent runner in `processes.ts`.
* `Read` and `Report`: `inspectSession`. The directory and tmux are read first, in either order,
  then the three files in any order (the two `Promise.all`). The inspection a start ends with
  is an inspector, too, and `attachSession` is one before and one after tmux's own attach.
* `StartKilled`, `SupervisorKilled`, `TmuxEnds`, `AgentEnds`: the environment. A killed
  supervisor leaves its agent alive; tmux's session ends with the supervisor.

Simplifications. An unwritten token, prompt or state file ends the start as a kill does at that
step, and a failing write inside `finishSession` ends the supervisor likewise: neither has a
handler. The supervisor's reads of the state and of the pid are one step, since only itself
writes the pid and it has read the state when it may. Process ids are not reused. Sessions
have directories of their own and share nothing, so there is one.

`AgentReports` is the seam to `Sessions`: its `agent` and `reports` are what `Sessions` has
as `agents` and the callbacks put `inflight`. `ReportsImplemented` proves that the runtime produces
no reports that `Sessions` does not expect: only what is true and on disk, in order.

### Instance

`instance`, `visible`, `attached` and `disks` are what EC2 holds and shows of one instance and its
volumes: `DescribeInstances` finds it late (`Appears`), it shuts down in two steps (`Terminate`,
`Dies`), its volumes go one by one (`DiskDeleted`), and it is forgotten (`Forgotten`). A shutdown
from inside stops it, since the launch leaves that default. Each of `callers` is a call of
`terminateDevbox`: `DescribeBeforeTerminate` (which returns at once when EC2 finds nothing),
`Terminate`, `PollInstance` and `PollVolumes` with their attempts, `PollsExhausted` and
`CallFailed`, the errors that are rethrown. `boot` is the one run of the user data and of
`bootstrapRepository`: `Prepare`, `Fetch`, `CheckOut`, `RunSetupCommand`, `PostReady` or
`PostFailed`; `branch` is the remote branch, which moves until it is fetched.

`InstanceLife` has one boot with one report at most and one termination. `RefinesLife` is why
`Devboxes` may terminate in one step and bootstrap in one, and why its `InstanceNotShown` is possible only of
an instance that has not booted: one so young that EC2 does not show it is "not found", which
`terminateDevbox` takes for success, and `Answer` of `InstanceLife` says how far this goes. That it never
happens once the instance has booted rests on an assumption about EC2, not on the code: an instance
whose user data runs is shown (`Starts`).

### Startup

`servers` are processes of different releases and configurations. `TakeLock`, `ReadApplied`,
`Execute`, `Commit`, `Unlock` are `runMigrations` with its advisory lock; a file's SQL and its name
are one transaction. `ReadEnvironment` and `InsertEnvironment` are the two statements of
`seedDefaultEnvironment`, which no lock covers; the unique index on `is_default` refuses the second
insert. An `Exit` or a `Crash` ends the process, and the platform starts it again: `railway.json` says
`ON_FAILURE` with three retries, hence `starts` and `StartsLeft`, after which the server stays down.
`Shutdown` is SIGTERM or SIGINT: a clean end that nobody restarts. The releases' migrations
only grow at the end: a release that inserted a file before applied ones would get it applied out
of order, and nothing in the code forbids that.

### CliDevboxes

`cli` is where each command is. A request occupies a handler of `Devboxes` (`SendCreate`,
`SendDelete`); what the handler leaves in the row is its answer (`Answered`), and an exception is a
5xx (`HandlerThrows`). `RequestLost` is a failure of the transport at any time, in particular the
30 seconds after which the CLI gives up on a request that is still worked on: a retry then overtakes it
(`RetryOrGiveUp`). The body of an answer is read outside the `try`, so `BodyLost` ends the command.
`Look`, `Fetch` and `PollTimeout` are `pollDevbox`; it looks, waits and fetches, so what the last
fetch brought is not looked at. `printed` are the ids the user has seen, `told` the last word.

### CliSessions

`SendCreate` to `PrintSession` are `POST /sessions` with its retries and the printing of the id;
`GetSession` is where `session connect` begins; `BeginShell` is `devbox ssh`. `MakeDirectory`,
`AddHandlers`, `WriteKey`, `KeygenEnds`, `RemoveHandlers`, `RemoveDirectory` are
`withTemporarySshIdentity`, and `Signal` or `Killed` may come between any two of them.
`Authorize` is one read of READY: the two calls to AWS behind it fail (`CallFails`) or change nothing
the model has. `RemoteStart` is what `DevboxRuntime` does in many steps, as the backend sees it
(`AgentReports`): the agent starts, or cannot; it may come after its command was killed.
`Inspected` is what `session inspect` finds, `Reply` what start and connect make of it,
`SshFails` a broken connection or an attach to an agent that has ended in between. `lost` agents
are gone without an outcome. A connect that looks before the start has reached the devbox finds
MISSING and tells "not recoverable".

### EndToEnd

`Runtime` is `DevboxRuntime` for one session, `Session`; `Backend` is `Sessions`, with `agents` mapped to
the session's state file and `inflight` to what is on the network or recorded and not yet sent. A
process on the devbox that waits for an answer (`Posting`) has its request sent (`SendCallback`), and
`DevboxStep` lets it go on: with a success only if the backend has answered the status with one
(`posted' \subseteq accepted`), with an error at any time, the timeout of 15 seconds included. The
handler answers with a success when it receives a callback for a terminal row (`ReceiveCallback`), or with its
UPDATE, whatever that matched (`AnswerCallback`); it answers 401 to one past the deadline.
`LoseCallback` is a request that never arrives. `BackendStep` is every other step of the server, and
`OtherAgent` the agents of the other sessions, which keep the form that `Sessions` gives them.

`recorded` is a history variable: the refinement needs to know what the state file has held. Two
simplifications allow more than the code does. Answers are kept by status and not by request, so a
failing start could believe the answer given to the supervisor. And the devbox goes on after
its deletion, as if EC2 never ended it.

## Runs

| Run | Instance | What it shows |
|---|---|---|
| `devboxes` | 1 devbox, 2 tokens, 3 requests, all faults, an instance not shown among them, 2 of them, fairness | types; `OneInstancePerDevbox`; `NoOrphanInstance`; `RefinesContract`; `SavedInstanceIsTerminated`; `DeletionCompletes`; `LaunchSettles` |
| `devboxes_interrupted` | 1 devbox, 1 token, 2 requests, 1 crash | a finding: `DeletedLeavesNothingRunning` is violated |
| `cli_devboxes` | 1 create with 3 attempts, 1 delete, 2 polls, 2 requests, any 1 fault, 1 loss, fairness | `DevboxesAreKnown`; `VerdictsStand`; `CreateLearnsItsDevbox`; `CommandsEnd` |
| `sessions` | 1 key, 2 devboxes, 3 requests, any 1 fault, fairness | types; `NoActiveSessionOnDeletedDevbox`; `OutcomeIsExplained`; `RefinesContract`; `CreatedOnReadyDevbox`; `OutcomeIsReported` |
| `sessions_nonfatal` | 1 key, 1 devbox, 2 requests, lost RUNNING callback and crash | a finding: `RunningFailureIsNonfatal` is violated |
| `cli_sessions` | 1 start with 2 attempts, 1 connect or shell, 1 devbox, 1 request, any 1 fault, 1 loss, signals | `KeysAreRemoved`; `SessionsAreKnown`; `VerdictsAgree` |
| `runtime` | 2 starts, 1 inspection, any 1 fault, fairness | types; `AtMostOneAgent`; `FinishedIsReported`; `ReportsStand`; `LostIsLost`; `EndIsRecorded`; `StartSettles` |
| `runtime_lost` | 1 start, 1 inspection, no fault | a finding: `UnrecoverableIsUnattachable` is violated |
| `runtime_crash` | 1 start, a spawn that fails | a finding: `SupervisorLeavesOutcome` is violated |
| `instance` | 2 calls, 2 volumes, 2 commits, 2 polls, all faults, 2 of them, fairness | `SeenVolumeIsGone`; `ReadyIsEarned`; `RefinesLife`; `CallEnds`; `AwaitedIsTerminated` |
| `startup` | 3 servers, 3 releases, 2 configurations, 3 retries each, failing SQL and crashes, 3 of them, shutdowns, fairness | `SchemaIsRecorded`; `MigrationsDoNotCollide`; `ListensOnItsOwn`; `EnvironmentIsFixed`; `MatchingServersListen` |
| `end_to_end` | 2 sessions, 1 devbox, 1 request, 1 start, 1 fault on either side | `RowIsEarned`; `TokenGoneRowFinal`; `BackendImplemented` |

Bounds. `MaxFaults` bounds the faults of a run, `MaxLosses` the requests, answers and connections
that get lost, and `Attempts` and `PollAttempts` are the code's own limits (3 and 900, or 120 in the
provider); nothing else grows. Devboxes and keys do not share rows, and the theorems cover any
number of them, so the runs spend their states on concurrency: three requests for one devbox are
a launch against a delete against a replay or a callback. Tokens, and keys of the CLI, exceed what
the code uses by one so that a launch or a retry under a wrong one can happen. Two polls are one
that is too early and one that may be in time. In `cli_devboxes` two requests at once let a retry
overtake the attempt that timed out. In `cli_sessions` one request is served at a time, which leaves
that overtaking to the theorems and to `sessions`; there the cast is two commands and an agent.
In the runtime two starts are one that owns the directory and one that finds it, or comes when tmux is
there or gone again, and one fault already lets a start be lost, refused or misled while the other is at
work. What needs a second fault, and a second inspection to contradict the first, is left to the
theorems, which cover every number of each. Two calls of `terminateDevbox` are the delete and the create that lost to it. Three
servers are two that may share a configuration and one that does not, each with a migration more
than the one before; three faults and three retries let a server use its retries
up. End to end one start is enough for each kind of poster, since the directory admits no second; the second session is there for the refinement, whose agents are then of two kinds. The run
leaves out a lost answer of tmux, under which `BackendImplemented` is false, and a failed terminate, which says
nothing of sessions. Deadlock is checked where the system goes on for
ever (`devboxes`, `sessions`); commands end, sessions end, an instance ends, and servers listen, are stopped or
are given up, so it is not checked elsewhere.

### Fairness

Weak fairness of every handler's step: the database answers or fails, and every AWS call and
every poll loop of the provider is bounded (`CallEnds` shows the loops end). Weak fairness of
startup: the platform restarts a dead server three times (`railway.json`), which is more often than the runs
with fairness let it die (two faults in `devboxes`, one in `sessions` and `cli_devboxes`), and
`reconcileStartup` works through its list, swallowing errors. In Sessions a callback in flight is received in the end (strong
fairness, since the bound on `Handlers`, which the server does not have, could make it wait).
Nothing is assumed of users, of deadlines being noticed, or of a crash ever happening:
`LaunchSettles` and `DeletionCompletes` hold because a handler finishes unless a crash drops it, and
a crash is followed by a restart. `EndToEnd` states no fairness. In the runtime the supervisor's step and each start's step are
weakly fair: file operations end and a callback times out after 15 seconds. An agent may run for ever,
and nobody has to start or inspect anything.

In `CliDevboxes` a command's own step is weakly fair: the process runs, and its request times out.
In `Startup` a step of a process is weakly fair, a restart included as long as the platform has one left for it;
failures, crashes and shutdowns are not. No strong fairness is needed for the advisory lock: restarts are
bounded, so a process that keeps failing on its migrations cannot starve the others. `MatchingServersListen`
therefore says what three retries are good for: a server that matches the environment listens unless
it was stopped or there have been as many faults as retries. The bound is tight: a server that loses the seed
race and then fails three times has used its retries up, and TLC refutes the property with one fault more in
its last disjunct. In `Instance` a call's step and
`Dies` are weakly fair; EC2 need not delete volumes or forget anything, and the bootstrap need
not get anywhere. `CliSessions` states no fairness and claims no liveness: ssh runs without a
timeout (`process-runner.ts:30`), so a dead connection may hold its command, and the key, for ever.

### The four findings

`devboxes_interrupted`: create (row PROVISIONING), launch in progress; delete (no instance id
yet, so DELETED at once); the launch returns and is saved into the DELETED row; the process dies
before `terminateDevbox`. Restart lists PROVISIONING and DELETING rows only, and a repeated
DELETE returns early: the instance runs for good. The row still carries its instance id, so
listing DELETED rows whose termination is not confirmed would close the gap. Without a crash, a lost answer
of EC2, and a terminate that failed or did not find an instance EC2 does not show yet, nothing is left
running: `NothingRunsWhenCalm`.

`sessions_nonfatal`: the supervisor treats a failed RUNNING callback as harmless. The session
then stays STARTING; past its deadline, the next restart makes it FAILED while its agent is
running, and the agent's real outcome is ignored when it comes. A server that never restarts
does not do this: `NonfatalWithoutCrash`.

`runtime_lost`: an inspection looks at tmux, finds no session, and is overtaken by the start it
overlaps: the supervisor is launched and an agent runs. The state it reads is missing or RUNNING,
and without tmux that is UNRECOVERABLE. Nothing is lost, and a second inspection says so, but the
CLI tells its user that the agent "is missing or cannot be recovered". `LostIsLost` shows that
this ends with the launch of the supervisor: inspections that begin later are right.

`runtime_crash`: when the agent cannot be spawned, the error event rejects a promise nobody
handles yet and Node ends the supervisor before it has recorded the failure. A pipe to the agent
that breaks while the agent is awaited ends the supervisor in the same way (`PipeBreaks`). The
session stays as it was on disk, and the backend hears nothing. These two errors are the only ones, if
no answer of tmux is lost: `OutcomeUnlessCrashed`.

## Theorems

All are proved by `tlapm` for any number of devboxes, tokens, sessions, requests, commands, calls,
servers and faults, from the assumptions named in the modules: `None` is not one of the other values,
fault kinds are known ones, bounds are numbers, commands draw known keys, the
wanted commit is a commit, and a release has a number of migrations.

`DevboxProofs`:

* `TypeCorrect`. The type invariant is inductive. It includes the facts that a dead process has
  nothing in progress and that the list is empty outside reconciliation.
* `AtMostOneInstance`. The claim says nothing of handlers, so a step that launches could break
  it. The invariant `NameInv` adds whose token each handler carries: a row's token belongs to
  no other row, a handler about to launch, save or terminate carries the token of its row, and
  what EC2 holds under a token it holds for that row's devbox.
* `ContractRefined`. Every step moves every status along the table or leaves it. It rests on the
  WHERE clauses, not on the reads that came before them.
* `DeletedIsTerminated` (`NoOrphanInstance`). The claim is about behaviours without a lost EC2 answer,
  a terminate that failed or missed a young instance, or a crash so far (`Calm`), and is not inductive: a delete that read an empty
  instance id is about to mark the row DELETED. The invariant `OrphanInv` adds that a running instance
  is in its row or about to be saved (`RunningIsKnown`), that whoever is about to mark leaves behind
  someone about to terminate (`MarkingIsSafe`), and that only rows in deletion are marked
  (`DeletionBegun`). Once `Calm` is false it stays false, so `Calm => OrphanInv` is inductive.
* `SavedIsTerminated` (`SavedInstanceIsTerminated`), under every fault. The property says of each moment at
  which an instance that has booted is on record (`BootedOnRecord`) that it is terminated before its row
  reads DELETED. Without "booted" it is false: a DELETE right after the launch was saved may not find the
  instance. `Kept` is what such a moment begins and no step ends: the id stays in the row, the
  instance does not go back to booting (`BootedForGood`), and neither the row nor a handler about to mark it
  is past the termination. A handler comes to mark by terminating what the row names, by not finding it, or by
  reading a row without an id (`HowToMark`); the second needs an instance that has not booted, and in the
  third the row is another's.
* `NothingRunsWhenCalm`, the boundary of the first finding, follows from `NoOrphanInstance`. Each of the four faults
  that `Calm` excludes breaks it.

`SessionProofs` has one lemma at its heart, `OnlyThese`: in a step a session is created, expired,
failed by a deletion, called back or marked overdue, and nothing else. It needs the invariant
`SessionInv`: a locked devbox stays READY (`Locked`), an outcome on its way is the agent's
(`Truthful`), an existing session has a devbox (`Placed`). From it follow `DeletedHasNoActive`,
`CreatedOnReady`, `OutcomeExplained` and `ContractRefined`. `NonfatalWithoutCrash` is the boundary of the
second finding: expiry happens only in a restart, so without a crash a FAILED row has a
failed agent or a deleted devbox (`NeverRestarted`).

`RuntimeProofs`, for any number of starts, inspections and faults:

* `OneAgent`, `TokenRetained`, `TrueFiles` hold under every fault. They follow from `RuntimeInv`:
  at most one start is between its `mkdir` and its end, and until it launches nobody else has
  done anything (`Locked`); the files are as far as it is (`Written`); and what the supervisor
  knows of the agent is so (`Supervised`). "One agent" alone is not inductive: that a supervisor
  which has not spawned yet is the first one is a fact about the directory.
* `ReturnLeavesOutcome` (`ExitLeavesOutcome`), under every fault as well. A supervisor returns early when it
  finds no STARTING or no token, and both mean that a start has failed the session: `Leaving`
  follows the state and the token through start, check and clean-up, also while the two overlap.
* `LostIsTrue`, `OutcomeIsReported`, `ReportsAreFinal` hold as long as tmux is to be believed
  (`TmuxBelieved`): a start whose `tmux new-session` failed has no supervisor. Once that answer is wrong a
  start cleans up under a live supervisor and FAILED is reported of an agent that runs. `supervisor.answer`
  is the history variable that says so, and it never goes back (`LostForGood`), hence
  `TmuxBelieved => InspectionInv` is inductive and nothing is assumed of the environment. `ReportsImplemented` is a
  claim about whole behaviours and assumes `TmuxIsTrue`, that no answer of tmux is lost at all.
  `Ordered` says which state file each step finds. `Sighted` relates what an inspection has read to what is there: once it has seen no tmux
  under a started session, the supervisor is over and the files stay as they are. `Steady` is
  all that an inspection relies on while others act; every step of theirs keeps it
  (`OthersAreSteady`), so the interleavings need no case analysis. `ReportsAreFinal` (`ReportsStand`)
  needs that an exit code and an outcome on disk never contradict each other (`ExitAgrees`, `OutcomeIsTold`),
  since one inspection may have read the one and the next the other.
* `OutcomeUnlessCrashed`, the boundary of the fourth finding: without a failed spawn and a pipe broken from
  outside no supervisor crashes, since its prompt is still there when it reads it (`PromptKept`). TLC
  refutes it with either fault alone, and with a lost answer of tmux alone.

`InstanceProofs`: `SuccessIsTrue`, `VolumesAwaited`, `ReadyEarned`, `LifeImplemented`. "Done" is true
because a call gets past its first poll only when EC2 has shown it the end (`CallerInv`), and an end is
final; READY is earned because the bootstrap reaches its report only by way of the checkout and the
setup and has posted nothing before (`BootInv`). For the refinement each step is a boot, a
termination, an answer or a stutter; "not found" needs the fact, part of the type invariant, that
only a pending instance is invisible.

`StartupProofs`: `SchemaRecorded`, `NoCollision`, `OwnSchema`, `EnvironmentFixed`. Mutual exclusion is
part of the type invariant. `HolderInv` adds that the lock's holder works from exactly the names that
are recorded and on the first file after them, `ProgressInv` what a start has behind it at the seed.

`CliDevboxProofs` and `CliSessionProofs`:

* `BackendImplemented`, `CliSpec => Spec`: the commands only make the requests that the backend's
  module lets anyone make. Every theorem about `Devboxes` and `Sessions` therefore holds of the
  composition, and is used there.
* `DevboxKnown`, `VerdictsTrue` (`VerdictsStand`). `InOrder`, part of the type invariant, says what a
  command has in its hands at each step; `HeardStands` that the status a command heard last can
  only have moved on along the contract, for which each backend step is taken through
  `ContractRefined`'s lemma.
* `KeysRemoved`, `SessionsKnown`, `VerdictsTrue` (`VerdictsAgree`). `CliInv` says what holds of a
  command at each of its steps (`As`), and that a session in the table, or one that a handler may still
  insert (`Reserved`), is printed or some command's to answer for (`Known`).

`EndToEndProofs` puts the two halves together, for any number of sessions, requests, starts and faults. A
step of the whole is a step of `DevboxRuntime` or leaves its variables alone (`DevboxMoves`), so the
theorems of `RuntimeProofs` hold of it (`DevboxImplemented`).

* `TypeCorrect`, with what the exchange guarantees: what is on the network was sent, what a poster believes
  was answered.
* `Earned` (`RowIsEarned`) and `TokenKept` (`TokenGoneRowFinal`) hold under every fault, a lost answer of tmux
  included. The invariant `Wire` follows a status along its way: what is sent is so and stays so (`Honest`, by
  `SpawnedForGood` and `CompletedForGood`), what a handler is about to set and what the row reads was
  sent (`Followed`), and an outcome is answered with a success only for a terminal row (`Answered`),
  although the handler's UPDATE may match nothing.
* `BackendIsImplemented` needs `TmuxIsTrue`; without it TLC finds FAILED reported of an agent that goes on to
  RUNNING, which is no step of `Sessions`. `Logged` says that the statuses recorded are those on
  the way to the one in the file, that only recorded ones are sent, and that no two posters send the
  same one. Hence a sending is nothing to the backend (`SendingIsNothing`) and a recording is a step of
  its agent (`DevboxIsAgent`).
* `RowAndReportAgree` (`RowAgreesWithReport`) is what the two halves say together: `OutcomeExplained` of the
  backend, used through `BackendIsImplemented`, and `ReportsAreFinal` of the devbox. It needs `TmuxIsTrue`
  too, and TLC refutes it without.

Only model-checked. Liveness, which is out of the prover's reach: `DeletionCompletes`,
`LaunchSettles`, `OutcomeIsReported` of the sessions, `EndIsRecorded`, `StartSettles`, `CallEnds`,
`AwaitedIsTerminated`, `MatchingServersListen`, `CreateLearnsItsDevbox`, `CommandsEnd`. Every safety
property of a passing run is stated by a theorem.

Only proved. `TokenOutlivesReport`, `FilesAreTrue` and `ReportsRefined` of the runtime and
`SuccessMeansTerminated` of the provider have no run of their own: the proofs of `TokenGoneRowFinal`,
`RowIsEarned` and `BackendImplemented` use the first three, `RefinesLife` implies the last, and these are run.
`ExitLeavesOutcome` is what is left of the promise that `runtime_crash` refutes. `RowAgreesWithReport` would need an
inspection in the run of the whole, and follows from `OutcomeIsExplained`, `BackendImplemented` and
`ReportsStand`, which are run.

## Not modelled, and why

* Requests answered 404, 401 or 409 without a change: they are stutters of the model, except
  that a rejected callback is consumed. A create whose body differs from its row's is one.
* A call to EC2 that outlives the process that made it, and two server processes that serve requests
  during a deployment (`Startup` has two that start). A dying process finishes no call in the model; the
  client token still allows one instance only, but a late launch could reach a row already deleted,
  which is the first finding in another guise.
* What becomes of an instance that was launched and then missed (`InstanceNotShown`) or never named (`LaunchAnswerLost`)
  under a DELETED row: a later hand exists only in the operator's clean-up script.
* A kill of `devbox create` between its request and the print (`CliSessions` has it for sessions);
  an `rmSync` of the key's directory against an `ssh-keygen` that is still writing, which is taken as atomic; and an agent
  that does not end on the SIGTERM it gets after a failed write (`processes.ts:116`): it is taken to end.
* Failing database queries. A query that fails ends its request like a crash that only that
  request notices.
* Volumes beyond one: a launch asks for one, and `SeenVolumeIsGone` says what the poll means for more.
* The hostname that `authorizeSsh` stores, availability zones, reasons, timestamps, tags, token
  hashes, the body hash: no property depends on them.
* Parsing, schemas and token checks of the HTTP layer, configuration, git preflight, the installer, the
  build, and the AWS scripts: sequential code without state of its own.
* How `RemoteStart` comes about: `CliSessions` takes it in one step, which `ReportsRefined`
  justifies as far as the backend can tell. That a start whose tmux answers with an error can report
  both FAILED and RUNNING is left to `DevboxRuntime` and `EndToEnd`.
* Several sessions with all their processes on one devbox: `EndToEnd` has one of them in full. They share
  nothing there but the machine.

## State of the plan

Done, in this order: `Contracts`, `Devboxes`, `Sessions`, `DevboxRuntime`, `Instance`, `Startup`,
`CliDevboxes`, `CliSessions`, `EndToEnd`, each with properties, runs and theorems. What could follow:
the safety core of the liveness properties (that each step of a call or a command brings its end nearer), failing database
queries and overlapping serving processes in `Devboxes`, and liveness of the CLI's sessions should
its ssh processes get a timeout.
