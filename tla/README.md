# Formal models of the Builra build engines

TLA+ models of the incremental build engine in `src/Core`, of the execution queue
that runs its jobs and of the SQLite database that keeps its results, and of the
next-generation engine, builra3, with its action executor; the TLC configurations
that check them on small instances, and TLAPS proofs of what holds for every
instance.

## The system

| Part | Source | Size (lines) | Here |
| --- | --- | --- | --- |
| Build engine | `Core/lib/Core/BuildEngine.cpp` | 1971 | `BuildEngine` |
| Build database interface | `Core/include/builra/Core/BuildDB.h` | 150 | `ResultStore`; `BuildEngine` (`db`, `txn`) |
| SQLite build database | `Core/lib/Core/SQLiteBuildDB.cpp` | 1006 | `SQLiteBuildDB` |
| Execution queue | `Core/lib/Basic/LaneBasedExecutionQueue.cpp` | 504 | `LaneBasedExecutionQueue` |
| Subprocesses, process groups | `Core/lib/Basic/Subprocess.cpp` | 1398 | `LaneBasedExecutionQueue` (POSIX) |
| builra3 engine | `Core/src/builra3/Engine.cpp` | 1635 | `TaskEngine` |
| builra3 action executor | `Core/src/builra3/ActionExecutor.cpp` | 1417 | `ActionExecutor` |
| both together | | | `Builra3` |
| Rest of builra3: process launching, gRPC client, stores, adaptors | `Core/src/builra3` | 3100 | not modelled |
| Build system: rules, tasks, commands | `Core/lib/BuildSystem/*.cpp` | 7400 | constants of `BuildEngine` |
| Serial queue, dependency file parsers | `Core/lib/Basic`, `Core/lib/Core` | 700 | not modelled |
| Ninja manifests and builds | `Core/lib/Ninja`, `Core/lib/Commands` | 6500 | not modelled |
| Build service, task planning, platforms | `Sources` | 170000 | not modelled |

A client (the build system, the Ninja tool, the C API) gives the engine *rules*,
each with a key, and asks it to build one.  The engine scans what it knows about
the rule from earlier builds, decides whether the rule has to run, starts a
*task* for it if so, hands the task the values of the inputs it requests, and
lets it compute on the execution queue.  Results, with the dependencies that
were requested or discovered, go to the database.  The engine thread runs one
loop over five queues (`executeTasks`); only completions come from other threads.

builra3 is a second engine.  Its clients give it *rule providers*; a build asks for
an *artifact*, and the engine constructs the task of the rule that produces it.  A
task computes in steps: each time it asks for artifacts, rules, actions and
subtasks, gets an ID for each, and returns the IDs it waits for, or its result.
One lane runs the tasks.  Actions and subtasks go to an executor that several
engines share: it runs them on its own lanes, through a remote executor, or as
asynchronous subtasks that call back, and reports each to the engine that submitted
it, on whatever thread it finished.

## Modules

`BuildEngine` models the engine.  Its variables are the engine's fields under
their own names: per rule `state`, `result`, `wasForced` (`RuleInfo`); per task
`taskInfos`, `waitCount`, `requestedBy` (`TaskInfo`); the scan records' lists
`pausedInputRequests` and `deferredScanRequests` (also the ones of `TaskInfo`: a
rule has either a scan record or a task, never both); the queues
`ruleInfosToScan`, `inputRequests`, `finishedInputRequests`, `readyTaskInfos`,
`finishedTaskInfos`; `numOutstandingUnfinishedTasks`, `currentEpoch`,
`buildCancelled`.  `pc` is where the engine thread is in the loop; `executing`
and `notifying` are the workers inside a task and between the unlock and the
`notify_one()` of `taskIsComplete`; `given` is what a task was provided with.

Each queue item is one action.  Two things are finer or coarser than that:

- `processRuleScanRequest` takes one action per input.  Between two inputs the
  request sits on top of the stack it was popped from; nothing is pushed in
  between, so the next scan step resumes it.
- handing a task to a worker and counting it (`inputsAvailable` and the `++`
  after it) is one action: only the engine thread reads the count.  A task that
  completes inside `inputsAvailable` is one whose worker completes at once.

The client is a set of constants: which inputs a task requests at its start
(`Start`) and on being provided with a value (`React`), what it discovers
(`Discover`), the value it computes from its inputs and the files (`Compute`),
`IsResultValid`, `Signature`.  They depend on a version of the build description
(`prog`), which a new process may change.  `db` and `txn` are the committed
database and the open transaction; a crash (`Restart`, at any moment) loses the
transaction and loads everything else from `db`.  Other actions of the
environment are edits of files between builds, `cancelBuild()` at any moment,
`resetForBuild()`, failures of the database, spurious wakeups of the condition
variable, and the delegate's answers when a cycle is found.  `breakCycle` reads
past the end of its list in one case; what follows is undefined and the model
stops there (`ReadPastCycle`).

`DemandBuild` says what the engine promises, without queues: keys are skipped or
run on demand, a task computes when everything it asked for is done, and a build
that returns a value has finished its target and left nothing behind.
`BuildEngineRefinement` maps the engine's state to it.

`LaneBasedExecutionQueue` models the queue with the process group and
`spawnProcess`.  A job runs at most one process, so one name stands for the job,
its process and the thread that executes it; `stage[j]` is where that thread is.
The thread is a lane (`runs`) until the process releases its lane, and a detached
one (`detached`) from then on.  A step is one critical section, one operation on
the atomic count or one system call: `executeProcess` looks at `cancelled` in one
step and `spawnProcess` at `closed` in another; `releaseFn` counts in one step and
uncounts a refused release in the next; `wait4`, `ProcessGroup::remove`, the
completion function and the last decrement are four steps.  `cancelAllJobs` is
three steps of the client thread, the destructor four, the kill thread two.
Processes are external: they end when they like, or from a signal; `poll`, `wait4`
and the creation of a process may fail.  The engine's own module sees the queue as
workers that complete in any order; `WaitsForJobs` says that the queue is
released, as by the engine, only after every job has reported.

`ResultStore` is the promise of `BuildDB.h`, and `SQLiteBuildDB` the database that
implements it.  Every call holds `dbMutex` and is one step.  `file` is what is
committed, `txn` what the open transaction has made of it; `key_names` is a sequence,
since IDs are given out in order and nothing is deleted, and a row of `rule_results`
holds its dependencies as the code packs them, the ID shifted past two flags.
`dbKeyIDs` and `engineKeyIDs` are the caches, which live as long as the object while
connections come and go.  `open()` is not a step but a set of outcomes, which each
call uses.  Any SQLite call may fail; a failure inside a loop leaves behind what the
loop had done.  Other processes build on the same file, remove it, or leave one of
another schema version.  The code gives up its promise in a few places, and `void`
names them: the file is replaced, or the transaction rolled back, while the caches
keep the IDs; `END` fails, which is only asserted not to happen; the query for an ID
fails and the row inserted last is taken for the key's; the column, declared
`STRING` and so of numeric affinity, stores `01` as `1`; an `open()` that failed
half-way lets a table of another version be read.  A behaviour is followed up to
such a step.

`TaskEngine` models the builra3 engine.  `taskInfos`, `stableIDMap`,
`requestedTaskInputs`, `requestedBy`, `waitingOn`, `nextState` are the fields of
`TaskInfo`; `work[w]` is what the maps of actions and subtasks hold for submission
`w`; `ready` counts the queued jobs of a task by kind.  A step is one job of the lane,
one request of the task the lane is computing, or one report.  `submit` is on its own
between drawing the number and recording the submission, because the mutex is not
held there.  An exception that escapes a thread (an `.at()` that finds nothing) ends
the process: `terminated`.  A second lock of `engineStateMutex` by the lane that holds
it leaves the lane `"hung"`.  The client's rules, providers and requests are
constants; what a task returns is any result, error, or list of IDs it was given.

`ActionExecutor` models the executor: the items in `pending`, the queue and threads
of the local lanes, the async lane with its limit, the callbacks the remote executor
holds, the cache of actions.  A thread that has taken an item out of `pending` and is
about to call the listener is an element of `reports`, so that the report and what
the thread does next are separate steps.  Waiting and `notify_one()` are modelled for
each condition variable, including the one an asynchronous subtask notifies by
mistake.  Process launching is one step, since `executeProcess` returns when the
process has ended; CAS and cache answer before their call returns, as the in-memory
ones do.

`EngineOverExecutor` is the engine over an executor known only by its promise:
submissions are taken or refused, and only what was taken is reported, at most once.  `Builra3`
composes the engine with the real executor, and states that this implements
`EngineOverExecutor` (`ExecutorKeepsPromise`, with `InFlight` for what was taken and
not yet reported).

`MCBuilra3` has ten clients, chosen so that between them every path of the engine and
the executor is taken.  `MCSQLiteBuildDB` has two keys that keep their spelling in
the database and one that does not, and two results, one with two dependencies.

`MCBuildEngine` is a client with two source files, a rule that discovers one of
them, a rule whose requests depend on a value it was provided with, single-use
and order-only inputs, and two versions of the build description.  `MCCycles` is
a client whose versions get in and out of a cycle, through requests and through
discovered dependencies.  `UpToDate` is claimed for clients like the first, whose
dependencies have no cycle.

## Runs

| Run | Shows |
| --- | --- |
| `engine_incremental` | three builds, two edits and a restart with another build description: `UpToDate` (every completed rule has the value its task would compute now), `RequestsAccounted`, `ComputesAfterInputs`, `EpochsOrdered`, `TypeOK` |
| `engine_cancellation` | a cancellation at any moment, a crash, and the next process's build: `NoLostWakeup`, `OutstandingAccounted`, `VerdictsConsumed`, `NoCancelledInput`, `QuiescentAfterBuild`, `UpToDate` |
| `engine_cycles` | three builds with cycles, every answer of the delegate, a cancellation, a reset, a restart and a database failure: `NoFalseCycle`, `ScansJustified`, `RequestsAccounted`, `QuiescentAfterBuild` |
| `engine_demand` | two such builds under fairness: `BuildTerminates`, `ImplementsDemandBuild` |
| `engine_stale_after_cancel` | violated, see Findings |
| `engine_discovered_cycle` | violated, see Findings |
| `engine_store_failure` | violated, see Findings |
| `engine_scan_cycle` | violated, see Findings |
| `queue_cancellation` | jobs added, cancelled and the queue released at any moment, with one failing system call: `CancelReachesAll`, `QueuedJobsHaveLanes`, `BackgroundAccounted`, `PipesWithinLimit`, `ReleasedClean`, `TypeOK`, and under fairness `JobsFinish`, `ReleaseReturns` |
| `queue_release` | violated, see Findings |
| `sqlite_builddb` | builds, lookups and listings, failures of every SQLite call, crashes, and other processes on the file: `CachesAgree`, `ReferencesResolve`, `TypeOK`, and `ImplementsBuildDB` (`SQLiteBuildDB` implements `ResultStore`) |
| `builra3_builds` | a builra3 engine, its executor and ten clients: `OneActivation`, `BlockedTasksAreTold`, `InputsAreThoseWaitedFor`, `BuildAnswersTrue`, `TerminatesOnlyIf`, `PendingIsSomewhere`, `AsyncWithinLimit`, `TypeOK`, `ExecutorKeepsPromise` (`Builra3` implements `EngineOverExecutor`), and under fairness `BuildsAnswered` |

Bounds.  Five keys are enough for a diamond below the root with a discovered
and a conditional input; three for a cycle that does not pass through the root.
`MaxBuilds` 3 gives a clean build, an incremental one and one after a second
edit; staleness needs a value that changes and changes back, which two edits
allow.  One crash, one cancellation and one failure at every possible moment
cover the code's single recovery path; the runs with several of them use two
builds.  Values are small integers so that a value can change and change back.

The queue has three jobs: a process that must not be interrupted and one of high
priority that may be, both able to release their lane, and a job without a
process.  Its machines have one lane where two were asked for, one lane and one
background task, and two lanes and one background task; on the first two the
processes use up the open file limit, and with one background task the two
processes compete for it.  `MaxFaults` 1 lets one system call fail.  Deadlock is
not checked: a released queue does nothing more.

The database has three keys, so that one can lack a row, have one, or share one with
another spelling, and a result whose two dependencies differ in both flags; the
number of builds, crashes and failures is not bounded.  `MaxIteration` 1
distinguishes an iteration that was set from one that was not.

builra3 has three rules, one of them with two artifacts and one only known after an
initialization task registered its provider, at most two submissions (`MaxWork`), and
batches of at most two IDs (`MaxBatch`): the least at which a task waits for two
things that finish in either order, an ID is repeated, and a second asynchronous
subtask meets a limit of one.  What earlier engines left in the executor (cached
actions, a prepared executable) is any such state.  There is one local lane; the
theorems are for any number.  Deadlock is not checked: an engine whose builds are answered
does nothing more, and neither does a process that an exception has ended.

Fairness.  `BuildTerminates` assumes weak fairness of the engine thread and of
each worker: a thread that can take a step takes one, and a task that was handed
to the execution queue completes (its process exits, or is killed after a
cancellation).  No fairness is assumed of the client, of failures or of spurious
wakeups.  `undefined` counts as the end of a build, since nothing can be said
after it.  The queue's liveness assumes weak fairness of every lane, of the thread
that executes each job, of the kill thread and of calls the client has begun, and
that processes end by themselves; nobody has to add, cancel or release.  It does
not rest on failures.  `BuildsAnswered` assumes that the threads of the engine and
the executor run on and that what they started calls back; clients do what they like.
It excepts what the code does not recover from: an escaped exception, a destroyed
engine, the hung lane, tasks that wait for one another, the sleeping async lane.

## Findings

- **A cancelled rule can be taken to be up to date** (`engine_stale_after_cancel`).
  `setCancelled()` changes only the state of the rule.  Its result keeps the old
  `builtAt`, but its dependencies were cleared when the task was started and only
  partly recorded again.  If the client calls `resetForBuild()` and builds again
  with the same engine, as `BuildSystemFrontend` does, the scan sees a rule
  without the changed dependency and skips it.
- **A cycle below a discovered dependency is not found** (`engine_discovered_cycle`):
  `findCycle()` returns an empty list, which `resolveCycle()` asserts it never does.
- **A database failure cancels a task that is already complete**
  (`engine_store_failure`): the assertion in `cancelRemainingTasks()` fails.
- **A cycle of scans ends the build as a success** (`engine_scan_cycle`).  A rule
  discovers a dependency that depends on it.  In the next process both are
  scanned, each defers its scan request on the other, and no task is ever
  created; the loop takes the absence of tasks for the end of the build, and
  `build()` returns the old value of a rule that is still being scanned.
  `QuiescentAfterBuild` says this is the only way a scan is left unfinished, and
  `DemandBuild` has an outcome `"undecided"` for it.

- **A released queue may still have a thread** (`queue_release`).  A detached
  thread reports its job and then decrements `backgroundTaskCount` of the queue.
  The report may be the last the engine waits for, and the destructor waits for
  lanes, kill thread and processes, but not for detached threads.
  `ReleasedClean` says that these last calls are all that can be outstanding.

Met on the way, without a run of their own.

In the queue: when `poll()` fails, the job never reports and its process stays in the
group, so that the destructor waits for ever (`JobsFinish` and `ReleaseReturns` name
the case); a kill thread that starts only after the destructor has set
`queueComplete` kills nothing.

In the SQLite database, besides what `void` names: an `open()` that fails early
leaves `db` set and the statements unprepared, so that later calls use null
statements; `getKeysWithResult` then returns an empty list as a success, and any list
ends silently at an error.

In builra3; the model has all of them, and where one would break a property, the
property names the case:

- `submit` is called before the submission is recorded, so a report that comes first
  throws, on an executor's thread or, from the action cache, inside `submit` itself.
- Inputs are handed over through one slot per producing task.  With two IDs of one
  producer the second finds the slot empty, which throws, or is answered under the
  other's ID.
- `taskRequestRule` for a rule already in flight returns an ID it records nowhere;
  waiting for it ends the task with an error.
- The root task holds `engineStateMutex` while it asks for its artifact; if that
  needs the initialization task, the lane locks the mutex again.
- An initialization that failed still sets `initialized`.
- Tasks that wait for one another are not noticed, and the destructor leaves builds
  unanswered.
- A finished asynchronous subtask notifies `localActionsCondition`; the async lane,
  asleep at its limit, sleeps on.
- An action whose outputs cannot be collected is reported and stays in `pending`.

## Proofs

The theorems about the first engine hold for every client (every value of the constants that satisfies
`ClientAssumption` and `BoundsAssumption`: keys are finite, and what the client
requests, discovers and computes has its type), every number of builds, restarts,
cancellations and failures, and every interleaving.  They use `Spec`, without
fairness.

| Theorem | Module | Says |
| --- | --- | --- |
| `TypeCorrect` | `BuildEngineProofs` | `TypeOK` always holds |
| `EpochsNeverReused` | `BuildEngineProofs` | `EpochsOrdered` always holds |
| `NoRequestLost` | `RequestProofs` | `RequestsAccounted` always holds |
| `OutstandingExact` | `RequestProofs` | `OutstandingAccounted` always holds |
| `WakeupNeverLost` | `RequestProofs` | `NoLostWakeup` always holds |
| `CycleOnlyWhenStuck` | `RequestProofs` | `NoFalseCycle` always holds |
| `NothingLeftOver` | `RequestProofs` | the part of `QuiescentAfterBuild` about tasks, workers and queues |

The last five rest on one inductive invariant, `EngineInv` (`RequestProofs`), and
on `EngineAccounted == Spec => []EngineInv`.  None of the five is inductive alone:

- `RequestsAccounted` speaks of registered, waiting tasks only.  A step that
  starts a task sets its wait count to the number of requests it makes, which is
  right only if the rule had none before: `RequestInv` adds that rules which do
  not wait have no request anywhere and are not queued as ready, and that the
  ready queue has no duplicates.
- `TaskInv` ties registration to the rules' states.  The exception is the rule
  whose result the database refused: it stays registered, and complete, until the
  cancellation that follows drops it.
- `WorkerInv` says where computing tasks are: with a worker or in
  `finishedTaskInfos`, once, never both.  Without it, finishing a task could
  finish one that still waits, and the counter could not be tied to the workers.
- `QueueInv` says which queues an iteration that has not worked has seen empty.
  This is what makes the end of the loop, and the search for a cycle, sound.
- `WakeupInv` adds to `NoLostWakeup` that the engine goes to wait only with tasks
  outstanding; with `OutstandingAccounted` and an empty queue, a worker is then
  still computing.

Requests are counted with cardinalities.  The first part of `RequestProofs` proves what appending,
concatenating, taking the head, the tail or the last element, erasing, and moving a
list between holders do to the counts; the second has one lemma per action for
`RequestInv`, the third for the other parts.  For epochs the inductive form
is `EpochInv` (`BuildEngineProofs`), which adds the open transaction: it is ordered
by the epoch that will be stored with it.

Only model-checked: `BuildTerminates` (liveness under fairness), `UpToDate`,
`ComputesAfterInputs`, `ImplementsDemandBuild`, `VerdictsConsumed`,
`ScansJustified`, `NoCancelledInput`, and what `QuiescentAfterBuild` says of rules
left in the middle of their scan.

`QueueProofs` is about the execution queue.  Every safety invariant its runs check is
proved, for every finite set of jobs, every number of lanes, and both schedulers;
`QueueAssumption` asks that machines have at least one lane and a natural open file
limit.

| Theorem | Says |
| --- | --- |
| `NoProcessEscapes` | `CancelReachesAll` always holds |
| `BackgroundBounded` | `BackgroundAccounted` always holds |
| `NoJobLeftBehind` | `QueuedJobsHaveLanes` always holds |
| `PipesFit` | `PipesWithinLimit` always holds |
| `ReleaseIsClean` | `ReleasedClean` always holds |
| `TypesHold` | `TypeOK` always holds |

- `CancelInv` adds to `CancelReachesAll` that the group is closed from the moment
  `cancelAllJobs` has left its critical section: a closed group only shrinks, because
  `spawnProcess` holds the group's mutex from its look at `closed` until the process
  is added, so whoever is in the group when it is signalled is everyone there will be.
- `BackgroundInv` adds to `BackgroundAccounted` that a detached thread is between its
  start and its last decrement, and `ReadyInv` that a job waits in one ready queue
  once and is not executed meanwhile, so that taking it can disturb neither count.
- `PlacesInv` adds `LanesInv`: a lane is busy exactly while it has a job, and a job
  holds a lane exactly while it is executed and not detached.  With it the lanes on
  their way to the queue can be counted (`QueuedJobsHaveLanes`), and the jobs with
  open pipes are no more than the lanes and the detached threads together, so that
  `PipesWithinLimit` is arithmetic on what `estimateTaskLimits` computed.
- `WholeInv` adds where processes are (`ProcessInv`) and the order of the release
  (`ReleaseInv`): a lane exits only after the destructor asked for it and with nothing
  ready, the destructor goes on only when all have exited, and it returns only when
  the group is empty.

`KeyIDProofs` and `SQLiteProofs` are about the database, for every finite set of keys,
every set of results and every column; what the connection does about a failing call,
and what other processes leave in the file, is any of the model's choices.

| Theorem | Module | Says |
| --- | --- | --- |
| `TypesHold` | `SQLiteProofs` | `TypeOK` always holds: no ID outgrows the column |
| `CachesHold` | `SQLiteProofs` | `CachesAgree` always holds |
| `ReferencesHold` | `SQLiteProofs` | `ReferencesResolve` always holds |
| `DatabaseImplements` | `SQLiteProofs` | `ImplementsBuildDB`: the database implements `ResultStore` |

- The inductive invariant, `SInv`, says of the file and the transaction that each
  is `Sound`: a file of another version is empty, no two rows of `key_names` can be
  taken for each other, every row and every dependency has a name, and every row
  decodes to a result.  It says that the caches agree with `key_names` as the
  connection sees it, and that an open connection is to a file of the current version.
  It is claimed until `void`; `CachesAgree` alone is not inductive, because a cache
  entry is as good as the rows it was read from.
- `getKeyID` over the dependencies of a result, `getKeyIDForID` over a blob and the
  listing of all rows are loops that change the caches and the table as they go, and
  that can stop anywhere.  Each is a function on an interval; a set of numbers that
  has 0, and has `i` when it has `i - 1`, has every number up to `n` (`Upto`, from the
  least number of a set), and a function so defined exists (`LoopExists`).  The
  lemmas on a step of a loop (`GetKeyIDIs`, `GetKeyIDForIDIs`, `ListRowIs`) thus
  become lemmas on its whole run, stopped or not (`IdentifiedAgrees`,
  `ResolvedAgrees`, `ListingIs`).
- `WrittenSound` is the heart of the refinement: after `setRuleResult` the row decodes
  to the result that was set, in order and with its flags, and every other key reads
  as before (`RowKept`, `ResultKept`), although the call added rows to `key_names`.
  `GrownSound` is the same for a call that failed between two of its steps.
- The refinement maps contents to their `Meaning`.  There is one lemma per call
  (`LookupMaps`, `ListMaps`, `SetMaps`, ...), each with two cases: the step is one of
  `ResultStore`, or the call failed and left the meaning as it was.

The builra3 theorems hold for every set of rules, providers, clients, lanes and
submissions, and every limit; `TaskEngineAssumption` asks that no two rules produce one
artifact and that names do not collide, and `ExecutorAssumption` that submissions are
finitely many.

| Theorem | Module | Says |
| --- | --- | --- |
| `OneActivationHolds`, `BlockedTasksAreToldHolds` | `TaskEngineProofs` | `OneActivation` and `BlockedTasksAreTold`, over any executor (`OverAnyExecutor`) |
| `PendingIsSomewhereHolds`, `AsyncWithinLimitHolds` | `Builra3Proofs` | `PendingIsSomewhere` and `AsyncWithinLimit`, for the composition |
| `ExecutorKeepsPromiseHolds` | `Builra3Proofs` | the composition implements `EngineOverExecutor` |
| `SystemOneActivation`, `SystemTellsBlockedTasks` | `Builra3Proofs` | the first two again, for the composition |

- The engine (`TaskEngineProofs`).  `IInv` holds until an exception ends the process.
  Its parts: a task is in one place, and one that has not been inserted is in none
  (`Placed`); whoever waits is on the list of an inserted task that has yet to finish or
  whose finishing job is still queued, or owns a submission not yet reported (`Told`);
  an ID in a task's map names an inserted task or a submission of its own (`Owned`);
  the lane inside `submit` has drawn the number it is about to record (`Submitting`).  Each action of the engine is a
  lemma, stated without the executor.  `OverAnyExecutor` is the engine with an executor
  that answers `submit` as it likes and may report a submission at any time, even twice;
  the steps of `EngineOverExecutor` and of the real executor are among its steps.
- The executor (`ExecutorProofs`).  `ExecutorInv` adds to `PendingIsSomewhere` that two
  lanes never hold one item (`LanesApart`) and that an item being reported is pending no
  more and reported by one thread (`ReportedOnce`).  `AsyncInv` counts asynchronous subtasks by
  where they are: started, reporting, or about to decrement.
- The composition (`Builra3Proofs`).  `SystemInv` joins both with `NewToExecutor`: a
  number the engine has not submitted yet is nowhere in the executor.  This makes a
  submission disjoint from all that is in flight.
- The refinement.  `InFlight` is `(pending \ leaked)` and the reports being made.  A step
  inside the executor leaves it alone, taking an item out of `pending` and adding the
  report is one step, and the listener call takes it out.  A report without a listener
  is `Drop`, which needs `Detached`: the listener leaves only after the lane has ended.

Only model-checked: `BuildsAnswered` (liveness under fairness),
`InputsAreThoseWaitedFor`, `BuildAnswersTrue`, `TerminatesOnlyIf` and the type
invariant of the composition.

## Not modelled

Tracing, statistics, graph dumps, status callbacks, the memory of scan records, key
interning, timestamps of results, cancellation delegates.  Two engines on one
database object, and two engines on one executor.  In the engine's own module failing
lookups appear only through what they do to it (`CancelBuild`).  Corrupt blobs in the
database; the path of `open()` on which the file disappears between being opened and
being removed, where the code goes on with a null connection.

The build system, its commands and the Ninja tool are clients: `BuildEngine` takes
what they request, discover and compute as constants, and its theorems hold for all of
them, but whether a command decides rightly that it can be skipped is its own code
and is not here.  The serial queue, one thread behind one list of operations, is
left out in favour of the larger queue.  Parsers of manifests and of dependency files, output
and platform wrappers are sequential code without state that outlives a call.  The
remaining files of builra3 launch processes as `Subprocess.cpp` does, talk gRPC, or
adapt interfaces.  The build service under `Sources` is written in another language
above the engine's bindings and translates project descriptions into tasks.
