----------------------- MODULE LaneBasedExecutionQueue -----------------------
(***************************************************************************)
(* The queue that runs a build's jobs: one thread per lane taking jobs     *)
(* from a ready queue, the processes those jobs spawn, the detached        *)
(* threads that wait for processes which released their lane, and the      *)
(* cancellation that interrupts and at last kills what is running          *)
(* (lib/Basic/LaneBasedExecutionQueue.cpp, with spawnProcess and           *)
(* ProcessGroup of lib/Basic/Subprocess.cpp on a POSIX system).            *)
(*                                                                         *)
(* A job runs at most one process, so a job also names its process and     *)
(* the thread of control that executes it: stage[j] is where that thread   *)
(* is.  The thread is a lane until the process releases it, and a detached *)
(* thread afterwards.  Every step is one critical section of               *)
(* readyJobsMutex, ProcessGroup::mutex or queueCompleteMutex, one          *)
(* operation on the atomic backgroundTaskCount, or one system call.        *)
(***************************************************************************)
EXTENDS Integers, Sequences, FiniteSets, FiniteSetsExt

CONSTANTS
    Jobs,                \* the jobs the client may add
    NoJob,               \* what a lane runs between two jobs
    High,                \* jobs added with QueueJobPriority::High
    Spawning,            \* jobs that call executeProcess
    Releasing,           \* processes that may ask for their lane's release
    Interruptible,       \* processes with canSafelyInterrupt
    OrdinalName(_),      \* getOrdinalName(), as a number
    Algorithm,           \* "NamePriority" or "FIFO"
    Machines,            \* pairs of the number of lanes asked for and the
                         \* open file limit
    BackgroundTaskMaxEnv,\* BUILRA_BACKGROUND_TASK_MAX; negative if not set
    WaitsForJobs,        \* does the client release the queue only after every
                         \* job has reported, as the build engine does?
    MaxFaults            \* bound on failing system calls

ASSUME QueueAssumption ==
    /\ IsFiniteSet(Jobs) /\ NoJob \notin Jobs
    /\ MaxFaults \in Nat
    /\ \A machine \in Machines : machine[1] \in Nat \ {0} /\ machine[2] \in Nat
    /\ BackgroundTaskMaxEnv \in Int

VARIABLES
    openFileLimit,       \* what the constructor read; fixed afterwards
    backgroundTaskMax,
    readyJobs, readyPriorityJobs,
    cancelled, shutdown,
    lane,                \* where each lane's thread is
    runs,                \* the job each lane executes
    stage,               \* where the execution of each job is
    closed, processes,   \* spawnedProcesses, the ProcessGroup
    process,             \* the system's view of each process ("lost" when
                         \* wait4 failed and nothing is known of it)
    signals,             \* the signals each process was sent
    detached,            \* jobs whose lane was released
    backgroundTaskCount,
    killer,              \* killAfterTimeoutThread
    queueComplete,
    client,              \* the calls of the thread that owns the queue
    reported,            \* the status given to the job's completion function
    faults               \* failing system calls so far

limits == <<openFileLimit, backgroundTaskMax>>
readyVars == <<readyJobs, readyPriorityJobs>>
flags == <<cancelled, shutdown>>
laneVars == <<lane, runs>>
groupVars == <<closed, processes>>
systemVars == <<process, signals>>
backgroundVars == <<detached, backgroundTaskCount>>
killVars == <<killer, queueComplete>>
vars == <<limits, readyVars, flags, laneVars, stage, groupVars, systemVars,
          backgroundVars, killVars, client, reported, faults>>

Lanes == DOMAIN lane

Stages == {"new", "ready", "execute", "spawn", "poll", "refused", "wait",
           "reaped", "report", "decrement", "done", "abandoned"}

\* The shape of the state.
TypeOK ==
    /\ openFileLimit \in Nat /\ backgroundTaskMax \in Nat
    /\ readyJobs \in Seq(Jobs) /\ readyPriorityJobs \in Seq(Jobs)
    /\ cancelled \in BOOLEAN /\ shutdown \in BOOLEAN /\ closed \in BOOLEAN
    /\ Lanes # {} /\ Lanes = DOMAIN runs
    /\ \A l \in Lanes : /\ lane[l] \in {"take", "waiting", "busy", "exited"}
                        /\ runs[l] \in Jobs \cup {NoJob}
                        /\ lane[l] = "busy" <=> runs[l] # NoJob
    /\ stage \in [Jobs -> Stages]
    /\ processes \subseteq Jobs /\ detached \subseteq Jobs
    /\ process \in [Jobs -> {"none", "running", "exited", "killed", "lost"}]
    /\ signals \in [Jobs -> SUBSET {"SIGINT", "SIGKILL"}]
    /\ backgroundTaskCount \in Nat
    /\ killer \in {"none", "starting", "sleeping", "killed", "skipped"}
    /\ queueComplete \in BOOLEAN
    /\ client \in {"live", "signal", "escalate", "joinLanes", "joinKiller",
                   "waitGroup", "released"}
    /\ reported \in [Jobs -> {"none", "Succeeded", "Failed", "Cancelled"}]
    /\ faults \in 0..MaxFaults
-----------------------------------------------------------------------------
(* Construction                                                            *)

ReservedFileCount == 3 + 2 + 1 + 2 + 2
FilesPerTask == 2

\* (numLanes * 64U wraps only for 2^26 lanes, which no limit allows.)
BackgroundTasksWanted(numLanes) ==
    IF BackgroundTaskMaxEnv >= 0 THEN BackgroundTaskMaxEnv
                                 ELSE Min({1024, numLanes * 64})

MaxConcurrentTasks(files) == (files - ReservedFileCount) \div FilesPerTask

\* The number of lanes not lowered to what the limit allows.  (Here and
\* below, a definition that no other one uses is a plausible slip in the
\* definition after it.)
LanesNotLowered(numLanes, files) ==
    LET maxTasks == MaxConcurrentTasks(files)
    IN  IF files < ReservedFileCount THEN <<1, 0>>
        ELSE IF numLanes > maxTasks THEN <<numLanes, 0>>
        ELSE <<numLanes,
               Min({BackgroundTasksWanted(numLanes), maxTasks - numLanes})>>

EstimateTaskLimits(numLanes, files) ==
    LET maxTasks == MaxConcurrentTasks(files)
    IN  IF files < ReservedFileCount THEN <<1, 0>>
        ELSE IF numLanes > maxTasks THEN <<Max({1, maxTasks}), 0>>
        ELSE <<numLanes,
               Min({BackgroundTasksWanted(numLanes), maxTasks - numLanes})>>

Init ==
    /\ \E machine \in Machines :
       LET taskLimits == EstimateTaskLimits(machine[1], machine[2])
       IN  /\ openFileLimit = machine[2]
           /\ backgroundTaskMax = taskLimits[2]
           /\ lane = [l \in 1..taskLimits[1] |-> "take"]
           /\ runs = [l \in 1..taskLimits[1] |-> NoJob]
    /\ readyJobs = <<>> /\ readyPriorityJobs = <<>>
    /\ cancelled = FALSE /\ shutdown = FALSE
    /\ stage = [j \in Jobs |-> "new"]
    /\ closed = FALSE /\ processes = {}
    /\ process = [j \in Jobs |-> "none"]
    /\ signals = [j \in Jobs |-> {}]
    /\ detached = {} /\ backgroundTaskCount = 0
    /\ killer = "none" /\ queueComplete = FALSE
    /\ client = "live"
    /\ reported = [j \in Jobs |-> "none"]
    /\ faults = 0
-----------------------------------------------------------------------------
(* The ready queue and the lanes                                           *)

WaitingLanes == {l \in Lanes : lane[l] = "waiting"}

\* readyJobsCondition.notify_one() and notify_all().
NotifyOne ==
    \/ WaitingLanes = {} /\ UNCHANGED lane
    \/ \E l \in WaitingLanes : lane' = [lane EXCEPT ![l] = "take"]

NotifyAll ==
    lane' = [l \in Lanes |-> IF lane[l] = "waiting" THEN "take" ELSE lane[l]]

\* A notification forgotten when the job is an ordinary one.
AddJobNotifiesForHighOnly(j) ==
    /\ client \in {"live", "signal", "escalate"}
    /\ stage[j] = "new"
    /\ stage' = [stage EXCEPT ![j] = "ready"]
    /\ IF j \in High
       THEN /\ readyPriorityJobs' = Append(readyPriorityJobs, j)
            /\ NotifyOne
            /\ UNCHANGED readyJobs
       ELSE /\ readyJobs' = Append(readyJobs, j)
            /\ UNCHANGED <<readyPriorityJobs, lane>>
    /\ UNCHANGED <<limits, flags, runs, groupVars, systemVars, backgroundVars,
                   killVars, client, reported, faults>>

\* addJob, from any thread while the queue is in use.
AddJob(j) ==
    /\ client \in {"live", "signal", "escalate"}
    /\ stage[j] = "new"
    /\ stage' = [stage EXCEPT ![j] = "ready"]
    /\ IF j \in High
       THEN /\ readyPriorityJobs' = Append(readyPriorityJobs, j)
            /\ UNCHANGED readyJobs
       ELSE /\ readyJobs' = Append(readyJobs, j)
            /\ UNCHANGED readyPriorityJobs
    /\ NotifyOne
    /\ UNCHANGED <<limits, flags, runs, groupVars, systemVars, backgroundVars,
                   killVars, client, reported, faults>>

NothingReady == readyJobs = <<>> /\ readyPriorityJobs = <<>>

\* The places Scheduler::getNextJob may take a job from: the oldest, or one
\* with the greatest name (the order of equal names is not specified).
NextReady ==
    {n \in DOMAIN readyJobs :
       \/ Algorithm = "FIFO" /\ n = 1
       \/ /\ Algorithm = "NamePriority"
          /\ \A i \in DOMAIN readyJobs :
                OrdinalName(readyJobs[i]) <= OrdinalName(readyJobs[n])}

Without(s, n) == [i \in 1..(Len(s) - 1) |-> s[IF i < n THEN i ELSE i + 1]]

\* The lane has a job and starts to execute it.
Execute(l, j) ==
    /\ lane' = [lane EXCEPT ![l] = "busy"]
    /\ runs' = [runs EXCEPT ![l] = j]
    /\ stage' = [stage EXCEPT ![j] = "execute"]

\* executeLane takes a job, preferring those of high priority.
TakePriorityJob(l) ==
    /\ lane[l] = "take"
    /\ readyPriorityJobs # <<>>
    /\ readyPriorityJobs' = Tail(readyPriorityJobs)
    /\ Execute(l, Head(readyPriorityJobs))
    /\ UNCHANGED <<limits, readyJobs, flags, groupVars, systemVars,
                   backgroundVars, killVars, client, reported, faults>>

TakeReadyJob(l) ==
    /\ lane[l] = "take"
    /\ readyPriorityJobs = <<>>
    /\ \E n \in NextReady : /\ readyJobs' = Without(readyJobs, n)
                            /\ Execute(l, readyJobs[n])
    /\ UNCHANGED <<limits, readyPriorityJobs, flags, groupVars, systemVars,
                   backgroundVars, killVars, client, reported, faults>>

WaitForJob(l) ==
    /\ lane[l] = "take"
    /\ NothingReady /\ ~shutdown
    /\ lane' = [lane EXCEPT ![l] = "waiting"]
    /\ UNCHANGED <<limits, readyVars, flags, runs, stage, groupVars, systemVars,
                   backgroundVars, killVars, client, reported, faults>>

\* readyJobsCondition.wait() may return without a notification.
WakeSpuriously(l) ==
    /\ lane[l] = "waiting"
    /\ lane' = [lane EXCEPT ![l] = "take"]
    /\ UNCHANGED <<limits, readyVars, flags, runs, stage, groupVars, systemVars,
                   backgroundVars, killVars, client, reported, faults>>

\* A lane that leaves as soon as it sees shutdown, whatever is still queued.
ExitLaneAtOnce(l) ==
    /\ lane[l] = "take"
    /\ shutdown
    /\ lane' = [lane EXCEPT ![l] = "exited"]
    /\ UNCHANGED <<limits, readyVars, flags, runs, stage, groupVars, systemVars,
                   backgroundVars, killVars, client, reported, faults>>

ExitLane(l) ==
    /\ lane[l] = "take"
    /\ NothingReady /\ shutdown
    /\ lane' = [lane EXCEPT ![l] = "exited"]
    /\ UNCHANGED <<limits, readyVars, flags, runs, stage, groupVars, systemVars,
                   backgroundVars, killVars, client, reported, faults>>
-----------------------------------------------------------------------------
(* Executing a job                                                         *)

MoveTo(j, s) == stage' = [stage EXCEPT ![j] = s]

\* job.execute() returns to the lane that runs j, if a lane still does.
LaneReturns(j) ==
    /\ lane' = [l \in Lanes |-> IF runs[l] = j THEN "take" ELSE lane[l]]
    /\ runs' = [l \in Lanes |-> IF runs[l] = j THEN NoJob ELSE runs[l]]

\* The completion function is given the status and the job is over.
Complete(j, status) ==
    /\ reported' = [reported EXCEPT ![j] = status]
    /\ MoveTo(j, "done")
    /\ LaneReturns(j)

\* A job that runs no process does its work on the lane.
ExecuteInline(j) ==
    /\ stage[j] = "execute"
    /\ j \notin Spawning
    /\ Complete(j, "Succeeded")
    /\ UNCHANGED <<limits, readyVars, flags, groupVars, systemVars,
                   backgroundVars, killVars, client, faults>>

\* executeProcess looks at cancelled before it prepares the environment.
ExecuteProcess(j) ==
    /\ stage[j] = "execute"
    /\ j \in Spawning
    /\ \/ cancelled /\ Complete(j, "Cancelled")
       \/ ~cancelled /\ MoveTo(j, "spawn") /\ UNCHANGED <<laneVars, reported>>
    /\ UNCHANGED <<limits, readyVars, flags, groupVars, systemVars,
                   backgroundVars, killVars, client, faults>>

SpawnedBy(j) ==
    /\ processes' = processes \cup {j}
    /\ process' = [process EXCEPT ![j] = "running"]
    /\ MoveTo(j, "poll")
    /\ UNCHANGED <<laneVars, reported, faults>>

SpawnFails(j) ==
    /\ faults < MaxFaults
    /\ faults' = faults + 1
    /\ Complete(j, "Failed")
    /\ UNCHANGED <<processes, process>>

\* Spawning on the strength of executeProcess's earlier look at cancelled.
SpawnWithoutLooking(j) ==
    /\ stage[j] = "spawn"
    /\ SpawnedBy(j) \/ SpawnFails(j)
    /\ UNCHANGED <<limits, readyVars, flags, closed, signals, backgroundVars,
                   killVars, client>>

\* spawnProcess holds the group's mutex from its look at closed until the
\* process is in the group.  The pipes or the process may not be created.
Spawn(j) ==
    /\ stage[j] = "spawn"
    /\ \/ /\ closed
          /\ Complete(j, "Cancelled")
          /\ UNCHANGED <<processes, process, faults>>
       \/ ~closed /\ SpawnedBy(j)
       \/ ~closed /\ SpawnFails(j)
    /\ UNCHANGED <<limits, readyVars, flags, closed, signals, backgroundVars,
                   killVars, client>>

\* Both pipes reached their end, which a process may cause before it exits.
PipesEnd(j) ==
    /\ stage[j] = "poll"
    /\ MoveTo(j, "wait")
    /\ UNCHANGED <<limits, readyVars, flags, laneVars, groupVars, systemVars,
                   backgroundVars, killVars, client, reported, faults>>

\* poll() fails: spawnProcess returns and nothing looks after the process.
PollFails(j) ==
    /\ stage[j] = "poll"
    /\ faults < MaxFaults
    /\ faults' = faults + 1
    /\ MoveTo(j, "abandoned")
    /\ LaneReturns(j)
    /\ UNCHANGED <<limits, readyVars, flags, groupVars, systemVars,
                   backgroundVars, killVars, client, reported>>

\* The comparison made with the count that includes this task.
ReleaseAllowsOneMore == backgroundTaskCount <= backgroundTaskMax

\* previousTaskCount < backgroundTaskMax
ReleaseAllowed == backgroundTaskCount < backgroundTaskMax

\* A release that is refused is not counted, but is uncounted below.
ReleaseCountsAllowedOnly(j) ==
    /\ stage[j] = "poll"
    /\ j \in Releasing
    /\ \/ /\ ReleaseAllowed
          /\ backgroundTaskCount' = backgroundTaskCount + 1
          /\ detached' = detached \cup {j}
          /\ MoveTo(j, "wait")
          /\ LaneReturns(j)
       \/ /\ ~ReleaseAllowed
          /\ MoveTo(j, "refused")
          /\ UNCHANGED <<backgroundVars, laneVars>>
    /\ UNCHANGED <<limits, readyVars, flags, groupVars, systemVars, killVars,
                   client, reported, faults>>

\* The process asks for its lane to be released: releaseFn counts one more
\* background task, and either a detached thread takes over or the lane
\* will have to wait itself.
Release(j) ==
    /\ stage[j] = "poll"
    /\ j \in Releasing
    /\ backgroundTaskCount' = backgroundTaskCount + 1
    /\ \/ /\ ReleaseAllowed
          /\ detached' = detached \cup {j}
          /\ MoveTo(j, "wait")
          /\ LaneReturns(j)
       \/ /\ ~ReleaseAllowed
          /\ MoveTo(j, "refused")
          /\ UNCHANGED <<detached, laneVars>>
    /\ UNCHANGED <<limits, readyVars, flags, groupVars, systemVars, killVars,
                   client, reported, faults>>

Refused(j) ==
    /\ stage[j] = "refused"
    /\ backgroundTaskCount' = backgroundTaskCount - 1
    /\ MoveTo(j, "wait")
    /\ UNCHANGED <<limits, readyVars, flags, laneVars, groupVars, systemVars,
                   detached, killVars, client, reported, faults>>

\* wait4 returns the status of the process ...
Wait(j) ==
    /\ stage[j] = "wait"
    /\ process[j] \in {"exited", "killed"}
    /\ MoveTo(j, "reaped")
    /\ UNCHANGED <<limits, readyVars, flags, laneVars, groupVars, systemVars,
                   backgroundVars, killVars, client, reported, faults>>

\* ... or fails.
WaitFails(j) ==
    /\ stage[j] = "wait"
    /\ faults < MaxFaults
    /\ faults' = faults + 1
    /\ process' = [process EXCEPT ![j] = "lost"]
    /\ MoveTo(j, "reaped")
    /\ UNCHANGED <<limits, readyVars, flags, laneVars, groupVars, signals,
                   backgroundVars, killVars, client, reported>>

Remove(j) ==
    /\ stage[j] = "reaped"
    /\ processes' = processes \ {j}
    /\ MoveTo(j, "report")
    /\ UNCHANGED <<limits, readyVars, flags, laneVars, closed, systemVars,
                   backgroundVars, killVars, client, reported, faults>>

Statuses(j) == CASE process[j] = "killed" -> {"Cancelled"}
                 [] process[j] = "exited" -> {"Succeeded", "Failed"}
                 [] process[j] = "lost" -> {"Failed"}

\* processFinished and the completion function, on the lane or on the
\* detached thread, which has the count to decrement afterwards.
Report(j) ==
    /\ stage[j] = "report"
    /\ \E status \in Statuses(j) :
          IF j \in detached
          THEN /\ reported' = [reported EXCEPT ![j] = status]
               /\ MoveTo(j, "decrement")
               /\ UNCHANGED laneVars
          ELSE Complete(j, status)
    /\ UNCHANGED <<limits, readyVars, flags, groupVars, systemVars,
                   backgroundVars, killVars, client, faults>>

Decrement(j) ==
    /\ stage[j] = "decrement"
    /\ backgroundTaskCount' = backgroundTaskCount - 1
    /\ detached' = detached \ {j}
    /\ MoveTo(j, "done")
    /\ UNCHANGED <<limits, readyVars, flags, laneVars, groupVars, systemVars,
                   killVars, client, reported, faults>>

\* External: a process ends by itself, or from a signal it was sent (it may
\* ignore SIGINT; nothing else sends it signals).
ProcessExits(j) ==
    /\ process[j] = "running"
    /\ process' = [process EXCEPT ![j] = "exited"]
    /\ UNCHANGED <<limits, readyVars, flags, laneVars, stage, groupVars, signals,
                   backgroundVars, killVars, client, reported, faults>>

ProcessKilled(j) ==
    /\ process[j] = "running"
    /\ signals[j] # {}
    /\ process' = [process EXCEPT ![j] = "killed"]
    /\ UNCHANGED <<limits, readyVars, flags, laneVars, stage, groupVars, signals,
                   backgroundVars, killVars, client, reported, faults>>
-----------------------------------------------------------------------------
(* Cancellation                                                            *)

\* cancelAllJobs under both mutexes; a second call returns here.
CancelAllJobs ==
    /\ client = "live"
    /\ ~cancelled
    /\ cancelled' = TRUE
    /\ closed' = TRUE
    /\ NotifyAll
    /\ client' = "signal"
    /\ UNCHANGED <<limits, readyVars, shutdown, runs, stage, processes,
                   systemVars, backgroundVars, killVars, reported, faults>>

\* ProcessGroup::signalAll, which spares the processes that are not safe to
\* interrupt when the signal is SIGINT.
SignalAll(signal) ==
    signals' = [j \in Jobs |->
                  IF j \in processes /\ (signal = "SIGINT" => j \in Interruptible)
                  THEN signals[j] \cup {signal} ELSE signals[j]]

Interrupt ==
    /\ client = "signal"
    /\ SignalAll("SIGINT")
    /\ client' = "escalate"
    /\ UNCHANGED <<limits, readyVars, flags, laneVars, stage, groupVars, process,
                   backgroundVars, killVars, reported, faults>>

StartKiller ==
    /\ client = "escalate"
    /\ killer' = "starting"
    /\ client' = "live"
    /\ UNCHANGED <<limits, readyVars, flags, laneVars, stage, groupVars,
                   systemVars, backgroundVars, queueComplete, reported, faults>>

\* killAfterTimeout sleeps unless the queue is complete already ...
KillerSleeps ==
    /\ killer = "starting"
    /\ killer' = IF queueComplete THEN "skipped" ELSE "sleeping"
    /\ UNCHANGED <<limits, readyVars, flags, laneVars, stage, groupVars,
                   systemVars, backgroundVars, queueComplete, client, reported,
                   faults>>

\* ... and kills what is left, after the timeout or when it is woken.
KillerKills ==
    /\ killer = "sleeping"
    /\ SignalAll("SIGKILL")
    /\ killer' = "killed"
    /\ UNCHANGED <<limits, readyVars, flags, laneVars, stage, groupVars, process,
                   backgroundVars, queueComplete, client, reported, faults>>
-----------------------------------------------------------------------------
(* Release of the queue                                                    *)

MayRelease ==
    WaitsForJobs => \A j \in Jobs : stage[j] = "new" \/ reported[j] # "none"

\* The destructor forgets to wake the lanes that sleep.
ShutDownQuietly ==
    /\ client = "live"
    /\ MayRelease
    /\ shutdown' = TRUE
    /\ client' = "joinLanes"
    /\ UNCHANGED <<limits, readyVars, cancelled, laneVars, stage, groupVars,
                   systemVars, backgroundVars, killVars, reported, faults>>

\* ~LaneBasedExecutionQueue: shut the lanes down, ...
ShutDown ==
    /\ client = "live"
    /\ MayRelease
    /\ shutdown' = TRUE
    /\ NotifyAll
    /\ client' = "joinLanes"
    /\ UNCHANGED <<limits, readyVars, cancelled, runs, stage, groupVars,
                   systemVars, backgroundVars, killVars, reported, faults>>

\* ... join them, tell the kill thread if there is one, ...
JoinLanes ==
    /\ client = "joinLanes"
    /\ \A l \in Lanes : lane[l] = "exited"
    /\ IF killer = "none"
       THEN client' = "waitGroup" /\ UNCHANGED queueComplete
       ELSE client' = "joinKiller" /\ queueComplete' = TRUE
    /\ UNCHANGED <<limits, readyVars, flags, laneVars, stage, groupVars,
                   systemVars, backgroundVars, killer, reported, faults>>

\* ... join that one, ...
JoinKiller ==
    /\ client = "joinKiller"
    /\ killer \in {"killed", "skipped"}
    /\ client' = "waitGroup"
    /\ UNCHANGED <<limits, readyVars, flags, laneVars, stage, groupVars,
                   systemVars, backgroundVars, killVars, reported, faults>>

\* A ~ProcessGroup that does not wait.
DropGroup ==
    /\ client = "waitGroup"
    /\ client' = "released"
    /\ UNCHANGED <<limits, readyVars, flags, laneVars, stage, groupVars,
                   systemVars, backgroundVars, killVars, reported, faults>>

\* ... and ~ProcessGroup waits until the last process was removed.
WaitGroup ==
    /\ client = "waitGroup"
    /\ processes = {}
    /\ client' = "released"
    /\ UNCHANGED <<limits, readyVars, flags, laneVars, stage, groupVars,
                   systemVars, backgroundVars, killVars, reported, faults>>
-----------------------------------------------------------------------------
LaneStep(l) ==
    /\ l \in Lanes
    /\ \/ TakePriorityJob(l) \/ TakeReadyJob(l)
       \/ WaitForJob(l) \/ ExitLane(l)

JobStep(j) ==
    \/ ExecuteInline(j) \/ ExecuteProcess(j) \/ Spawn(j)
    \/ PipesEnd(j) \/ Release(j) \/ Refused(j)
    \/ Wait(j) \/ Remove(j) \/ Report(j) \/ Decrement(j)

KillerStep == KillerSleeps \/ KillerKills

\* What the client thread does once it has called cancelAllJobs or the
\* destructor.
ClientStep == Interrupt \/ StartKiller \/ JoinLanes \/ JoinKiller \/ WaitGroup

Next ==
    \/ \E j \in Jobs : \/ AddJob(j) \/ JobStep(j)
                       \/ PollFails(j) \/ WaitFails(j)
                       \/ ProcessExits(j) \/ ProcessKilled(j)
    \/ \E l \in Lanes : LaneStep(l) \/ WakeSpuriously(l)
    \/ CancelAllJobs \/ ShutDown
    \/ KillerStep \/ ClientStep

\* Every thread is scheduled, calls that were begun go on, and processes
\* end.  Nobody has to add jobs, cancel or release the queue.
Fairness ==
    /\ \A l \in 1..Max({machine[1] : machine \in Machines}) : WF_vars(LaneStep(l))
    /\ \A j \in Jobs : WF_vars(JobStep(j)) /\ WF_vars(ProcessExits(j))
    /\ WF_vars(KillerStep)
    /\ WF_vars(ClientStep)

Spec == Init /\ [][Next]_vars
FairSpec == Spec /\ Fairness
-----------------------------------------------------------------------------
(* Properties                                                              *)

\* No process escapes a cancellation: once cancelAllJobs has interrupted,
\* every process still in the group that may be interrupted was, however the
\* spawns on the lanes interleaved with the call; and once the kill thread
\* has killed, every process still in the group was sent SIGKILL.
CancelReachesAll ==
    /\ killer # "none" \/ client = "escalate" =>
          \A j \in processes \cap Interruptible : "SIGINT" \in signals[j]
    /\ killer = "killed" => \A j \in processes : "SIGKILL" \in signals[j]

\* No lane sleeps on a job it should take: while some lane waits for work,
\* the lanes on their way to the queue are enough for the jobs in it.  One
\* notification per added job (addJob) thus never leaves a job behind.
QueuedJobsHaveLanes ==
    WaitingLanes # {} =>
       Len(readyJobs) + Len(readyPriorityJobs)
          <= Cardinality({l \in Lanes : lane[l] = "take"})

\* backgroundTaskCount counts the detached threads and the releases being
\* refused, and never allows more threads than backgroundTaskMax although
\* it is incremented before it is compared (releaseFn).
BackgroundAccounted ==
    /\ backgroundTaskCount =
          Cardinality(detached) + Cardinality({j \in Jobs : stage[j] = "refused"})
    /\ Cardinality(detached) <= backgroundTaskMax

\* The processes whose pipes are open, on lanes and on detached threads
\* together, keep within the open file limit that estimateTaskLimits read,
\* whenever the limit leaves room for one task at all.
PipesWithinLimit ==
    MaxConcurrentTasks(openFileLimit) >= 1 =>
       ReservedFileCount
          + FilesPerTask * Cardinality({j \in Jobs :
                                stage[j] \in {"poll", "refused", "wait"}})
          <= openFileLimit

\* Once the destructor has returned no process of the queue runs and no job
\* is left half done: whatever was added has been executed and its process
\* waited for, at most the last calls of a detached thread being outstanding.
ReleasedClean ==
    client = "released" =>
       /\ \A l \in Lanes : lane[l] = "exited"
       /\ \A j \in Jobs : /\ stage[j] \in {"new", "report", "decrement", "done"}
                          /\ stage[j] \in {"report", "decrement"} => j \in detached
                          /\ process[j] # "running"

\* Every job that was added is executed and reports, also after a
\* cancellation and during the release of the queue, unless poll() failed
\* for its process.
JobsFinish ==
    \A j \in Jobs :
       stage[j] = "ready" ~> (reported[j] # "none" \/ stage[j] = "abandoned")

\* The destructor returns, whatever was running or queued when it was
\* called, unless poll() failed for a process: that one stays in the group.
ReleaseReturns ==
    client = "joinLanes" ~>
       (client = "released" \/ \E j \in Jobs : stage[j] = "abandoned")

\* Releasing the queue waits for it to complete, as the build engine says
\* where it releases its queue: no thread of the queue is left afterwards.
ReleaseWaitsForThreads == client = "released" => detached = {}
=============================================================================
