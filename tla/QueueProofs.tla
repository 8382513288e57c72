---------------------------- MODULE QueueProofs ----------------------------
(* The execution queue for every set of jobs and every machine: a          *)
(* cancellation reaches every process, released lanes are counted exactly,  *)
(* the open pipes stay within the limit, a queued job always has a lane     *)
(* that will look for it, a lane is released at most once per job, and      *)
(* every variable keeps its type.                                          *)
EXTENDS LaneBasedExecutionQueue, FiniteSetTheorems, TLAPS

\* What makes CancelReachesAll inductive: from the moment cancelAllJobs has
\* left its critical section the group is closed, so that it only shrinks.
CancelInv ==
    /\ processes \subseteq Jobs
    /\ client \in {"signal", "escalate"} \/ killer # "none" => closed
    /\ CancelReachesAll

\* A step that adds no process and takes no signal back, and leaves the
\* cancellation where it is, keeps the invariant.
LEMMA ShrinkingKeepsCancelled ==
    ASSUME CancelInv, processes' \subseteq processes,
           UNCHANGED <<closed, signals, killer>>,
           client' = client \/ client' \notin {"signal", "escalate"}
    PROVE  CancelInv'
BY Zenon DEF CancelInv, CancelReachesAll

\* spawnProcess adds a process only to an open group, when nothing has been
\* signalled yet.
LEMMA SpawnKeepsCancelled ==
    ASSUME CancelInv, NEW j \in Jobs, Spawn(j)
    PROVE  CancelInv'
<1>1. UNCHANGED <<closed, signals, killer, client>>
    BY Zenon DEF Spawn, killVars
<1>2. CASE closed
  <2>1. processes' = processes
    BY <1>2, Zenon DEF Spawn
  <2>. QED
    BY <1>1, <2>1, ShrinkingKeepsCancelled, Zenon
<1>3. CASE ~closed
  <2>1. processes' \subseteq processes \cup {j}
    BY Zenon DEF Spawn, SpawnedBy, SpawnFails
  <2>2. client \notin {"signal", "escalate"} /\ killer = "none"
    BY <1>3, Zenon DEF CancelInv
  <2>. QED
    BY <1>1, <2>1, <2>2, Zenon DEF CancelInv, CancelReachesAll
<1>. QED
    BY <1>2, <1>3, Zenon

\* The steps of a job other than its spawn at most remove its process.
LEMMA JobKeepsCancelled ==
    ASSUME CancelInv, NEW j \in Jobs,
           \/ AddJob(j) \/ JobStep(j) \/ PollFails(j) \/ WaitFails(j)
           \/ ProcessExits(j) \/ ProcessKilled(j)
    PROVE  CancelInv'
<1>1. CASE Spawn(j)
    BY <1>1, SpawnKeepsCancelled, Zenon
<1>2. CASE Remove(j)
  <2>1. processes' \subseteq processes
    BY <1>2, Zenon DEF Remove
  <2>2. UNCHANGED <<closed, signals, killer, client>>
    BY <1>2, Zenon DEF Remove, systemVars, killVars
  <2>. QED
    BY <2>1, <2>2, ShrinkingKeepsCancelled, Zenon
<1>3. CASE \/ AddJob(j) \/ PollFails(j) \/ WaitFails(j) \/ ProcessExits(j)
           \/ ProcessKilled(j) \/ Wait(j)
  <2>1. UNCHANGED <<closed, processes, signals, killer, client>>
    BY <1>3, Zenon DEF AddJob, PollFails, WaitFails, ProcessExits, ProcessKilled, Wait,
                groupVars, systemVars, killVars
  <2>. QED
    BY <2>1, ShrinkingKeepsCancelled, Zenon
<1>4. CASE \/ ExecuteInline(j) \/ ExecuteProcess(j) \/ PipesEnd(j) \/ Release(j)
           \/ Refused(j) \/ Report(j) \/ Decrement(j)
  <2>1. UNCHANGED <<closed, processes, signals, killer, client>>
    BY <1>4, Zenon DEF ExecuteInline, ExecuteProcess, PipesEnd, Release, Refused,
                Report, Decrement, groupVars, systemVars, killVars
  <2>. QED
    BY <2>1, ShrinkingKeepsCancelled, Zenon
<1>. QED
    BY <1>1, <1>2, <1>3, <1>4, Zenon DEF JobStep

\* signalAll reaches every process of the group, except, with SIGINT, those
\* that are not safe to interrupt.
LEMMA SignalAllReaches ==
    ASSUME NEW signal, SignalAll(signal), NEW j \in Jobs
    PROVE  /\ signals[j] \subseteq signals'[j]
           /\ j \in processes /\ (signal = "SIGINT" => j \in Interruptible)
                 => signal \in signals'[j]
BY Zenon DEF SignalAll

\* The steps of cancelAllJobs and of the kill thread.
LEMMA CancelKeepsCancelled ==
    ASSUME CancelInv,
           CancelAllJobs \/ Interrupt \/ StartKiller \/ KillerSleeps \/ KillerKills
    PROVE  CancelInv'
<1>1. CASE CancelAllJobs
  <2>1. /\ closed' /\ client' = "signal"
        /\ UNCHANGED <<processes, signals, killer>>
    BY <1>1, Zenon DEF CancelAllJobs, systemVars, killVars
  <2>. QED
    BY <2>1, Zenon DEF CancelInv, CancelReachesAll
<1>2. CASE Interrupt
  <2>1. /\ client = "signal" /\ client' = "escalate" /\ SignalAll("SIGINT")
        /\ UNCHANGED <<closed, processes, killer>>
    BY <1>2, Zenon DEF Interrupt, groupVars, killVars
  <2>2. \A j \in processes \cap Interruptible : "SIGINT" \in signals'[j]
    BY <2>1, SignalAllReaches, Zenon DEF CancelInv
  <2>3. killer = "killed" => \A j \in processes : "SIGKILL" \in signals'[j]
    BY <2>1, SignalAllReaches, Zenon DEF CancelInv, CancelReachesAll
  <2>. QED
    BY <2>1, <2>2, <2>3, Zenon DEF CancelInv, CancelReachesAll
<1>3. CASE StartKiller
  <2>1. /\ client = "escalate" /\ client' = "live" /\ killer' = "starting"
        /\ UNCHANGED <<closed, processes, signals>>
    BY <1>3, Zenon DEF StartKiller, groupVars, systemVars
  <2>. QED
    BY <2>1, Zenon DEF CancelInv, CancelReachesAll
<1>4. CASE KillerSleeps
  <2>1. /\ killer = "starting" /\ killer' \in {"skipped", "sleeping"}
        /\ UNCHANGED <<closed, processes, signals, client>>
    BY <1>4, Zenon DEF KillerSleeps, groupVars, systemVars
  <2>. QED
    BY <2>1, Zenon DEF CancelInv, CancelReachesAll
<1>5. CASE KillerKills
  <2>1. /\ killer = "sleeping" /\ killer' = "killed" /\ SignalAll("SIGKILL")
        /\ UNCHANGED <<closed, processes, client>>
    BY <1>5, Zenon DEF KillerKills, groupVars
  <2>2. \A j \in processes : "SIGKILL" \in signals'[j]
    BY <2>1, SignalAllReaches, Zenon DEF CancelInv
  <2>3. \A j \in processes \cap Interruptible : "SIGINT" \in signals'[j]
    BY <2>1, SignalAllReaches, Zenon DEF CancelInv, CancelReachesAll
  <2>. QED
    BY <2>1, <2>2, <2>3, Zenon DEF CancelInv, CancelReachesAll
<1>. QED
    BY <1>1, <1>2, <1>3, <1>4, <1>5, Zenon

\* However cancelAllJobs interleaves with the lanes that spawn processes and
\* the threads that wait for them, every process left in the group was sent
\* the signals it is due.
THEOREM NoProcessEscapes == Spec => []CancelReachesAll
<1>1. Init => CancelInv
    BY Zenon DEF Init, CancelInv, CancelReachesAll
<1>2. CancelInv /\ [Next]_vars => CancelInv'
  <2>. SUFFICES ASSUME CancelInv, [Next]_vars PROVE CancelInv'
    BY Zenon
  <2>1. CASE \E j \in Jobs : \/ AddJob(j) \/ JobStep(j) \/ PollFails(j)
                             \/ WaitFails(j) \/ ProcessExits(j) \/ ProcessKilled(j)
    BY <2>1, JobKeepsCancelled, Zenon
  <2>2. CASE CancelAllJobs \/ Interrupt \/ StartKiller \/ KillerStep
    BY <2>2, CancelKeepsCancelled, Zenon DEF KillerStep
  <2>3. CASE \E l \in Lanes : LaneStep(l) \/ WakeSpuriously(l)
    <3>1. UNCHANGED <<closed, processes, signals, killer, client>>
      BY <2>3, Zenon DEF LaneStep, TakePriorityJob, TakeReadyJob, WaitForJob, ExitLane,
                  WakeSpuriously,
                  groupVars, systemVars, killVars
    <3>. QED
      BY <3>1, ShrinkingKeepsCancelled, Zenon
  <2>4. CASE ShutDown \/ JoinLanes \/ JoinKiller \/ WaitGroup
    <3>1. /\ UNCHANGED <<closed, processes, signals, killer>>
          /\ client' \notin {"signal", "escalate"}
      BY <2>4, Zenon DEF ShutDown, JoinLanes, JoinKiller, WaitGroup, groupVars,
                  systemVars, killVars
    <3>. QED
      BY <3>1, ShrinkingKeepsCancelled, Zenon
  <2>5. CASE UNCHANGED vars
    <3>1. UNCHANGED <<closed, processes, signals, killer, client>>
      BY <2>5, Zenon DEF vars, groupVars, systemVars, killVars
    <3>. QED
      BY <3>1, ShrinkingKeepsCancelled, Zenon
  <2>. QED
    BY <2>1, <2>2, <2>3, <2>4, <2>5, Zenon DEF Next, ClientStep
<1>3. CancelInv => CancelReachesAll
    BY Zenon DEF CancelInv
<1>. QED
    BY <1>1, <1>2, <1>3, PTL DEF Spec
-----------------------------------------------------------------------------
(* Released lanes                                                          *)

RefusedJobs == {j \in Jobs : stage[j] = "refused"}
DetachedStages == {"wait", "reaped", "report", "decrement"}

\* What makes BackgroundAccounted inductive: a detached thread is somewhere
\* between its start and its last step, which only such a thread takes.
BackgroundInv ==
    /\ stage \in [Jobs -> Stages]
    /\ detached \subseteq Jobs
    /\ backgroundTaskMax \in Nat
    /\ \A j \in detached : stage[j] \in DetachedStages
    /\ \A j \in Jobs : stage[j] = "decrement" => j \in detached
    /\ backgroundTaskCount = Cardinality(detached) + Cardinality(RefusedJobs)
    /\ Cardinality(detached) <= backgroundTaskMax

\* The two sets that are counted are finite.
LEMMA BackgroundFinite ==
    ASSUME detached \subseteq Jobs
    PROVE  /\ IsFiniteSet(detached) /\ Cardinality(detached) \in Nat
           /\ IsFiniteSet(RefusedJobs) /\ Cardinality(RefusedJobs) \in Nat
<1>1. RefusedJobs \subseteq Jobs
    BY Zenon DEF RefusedJobs
<1>. QED
    BY <1>1, FS_Subset, FS_CardinalityType, QueueAssumption, Zenon

\* The smaller of two numbers is one of them.
LEMMA MinOfTwo ==
    ASSUME NEW a \in Nat, NEW b \in Nat
    PROVE  Min({a, b}) \in Nat /\ Min({a, b}) <= a /\ Min({a, b}) <= b
<1>1. \E x \in {a, b} : \A y \in {a, b} : x <= y
  <2>1. CASE a <= b
    BY <2>1
  <2>2. CASE b <= a
    BY <2>2
  <2>. QED
    BY <2>1, <2>2
<1>2. Min({a, b}) \in {a, b} /\ \A y \in {a, b} : Min({a, b}) <= y
    BY <1>1, Zenon DEF Min
<1>. QED
    BY <1>2, Zenon

\* estimateTaskLimits never allows a negative number of background tasks.
LEMMA LimitsAreNatural ==
    ASSUME NEW lanes \in Nat, NEW files \in Nat
    PROVE  EstimateTaskLimits(lanes, files)[2] \in Nat
<1>. DEFINE most == MaxConcurrentTasks(files)
            wanted == BackgroundTasksWanted(lanes)
<1>1. wanted \in Nat
    BY MinOfTwo, QueueAssumption DEF BackgroundTasksWanted
<1>2. CASE files < ReservedFileCount
    BY <1>2, Zenon DEF EstimateTaskLimits
<1>3. CASE ~(files < ReservedFileCount) /\ lanes > most
    BY <1>3, Zenon DEF EstimateTaskLimits
<1>4. CASE ~(files < ReservedFileCount) /\ ~(lanes > most)
  <2>1. most \in Int
    BY DEF MaxConcurrentTasks, ReservedFileCount, FilesPerTask
  <2>2. most - lanes \in Nat
    BY <1>4, <2>1
  <2>3. Min({wanted, most - lanes}) \in Nat
    BY <1>1, <2>2, MinOfTwo, Zenon
  <2>. QED
    BY <1>4, <2>3, Zenon DEF EstimateTaskLimits
<1>. QED
    BY <1>2, <1>3, <1>4, Zenon

\* A queue starts with nothing to count.
LEMMA InitBackground == Init => BackgroundInv
<1>. SUFFICES ASSUME Init PROVE BackgroundInv
    BY Zenon
<1>1. backgroundTaskMax \in Nat
    BY LimitsAreNatural, QueueAssumption, ZenonT(60) DEF Init
<1>2. /\ stage = [j \in Jobs |-> "new"] /\ detached = {}
      /\ backgroundTaskCount = 0
    BY Zenon DEF Init
<1>3. RefusedJobs = {}
    BY <1>2, Zenon DEF RefusedJobs
<1>4. Cardinality({}) = 0
    BY FS_EmptySet, Zenon
<1>. QED
    BY <1>1, <1>2, <1>3, <1>4 DEF BackgroundInv, Stages

\* The jobs in the two ready queues are there once and are not executed yet.
IsReadyQueue(s, jobs) ==
    /\ s \in Seq(jobs)
    /\ \A i \in 1..Len(s) : stage[s[i]] = "ready"
    /\ \A i, n \in 1..Len(s) : s[i] = s[n] => i = n

ReadyInv ==
    /\ IsReadyQueue(readyJobs, Jobs \ High)
    /\ IsReadyQueue(readyPriorityJobs, Jobs \cap High)

\* A job that is not ready may move on without disturbing the queues.
LEMMA MoveKeepsQueue ==
    ASSUME stage \in [Jobs -> Stages], NEW jobs \in SUBSET Jobs,
           NEW s, IsReadyQueue(s, jobs),
           NEW j \in Jobs, NEW t, stage' = [stage EXCEPT ![j] = t],
           stage[j] # "ready" \/ j \notin jobs
    PROVE  /\ s \in Seq(jobs)
           /\ \A i \in 1..Len(s) : stage'[s[i]] = "ready"
           /\ \A i, n \in 1..Len(s) : s[i] = s[n] => i = n
<1>1. s \in Seq(jobs) /\ \A i, n \in 1..Len(s) : s[i] = s[n] => i = n
    BY Zenon DEF IsReadyQueue
<1>2. ASSUME NEW i \in 1..Len(s) PROVE stage'[s[i]] = "ready"
  <2>1. s[i] \in jobs /\ stage[s[i]] = "ready"
    BY <1>1 DEF IsReadyQueue
  <2>2. s[i] # j
    BY <2>1, Zenon
  <2>. QED
    BY <2>1, <2>2, Zenon
<1>. QED
    BY <1>1, <1>2, Zenon

\* addJob puts a new job at the end of its queue.
LEMMA AppendKeepsQueue ==
    ASSUME stage \in [Jobs -> Stages], NEW jobs \in SUBSET Jobs,
           NEW s, IsReadyQueue(s, jobs),
           NEW j \in jobs, stage[j] = "new",
           stage' = [stage EXCEPT ![j] = "ready"]
    PROVE  /\ Append(s, j) \in Seq(jobs)
           /\ \A i \in 1..Len(Append(s, j)) : stage'[Append(s, j)[i]] = "ready"
           /\ \A i, n \in 1..Len(Append(s, j)) :
                 Append(s, j)[i] = Append(s, j)[n] => i = n
<1>1. s \in Seq(jobs)
    BY Zenon DEF IsReadyQueue
<1>2. /\ Append(s, j) \in Seq(jobs) /\ Len(Append(s, j)) = Len(s) + 1
      /\ Len(s) \in Nat
      /\ \A i \in 1..Len(s) : Append(s, j)[i] = s[i] /\ s[i] \in jobs
      /\ Append(s, j)[Len(s) + 1] = j
    BY <1>1
<1>3. \A i \in 1..Len(s) : s[i] # j /\ stage[s[i]] = "ready"
    BY Zenon DEF IsReadyQueue
<1>4. \A i \in 1..Len(s) : stage'[Append(s, j)[i]] = "ready"
    BY <1>2, <1>3, Zenon
<1>5. stage'[j] = "ready"
    BY Zenon
<1>6. \A i \in 1..Len(Append(s, j)) : i \in 1..Len(s) \/ i = Len(s) + 1
    BY <1>2
<1>7. \A i, n \in 1..Len(Append(s, j)) : Append(s, j)[i] = Append(s, j)[n] => i = n
    BY <1>2, <1>3, <1>6, ZenonT(60) DEF IsReadyQueue
<1>8. \A i \in 1..Len(Append(s, j)) : stage'[Append(s, j)[i]] = "ready"
    BY <1>2, <1>4, <1>5, <1>6, Zenon
<1>. QED
    BY <1>2, <1>7, <1>8, Zenon

\* s is a ready queue after the step.
ReadyAfter(s, jobs) ==
    /\ s \in Seq(jobs)
    /\ \A i \in 1..Len(s) : stage'[s[i]] = "ready"
    /\ \A i, n \in 1..Len(s) : s[i] = s[n] => i = n

\* rest is s without its place p.
Removes(rest, s, p) ==
    /\ Len(rest) = Len(s) - 1
    /\ \A i \in 1..Len(rest) : rest[i] = s[IF i < p THEN i ELSE i + 1]

\* A lane takes the job at any place of a queue out of it.
LEMMA TakeKeepsQueue ==
    ASSUME stage \in [Jobs -> Stages], NEW jobs \in SUBSET Jobs,
           NEW s, IsReadyQueue(s, jobs), NEW p \in 1..Len(s),
           NEW rest \in Seq(jobs), Removes(rest, s, p),
           stage' = [stage EXCEPT ![s[p]] = "execute"]
    PROVE  ReadyAfter(rest, jobs)
<1>. DEFINE at(i) == IF i < p THEN i ELSE i + 1
<1>1. s \in Seq(jobs) /\ Len(s) \in Nat /\ Len(s) >= 1
    BY DEF IsReadyQueue
<1>2. \A i \in 1..(Len(s) - 1) : /\ at(i) \in 1..Len(s) /\ at(i) # p
                                 /\ rest[i] = s[at(i)]
    BY <1>1 DEF Removes
<1>3. \A i, n \in 1..(Len(s) - 1) : at(i) = at(n) => i = n
    BY <1>1
<1>. HIDE DEF at
<1>4. \A i \in 1..Len(rest) : stage'[rest[i]] = "ready"
  <2>1. \A i \in 1..Len(s) : i # p => s[i] # s[p] /\ s[i] \in Jobs
    BY <1>1 DEF IsReadyQueue
  <2>2. \A i \in 1..Len(s) : i # p => stage'[s[i]] = "ready"
    BY <2>1, Zenon DEF IsReadyQueue
  <2>. QED
    BY <1>2, <2>2 DEF Removes
<1>5. ASSUME NEW i \in 1..Len(rest), NEW n \in 1..Len(rest), rest[i] = rest[n]
      PROVE  i = n
  <2>1. i \in 1..(Len(s) - 1) /\ n \in 1..(Len(s) - 1)
    BY Zenon DEF Removes
  <2>2. s[at(i)] = s[at(n)] /\ at(i) \in 1..Len(s) /\ at(n) \in 1..Len(s)
    BY <1>2, <1>5, <2>1, Zenon
  <2>3. at(i) = at(n)
    BY <2>2, Zenon DEF IsReadyQueue
  <2>. QED
    BY <1>3, <2>1, <2>3, Zenon
<1>. QED
    BY <1>4, <1>5, Zenon DEF ReadyAfter

\* What is left without one place is a sequence, as the lemma above needs it.
LEMMA WithoutIsSequence ==
    ASSUME NEW jobs, NEW s \in Seq(jobs), NEW p \in 1..Len(s)
    PROVE  Without(s, p) \in Seq(jobs) /\ Removes(Without(s, p), s, p)
<1>1. Len(s) \in Nat /\ Len(s) - 1 \in Nat
    OBVIOUS
<1>2. \A i \in 1..(Len(s) - 1) : s[IF i < p THEN i ELSE i + 1] \in jobs
    BY <1>1
<1>3. Without(s, p) \in [1..(Len(s) - 1) -> jobs]
    BY <1>2, Zenon DEF Without
<1>4. Without(s, p) \in Seq(jobs) /\ Len(Without(s, p)) = Len(s) - 1
    BY <1>1, <1>3
<1>5. \A i \in 1..(Len(s) - 1) :
         Without(s, p)[i] = s[IF i < p THEN i ELSE i + 1]
    BY Zenon DEF Without
<1>. QED
    BY <1>4, <1>5, Zenon DEF Removes

\* A job that is neither refused before nor after moves on: nothing to count.
LEMMA MoveKeepsBackground ==
    ASSUME BackgroundInv, NEW j \in Jobs, NEW t \in Stages \ {"refused"},
           stage' = [stage EXCEPT ![j] = t], stage[j] # "refused",
           j \in detached => t \in DetachedStages,
           t = "decrement" => j \in detached,
           UNCHANGED <<detached, backgroundTaskCount, backgroundTaskMax>>
    PROVE  BackgroundInv'
<1>1. stage' \in [Jobs -> Stages] /\ stage'[j] = t
      /\ \A i \in Jobs : i # j => stage'[i] = stage[i]
    BY Zenon DEF BackgroundInv
<1>2. RefusedJobs' = RefusedJobs
    BY <1>1, Zenon DEF RefusedJobs
<1>3. \A i \in detached : stage'[i] \in DetachedStages
    BY <1>1, Zenon DEF BackgroundInv
<1>4. \A i \in Jobs : stage'[i] = "decrement" => i \in detached
    BY <1>1, Zenon DEF BackgroundInv
<1>. QED
    BY <1>1, <1>2, <1>3, <1>4, Zenon DEF BackgroundInv

\* It leaves the ready queues alone unless it is in one.
LEMMA MoveKeepsReady ==
    ASSUME BackgroundInv, ReadyInv, NEW j \in Jobs, NEW t,
           stage' = [stage EXCEPT ![j] = t], stage[j] # "ready",
           UNCHANGED readyVars
    PROVE  ReadyInv'
<1>1. stage \in [Jobs -> Stages] /\ readyJobs' = readyJobs
      /\ readyPriorityJobs' = readyPriorityJobs
    BY Zenon DEF BackgroundInv, readyVars
<1>2. IsReadyQueue(readyJobs, Jobs \ High)'
    BY <1>1, MoveKeepsQueue DEF ReadyInv, IsReadyQueue
<1>3. IsReadyQueue(readyPriorityJobs, Jobs \cap High)'
    BY <1>1, MoveKeepsQueue DEF ReadyInv, IsReadyQueue
<1>. QED
    BY <1>2, <1>3, Zenon DEF ReadyInv

\* The steps in which a job just moves on.
LEMMA JobMoveKeepsBackground ==
    ASSUME BackgroundInv, ReadyInv, NEW j \in Jobs,
           \/ ExecuteInline(j) \/ ExecuteProcess(j) \/ Spawn(j) \/ PipesEnd(j)
           \/ PollFails(j) \/ Wait(j) \/ WaitFails(j) \/ Remove(j) \/ Report(j)
    PROVE  BackgroundInv' /\ ReadyInv'
<1>. DEFINE Moves(t) == /\ stage' = [stage EXCEPT ![j] = t]
                        /\ t \in Stages \ {"refused"}
                        /\ stage[j] \notin {"refused", "ready"}
                        /\ j \in detached => t \in DetachedStages
                        /\ t = "decrement" => j \in detached
<1>1. j \in detached => stage[j] \in DetachedStages
    BY Zenon DEF BackgroundInv
<1>2. UNCHANGED <<detached, backgroundTaskCount, backgroundTaskMax>>
      /\ UNCHANGED readyVars
    BY Zenon DEF ExecuteInline, ExecuteProcess, Spawn, PipesEnd, PollFails, Wait,
           WaitFails, Remove, Report, backgroundVars, limits
<1>3. \E t \in Stages : Moves(t)
  <2>1. CASE ExecuteInline(j)
    <3>1. Moves("done")
      BY <1>1, <2>1, Zenon DEF ExecuteInline, Complete, MoveTo, Stages, DetachedStages
    <3>. QED
      BY <3>1, Zenon
  <2>2. CASE ExecuteProcess(j)
    <3>1. Moves("done") \/ Moves("spawn")
      BY <1>1, <2>2, Zenon DEF ExecuteProcess, Complete, MoveTo, Stages, DetachedStages
    <3>. QED
      BY <3>1, Zenon DEF Stages
  <2>3. CASE Spawn(j)
    <3>1. Moves("done") \/ Moves("poll")
      BY <1>1, <2>3, Zenon DEF Spawn, SpawnedBy, SpawnFails, Complete, MoveTo, Stages,
                        DetachedStages
    <3>. QED
      BY <3>1, Zenon DEF Stages
  <2>4. CASE PipesEnd(j) \/ PollFails(j)
    <3>1. Moves("wait") \/ Moves("abandoned")
      BY <1>1, <2>4, Zenon DEF PipesEnd, PollFails, MoveTo, Stages, DetachedStages
    <3>. QED
      BY <3>1, Zenon DEF Stages
  <2>5. CASE Wait(j) \/ WaitFails(j) \/ Remove(j)
    <3>1. Moves("reaped") \/ Moves("report")
      BY <2>5, Zenon DEF Wait, WaitFails, Remove, MoveTo, Stages, DetachedStages
    <3>. QED
      BY <3>1, Zenon DEF Stages
  <2>6. CASE Report(j)
    <3>1. stage[j] = "report"
      BY <2>6, Zenon DEF Report
    <3>2. CASE j \in detached
      <4>1. stage' = [stage EXCEPT ![j] = "decrement"]
        BY <2>6, <3>2, Zenon DEF Report, MoveTo
      <4>2. Moves("decrement")
        BY <3>1, <3>2, <4>1, Zenon DEF Stages, DetachedStages
      <4>. QED
        BY <4>2, Zenon
    <3>3. CASE j \notin detached
      <4>1. stage' = [stage EXCEPT ![j] = "done"]
        BY <2>6, <3>3, Zenon DEF Report, Complete, MoveTo
      <4>2. Moves("done")
        BY <3>1, <3>3, <4>1, Zenon DEF Stages
      <4>. QED
        BY <4>2, Zenon
    <3>. QED
      BY <3>2, <3>3, Zenon
  <2>. QED
    BY <2>1, <2>2, <2>3, <2>4, <2>5, <2>6, Zenon
<1>4. PICK t \in Stages : Moves(t)
    BY <1>3, Zenon
<1>. QED
    BY <1>2, <1>4, MoveKeepsBackground, MoveKeepsReady, Zenon

\* releaseFn: an allowed release is one more detached thread, and there was
\* room for it; a refused one is counted until it is counted off.
LEMMA ReleaseKeepsBackground ==
    ASSUME BackgroundInv, NEW j \in Jobs, Release(j)
    PROVE  BackgroundInv'
<1>1. /\ stage[j] = "poll" /\ backgroundTaskMax' = backgroundTaskMax
      /\ backgroundTaskCount' = backgroundTaskCount + 1
    BY Zenon DEF Release, limits
<1>2. j \notin detached /\ j \notin RefusedJobs
    BY <1>1, Zenon DEF BackgroundInv, RefusedJobs, DetachedStages
<1>3. /\ IsFiniteSet(detached) /\ Cardinality(detached) \in Nat
      /\ IsFiniteSet(RefusedJobs) /\ Cardinality(RefusedJobs) \in Nat
    BY BackgroundFinite, Zenon DEF BackgroundInv
<1>4. CASE ReleaseAllowed
  <2>1. detached' = detached \cup {j} /\ stage' = [stage EXCEPT ![j] = "wait"]
    BY <1>4, Zenon DEF Release, MoveTo
  <2>2. Cardinality(detached') = Cardinality(detached) + 1
    BY <1>2, <1>3, <2>1, FS_AddElement, Zenon
  <2>3. /\ stage' \in [Jobs -> Stages] /\ stage'[j] = "wait"
        /\ \A i \in Jobs : i # j => stage'[i] = stage[i]
    BY <2>1, Zenon DEF BackgroundInv, Stages
  <2>4. RefusedJobs' = RefusedJobs
    BY <1>1, <2>3, Zenon DEF RefusedJobs
  <2>5. Cardinality(detached) + 1 <= backgroundTaskMax
    BY <1>3, <1>4 DEF ReleaseAllowed, BackgroundInv
  <2>6. backgroundTaskCount' = Cardinality(detached') + Cardinality(RefusedJobs')
    BY <1>1, <1>3, <2>2, <2>4 DEF BackgroundInv
  <2>7. \A i \in detached' : stage'[i] \in DetachedStages
    BY <2>1, <2>3, Zenon DEF BackgroundInv, DetachedStages
  <2>8. \A i \in Jobs : stage'[i] = "decrement" => i \in detached'
    BY <2>1, <2>3, Zenon DEF BackgroundInv
  <2>. QED
    BY <1>1, <2>1, <2>2, <2>3, <2>5, <2>6, <2>7, <2>8, Zenon DEF BackgroundInv
<1>5. CASE ~ReleaseAllowed
  <2>1. detached' = detached /\ stage' = [stage EXCEPT ![j] = "refused"]
    BY <1>5, Zenon DEF Release, MoveTo
  <2>2. /\ stage' \in [Jobs -> Stages] /\ stage'[j] = "refused"
        /\ \A i \in Jobs : i # j => stage'[i] = stage[i]
    BY <2>1, Zenon DEF BackgroundInv, Stages
  <2>3. RefusedJobs' = RefusedJobs \cup {j}
    BY <2>2, Zenon DEF RefusedJobs
  <2>4. Cardinality(RefusedJobs') = Cardinality(RefusedJobs) + 1
    BY <1>2, <1>3, <2>3, FS_AddElement, Zenon
  <2>5. backgroundTaskCount' = Cardinality(detached') + Cardinality(RefusedJobs')
    BY <1>1, <1>3, <2>1, <2>4 DEF BackgroundInv
  <2>6. \A i \in detached' : stage'[i] \in DetachedStages
    BY <1>2, <2>1, <2>2, Zenon DEF BackgroundInv
  <2>7. \A i \in Jobs : stage'[i] = "decrement" => i \in detached'
    BY <2>1, <2>2, Zenon DEF BackgroundInv
  <2>. QED
    BY <1>1, <2>1, <2>2, <2>5, <2>6, <2>7, Zenon DEF BackgroundInv
<1>. QED
    BY <1>4, <1>5, Zenon

\* The two places that count a background task off.
LEMMA CountingOffKeepsBackground ==
    ASSUME BackgroundInv, NEW j \in Jobs, Refused(j) \/ Decrement(j)
    PROVE  BackgroundInv'
<1>1. /\ backgroundTaskMax' = backgroundTaskMax
      /\ backgroundTaskCount' = backgroundTaskCount - 1
    BY Zenon DEF Refused, Decrement, limits
<1>2. /\ IsFiniteSet(detached) /\ Cardinality(detached) \in Nat
      /\ IsFiniteSet(RefusedJobs) /\ Cardinality(RefusedJobs) \in Nat
    BY BackgroundFinite, Zenon DEF BackgroundInv
<1>3. CASE Refused(j)
  <2>1. /\ stage[j] = "refused" /\ detached' = detached
        /\ stage' = [stage EXCEPT ![j] = "wait"]
    BY <1>3, Zenon DEF Refused, MoveTo
  <2>2. /\ stage' \in [Jobs -> Stages] /\ stage'[j] = "wait"
        /\ \A i \in Jobs : i # j => stage'[i] = stage[i]
    BY <2>1, Zenon DEF BackgroundInv, Stages
  <2>3. RefusedJobs' = RefusedJobs \ {j} /\ j \in RefusedJobs
    BY <2>1, <2>2, Zenon DEF RefusedJobs
  <2>4. Cardinality(RefusedJobs') = Cardinality(RefusedJobs) - 1
    BY <1>2, <2>3, FS_RemoveElement, Zenon
  <2>5. backgroundTaskCount' = Cardinality(detached') + Cardinality(RefusedJobs')
    BY <1>1, <1>2, <2>1, <2>4 DEF BackgroundInv
  <2>6. \A i \in detached' : stage'[i] \in DetachedStages
    BY <2>1, <2>2, Zenon DEF BackgroundInv, DetachedStages
  <2>7. \A i \in Jobs : stage'[i] = "decrement" => i \in detached'
    BY <2>1, <2>2, Zenon DEF BackgroundInv
  <2>. QED
    BY <1>1, <2>1, <2>2, <2>5, <2>6, <2>7, Zenon DEF BackgroundInv
<1>4. CASE Decrement(j)
  <2>1. /\ stage[j] = "decrement" /\ detached' = detached \ {j}
        /\ stage' = [stage EXCEPT ![j] = "done"]
    BY <1>4, Zenon DEF Decrement, MoveTo
  <2>2. j \in detached
    BY <2>1, Zenon DEF BackgroundInv
  <2>3. Cardinality(detached') = Cardinality(detached) - 1
    BY <1>2, <2>1, <2>2, FS_RemoveElement, Zenon
  <2>4. /\ stage' \in [Jobs -> Stages] /\ stage'[j] = "done"
        /\ \A i \in Jobs : i # j => stage'[i] = stage[i]
    BY <2>1, Zenon DEF BackgroundInv, Stages
  <2>5. RefusedJobs' = RefusedJobs
    BY <2>1, <2>4, Zenon DEF RefusedJobs
  <2>6. /\ backgroundTaskCount' = Cardinality(detached') + Cardinality(RefusedJobs')
        /\ Cardinality(detached') <= backgroundTaskMax
    BY <1>1, <1>2, <2>3, <2>5 DEF BackgroundInv
  <2>7. \A i \in detached' : stage'[i] \in DetachedStages
    BY <2>1, <2>4, Zenon DEF BackgroundInv
  <2>8. \A i \in Jobs : stage'[i] = "decrement" => i \in detached'
    BY <2>1, <2>4, Zenon DEF BackgroundInv
  <2>. QED
    BY <1>1, <2>1, <2>4, <2>6, <2>7, <2>8, Zenon DEF BackgroundInv
<1>. QED
    BY <1>3, <1>4, Zenon

\* addJob puts the job into the queue of its priority.
LEMMA AddKeepsBackground ==
    ASSUME BackgroundInv, ReadyInv, NEW j \in Jobs, AddJob(j)
    PROVE  BackgroundInv' /\ ReadyInv'
<1>1. /\ stage[j] = "new" /\ stage' = [stage EXCEPT ![j] = "ready"]
      /\ UNCHANGED <<detached, backgroundTaskCount, backgroundTaskMax>>
    BY Zenon DEF AddJob, backgroundVars, limits
<1>2. stage \in [Jobs -> Stages] /\ j \notin detached
    BY <1>1, Zenon DEF BackgroundInv, DetachedStages
<1>3. BackgroundInv'
    BY <1>1, <1>2, MoveKeepsBackground, Zenon DEF Stages
<1>4. CASE j \in High
  <2>1. /\ readyPriorityJobs' = Append(readyPriorityJobs, j)
        /\ readyJobs' = readyJobs
    BY <1>4, Zenon DEF AddJob
  <2>2. IsReadyQueue(readyPriorityJobs, Jobs \cap High)'
    BY <1>1, <1>2, <1>4, <2>1, AppendKeepsQueue DEF ReadyInv, IsReadyQueue
  <2>3. IsReadyQueue(readyJobs, Jobs \ High)'
    BY <1>1, <1>2, <2>1, MoveKeepsQueue DEF ReadyInv, IsReadyQueue
  <2>. QED
    BY <1>3, <2>2, <2>3, Zenon DEF ReadyInv
<1>5. CASE j \notin High
  <2>1. /\ readyJobs' = Append(readyJobs, j)
        /\ readyPriorityJobs' = readyPriorityJobs
    BY <1>5, Zenon DEF AddJob
  <2>2. IsReadyQueue(readyJobs, Jobs \ High)'
    BY <1>1, <1>2, <1>5, <2>1, AppendKeepsQueue DEF ReadyInv, IsReadyQueue
  <2>3. IsReadyQueue(readyPriorityJobs, Jobs \cap High)'
    BY <1>1, <1>2, <2>1, MoveKeepsQueue DEF ReadyInv, IsReadyQueue
  <2>. QED
    BY <1>3, <2>2, <2>3, Zenon DEF ReadyInv
<1>. QED
    BY <1>4, <1>5, Zenon

\* A lane takes a job that was ready, so neither detached nor refused.
LEMMA TakeKeepsBackground ==
    ASSUME BackgroundInv, ReadyInv, NEW l,
           TakePriorityJob(l) \/ TakeReadyJob(l)
    PROVE  BackgroundInv' /\ ReadyInv'
<1>1. /\ UNCHANGED <<detached, backgroundTaskCount, backgroundTaskMax>>
      /\ stage \in [Jobs -> Stages]
    BY Zenon DEF TakePriorityJob, TakeReadyJob, backgroundVars, limits, BackgroundInv
<1>2. ASSUME NEW j \in Jobs, stage[j] = "ready",
             stage' = [stage EXCEPT ![j] = "execute"]
      PROVE  BackgroundInv'
  <2>1. j \notin detached
    BY <1>2, Zenon DEF BackgroundInv, DetachedStages
  <2>. QED
    BY <1>1, <1>2, <2>1, MoveKeepsBackground, Zenon DEF Stages
<1>3. CASE TakePriorityJob(l)
  <2>. DEFINE s == readyPriorityJobs
  <2>1. /\ s # <<>> /\ s' = Tail(s) /\ readyJobs' = readyJobs
        /\ stage' = [stage EXCEPT ![Head(s)] = "execute"]
    BY <1>3, Zenon DEF TakePriorityJob, Execute
  <2>2. s \in Seq(Jobs \cap High)
    BY Zenon DEF ReadyInv, IsReadyQueue
  <2>3. 1 \in 1..Len(s) /\ Head(s) = s[1] /\ s[1] \in Jobs \cap High
    BY <2>1, <2>2
  <2>4. Tail(s) \in Seq(Jobs \cap High) /\ Removes(Tail(s), s, 1)
    BY <2>1, <2>2 DEF Removes
  <2>5. stage[s[1]] = "ready"
    BY <2>3, Zenon DEF ReadyInv, IsReadyQueue
  <2>6. IsReadyQueue(readyPriorityJobs, Jobs \cap High)'
    <3>1. IsReadyQueue(s, Jobs \cap High) /\ Jobs \cap High \in SUBSET Jobs
      BY Zenon DEF ReadyInv
    <3>2. stage' = [stage EXCEPT ![s[1]] = "execute"]
      BY <2>1, <2>3, Zenon
    <3>3. ReadyAfter(Tail(s), Jobs \cap High)
      BY <1>1, <2>3, <2>4, <3>1, <3>2, TakeKeepsQueue, Zenon
    <3>. QED
      BY <2>1, <3>3, Zenon DEF IsReadyQueue, ReadyAfter
  <2>7. IsReadyQueue(readyJobs, Jobs \ High)'
    BY <1>1, <2>1, <2>3, MoveKeepsQueue DEF ReadyInv, IsReadyQueue
  <2>. QED
    BY <1>2, <2>1, <2>3, <2>5, <2>6, <2>7, Zenon DEF ReadyInv
<1>4. CASE TakeReadyJob(l)
  <2>1. PICK n \in NextReady : /\ readyJobs' = Without(readyJobs, n)
                               /\ Execute(l, readyJobs[n])
    BY <1>4, Zenon DEF TakeReadyJob
  <2>2. /\ readyPriorityJobs' = readyPriorityJobs
        /\ stage' = [stage EXCEPT ![readyJobs[n]] = "execute"]
    BY <1>4, <2>1, Zenon DEF TakeReadyJob, Execute
  <2>3. readyJobs \in Seq(Jobs \ High)
    BY Zenon DEF ReadyInv, IsReadyQueue
  <2>4. n \in 1..Len(readyJobs) /\ readyJobs[n] \in Jobs \ High
    BY <2>3 DEF NextReady
  <2>5. stage[readyJobs[n]] = "ready"
    BY <2>4, Zenon DEF ReadyInv, IsReadyQueue
  <2>6. IsReadyQueue(readyJobs, Jobs \ High)'
    <3>. DEFINE rest == Without(readyJobs, n)
    <3>1. rest \in Seq(Jobs \ High) /\ Removes(rest, readyJobs, n)
      BY <2>3, <2>4, WithoutIsSequence, Zenon
    <3>. HIDE DEF rest
    <3>2. IsReadyQueue(readyJobs, Jobs \ High)
      BY Zenon DEF ReadyInv
    <3>3. ReadyAfter(rest, Jobs \ High)
      <4>1. Jobs \ High \in SUBSET Jobs
        BY Zenon
      <4>. QED
        BY <1>1, <2>2, <2>4, <3>1, <3>2, <4>1, TakeKeepsQueue, Zenon
    <3>4. readyJobs' = rest
      BY <2>1, Zenon DEF rest
    <3>. QED
      BY <3>3, <3>4, Zenon DEF IsReadyQueue, ReadyAfter
  <2>7. IsReadyQueue(readyPriorityJobs, Jobs \cap High)'
    BY <1>1, <2>2, <2>4, MoveKeepsQueue DEF ReadyInv, IsReadyQueue
  <2>. QED
    BY <1>2, <2>2, <2>4, <2>5, <2>6, <2>7, Zenon DEF ReadyInv
<1>. QED
    BY <1>3, <1>4, Zenon

\* Steps of other threads leave jobs, queues and counts alone.
LEMMA OthersKeepBackground ==
    ASSUME BackgroundInv, ReadyInv,
           UNCHANGED <<stage, detached, backgroundTaskCount, backgroundTaskMax,
                       readyJobs, readyPriorityJobs>>
    PROVE  BackgroundInv' /\ ReadyInv'
<1>1. RefusedJobs' = RefusedJobs
    BY Zenon DEF RefusedJobs
<1>2. BackgroundInv'
    BY <1>1, Zenon DEF BackgroundInv
<1>3. ReadyInv'
    BY Zenon DEF ReadyInv, IsReadyQueue
<1>. QED
    BY <1>2, <1>3, Zenon

\* The two invariants hold throughout: no step of a lane, a detached thread,
\* the kill thread or the client disturbs them.
LEMMA BackgroundHolds == Spec => [](BackgroundInv /\ ReadyInv)
<1>. DEFINE Inv == BackgroundInv /\ ReadyInv
<1>1. Init => Inv
  <2>1. Init => ReadyInv
    BY DEF Init, ReadyInv, IsReadyQueue
  <2>. QED
    BY <2>1, InitBackground, Zenon
<1>2. Inv /\ [Next]_vars => Inv'
  <2>. SUFFICES ASSUME Inv, [Next]_vars PROVE Inv'
    BY Zenon
  <2>1. ASSUME NEW j \in Jobs,
               \/ ExecuteInline(j) \/ ExecuteProcess(j) \/ Spawn(j) \/ PipesEnd(j)
               \/ PollFails(j) \/ Wait(j) \/ WaitFails(j) \/ Remove(j) \/ Report(j)
        PROVE  Inv'
    BY <2>1, JobMoveKeepsBackground, Zenon
  <2>2. ASSUME NEW j \in Jobs, AddJob(j) PROVE Inv'
    BY <2>2, AddKeepsBackground, Zenon
  <2>3. ASSUME NEW j \in Jobs, Release(j) \/ Refused(j) \/ Decrement(j) PROVE Inv'
    <3>1. PICK t : /\ stage' = [stage EXCEPT ![j] = t] /\ stage[j] # "ready"
                   /\ UNCHANGED readyVars
      BY <2>3, Zenon DEF Release, Refused, Decrement, MoveTo
    <3>. QED
      BY <2>3, <3>1, MoveKeepsReady, ReleaseKeepsBackground,
         CountingOffKeepsBackground, Zenon
  <2>4. ASSUME NEW j \in Jobs, ProcessExits(j) \/ ProcessKilled(j) PROVE Inv'
    BY <2>4, OthersKeepBackground, Zenon DEF ProcessExits, ProcessKilled,
       backgroundVars, limits, readyVars
  <2>5. ASSUME NEW l \in Lanes, LaneStep(l) \/ WakeSpuriously(l) PROVE Inv'
    <3>1. CASE TakePriorityJob(l) \/ TakeReadyJob(l)
      BY <3>1, TakeKeepsBackground, Zenon
    <3>2. CASE WaitForJob(l) \/ ExitLane(l) \/ WakeSpuriously(l)
      BY <3>2, OthersKeepBackground, Zenon DEF WaitForJob, ExitLane, WakeSpuriously,
         backgroundVars, limits, readyVars
    <3>. QED
      BY <2>5, <3>1, <3>2, Zenon DEF LaneStep
  <2>6. CASE CancelAllJobs \/ Interrupt \/ StartKiller \/ KillerStep
    BY <2>6, OthersKeepBackground, Zenon DEF CancelAllJobs, Interrupt, StartKiller,
       KillerStep, KillerSleeps, KillerKills, backgroundVars, limits, readyVars
  <2>7. CASE ShutDown \/ JoinLanes \/ JoinKiller \/ WaitGroup
    BY <2>7, OthersKeepBackground, Zenon DEF ShutDown, JoinLanes, JoinKiller, WaitGroup,
       backgroundVars, limits, readyVars
  <2>8. CASE UNCHANGED vars
    BY <2>8, OthersKeepBackground, Zenon DEF vars, backgroundVars, limits, readyVars
  <2>. QED
    BY <2>1, <2>2, <2>3, <2>4, <2>5, <2>6, <2>7, <2>8, Zenon
       DEF Next, JobStep, ClientStep
<1>. QED
    BY <1>1, <1>2, PTL DEF Spec

\* backgroundTaskCount is exact and keeps the detached threads within
\* backgroundTaskMax, although releaseFn raises it before it compares and
\* lowers it again in a step of its own.
THEOREM BackgroundBounded == Spec => []BackgroundAccounted
<1>1. BackgroundInv => BackgroundAccounted
    BY Zenon DEF BackgroundInv, RefusedJobs, BackgroundAccounted
<1>. QED
    BY <1>1, BackgroundHolds, PTL
-----------------------------------------------------------------------------
(* Lanes and the jobs they run                                             *)

LaneStates == {"take", "waiting", "busy", "exited"}
TakingLanes == {l \in Lanes : lane[l] = "take"}

\* The job is executed by a lane, not by a detached thread.
HoldsLane(j) ==
    \/ stage[j] \in {"execute", "spawn", "poll", "refused"}
    \/ stage[j] \in {"wait", "reaped", "report"} /\ j \notin detached

\* A lane runs a job exactly while the job's execution is the lane's.
LanesInv ==
    /\ IsFiniteSet(Lanes) /\ Lanes # {}
    /\ lane \in [Lanes -> LaneStates] /\ runs \in [Lanes -> Jobs \cup {NoJob}]
    /\ \A l \in Lanes : lane[l] = "busy" <=> runs[l] # NoJob
    /\ \A j \in Jobs : HoldsLane(j) <=> \E l \in Lanes : runs[l] = j

\* A step of job j that leaves its lane, if it has one, to it.
LEMMA KeepingKeepsLanes ==
    ASSUME BackgroundInv, LanesInv, NEW j \in Jobs, NEW t,
           stage' = [stage EXCEPT ![j] = t],
           detached' \ {j} = detached \ {j},
           UNCHANGED laneVars, HoldsLane(j)' <=> HoldsLane(j)
    PROVE  LanesInv'
<1>1. lane' = lane /\ runs' = runs /\ Lanes' = Lanes
    BY Zenon DEF laneVars, Lanes
<1>2. \A i \in Jobs : HoldsLane(i)' <=> HoldsLane(i)
  <2>1. \A i \in Jobs : i # j => /\ stage'[i] = stage[i]
                                /\ i \in detached' <=> i \in detached
    BY Zenon DEF BackgroundInv
  <2>. QED
    BY <2>1 DEF HoldsLane
<1>. QED
    BY <1>1, <1>2, Zenon DEF LanesInv

\* A step after which the lane of job j, if it has one, looks for another.
LEMMA ReturningKeepsLanes ==
    ASSUME BackgroundInv, LanesInv, NEW j \in Jobs, NEW t,
           stage' = [stage EXCEPT ![j] = t],
           detached' \ {j} = detached \ {j},
           LaneReturns(j), ~HoldsLane(j)'
    PROVE  LanesInv' /\ WaitingLanes' = WaitingLanes
                     /\ TakingLanes \subseteq TakingLanes'
<1>1. /\ Lanes' = Lanes /\ lane' \in [Lanes -> LaneStates]
      /\ runs' \in [Lanes -> Jobs \cup {NoJob}]
    BY Zenon DEF LaneReturns, Lanes, LanesInv, LaneStates
<1>2. \A l \in Lanes :
         /\ runs[l] = j => lane[l] = "busy" /\ lane'[l] = "take" /\ runs'[l] = NoJob
         /\ runs[l] # j => lane'[l] = lane[l] /\ runs'[l] = runs[l]
    BY QueueAssumption, Zenon DEF LaneReturns, LanesInv
<1>3. \A i \in Jobs : i # j => (HoldsLane(i)' <=> HoldsLane(i))
  <2>1. \A i \in Jobs : i # j => /\ stage'[i] = stage[i]
                                /\ i \in detached' <=> i \in detached
    BY Zenon DEF BackgroundInv
  <2>. QED
    BY <2>1 DEF HoldsLane
<1>4. \A i \in Jobs : HoldsLane(i)' <=> \E l \in Lanes : runs'[l] = i
    BY <1>2, <1>3, QueueAssumption, ZenonT(60) DEF LanesInv
<1>5. \A l \in Lanes : lane'[l] = "busy" <=> runs'[l] # NoJob
    BY <1>2, Zenon DEF LanesInv
<1>6. WaitingLanes' = WaitingLanes /\ TakingLanes \subseteq TakingLanes'
    BY <1>1, <1>2, Zenon DEF WaitingLanes, TakingLanes
<1>. QED
    BY <1>1, <1>4, <1>5, <1>6, Zenon DEF LanesInv

\* More lanes on their way to the queue, and no more of them asleep, leave no
\* queued job behind.
LEMMA MoreLanesKeepQueued ==
    ASSUME LanesInv, Lanes' = Lanes, QueuedJobsHaveLanes, UNCHANGED readyVars, ReadyInv,
           WaitingLanes' \subseteq WaitingLanes,
           TakingLanes \subseteq TakingLanes'
    PROVE  QueuedJobsHaveLanes'
<1>1. TakingLanes' \subseteq Lanes /\ IsFiniteSet(Lanes)
    BY Zenon DEF TakingLanes, LanesInv
<1>2. /\ IsFiniteSet(TakingLanes') /\ Cardinality(TakingLanes') \in Nat
      /\ Cardinality(TakingLanes) \in Nat
      /\ Cardinality(TakingLanes) <= Cardinality(TakingLanes')
    BY <1>1, FS_Subset, FS_CardinalityType, Zenon
<1>3. Len(readyJobs) \in Nat /\ Len(readyPriorityJobs) \in Nat
    BY DEF ReadyInv, IsReadyQueue
<1>. QED
    BY <1>2, <1>3 DEF QueuedJobsHaveLanes, TakingLanes, readyVars

\* The steps of a job that may end the use of its lane, in the order of its
\* execution.
LEMMA JobKeepsLanes ==
    ASSUME BackgroundInv, ReadyInv, LanesInv, QueuedJobsHaveLanes,
           NEW j \in Jobs, JobStep(j) \/ PollFails(j) \/ WaitFails(j)
    PROVE  LanesInv' /\ QueuedJobsHaveLanes'
<1>. DEFINE Keeps(t) == /\ stage' = [stage EXCEPT ![j] = t]
                        /\ UNCHANGED laneVars
                        /\ HoldsLane(j)' <=> HoldsLane(j)
            Returns(t) == /\ stage' = [stage EXCEPT ![j] = t]
                          /\ LaneReturns(j)
                          /\ ~HoldsLane(j)'
<1>1. stage \in [Jobs -> Stages]
    BY Zenon DEF BackgroundInv
<1>2. j \in detached => stage[j] \in DetachedStages
    BY Zenon DEF BackgroundInv
<1>3. ASSUME NEW t, Keeps(t), detached' \ {j} = detached \ {j},
             UNCHANGED readyVars
      PROVE  LanesInv' /\ QueuedJobsHaveLanes'
  <2>1. LanesInv'
    BY <1>3, KeepingKeepsLanes, Zenon
  <2>2. UNCHANGED <<Lanes, WaitingLanes, TakingLanes>>
    BY <1>3, Zenon DEF laneVars, Lanes, WaitingLanes, TakingLanes
  <2>. QED
    BY <1>3, <2>1, <2>2, MoreLanesKeepQueued, Zenon
<1>4. ASSUME NEW t, Returns(t), detached' \ {j} = detached \ {j},
             UNCHANGED readyVars
      PROVE  LanesInv' /\ QueuedJobsHaveLanes'
  <2>1. Lanes' = Lanes
    BY <1>4, Zenon DEF LaneReturns, Lanes
  <2>. QED
    BY <1>4, <2>1, ReturningKeepsLanes, MoreLanesKeepQueued, Zenon
<1>5. CASE ExecuteInline(j) \/ ExecuteProcess(j) \/ Spawn(j)
  <2>1. UNCHANGED <<detached, readyVars>>
    BY <1>5, Zenon DEF ExecuteInline, ExecuteProcess, Spawn, backgroundVars
  <2>2. Returns("done") \/ Keeps("spawn") \/ Keeps("poll")
    BY <1>1, <1>5, Zenon DEF ExecuteInline, ExecuteProcess, Spawn, SpawnedBy,
                      SpawnFails, Complete, MoveTo, HoldsLane
  <2>. QED
    BY <1>3, <1>4, <2>1, <2>2, Zenon
<1>6. CASE PipesEnd(j) \/ PollFails(j) \/ Refused(j)
  <2>1. UNCHANGED <<detached, readyVars>>
    BY <1>6, Zenon DEF PipesEnd, PollFails, Refused, backgroundVars
  <2>2. Keeps("wait") \/ Returns("abandoned")
    BY <1>1, <1>2, <1>6, Zenon DEF PipesEnd, PollFails, Refused, MoveTo, HoldsLane,
                            DetachedStages, backgroundVars
  <2>. QED
    BY <1>3, <1>4, <2>1, <2>2, Zenon
<1>7. CASE Release(j)
  <2>1. UNCHANGED readyVars /\ detached' \ {j} = detached \ {j}
    BY <1>7, Zenon DEF Release
  <2>2. Returns("wait") \/ Keeps("refused")
    BY <1>1, <1>7, Zenon DEF Release, MoveTo, HoldsLane
  <2>. QED
    BY <1>3, <1>4, <2>1, <2>2, Zenon
<1>8. CASE Wait(j) \/ WaitFails(j) \/ Remove(j)
  <2>1. UNCHANGED <<detached, readyVars>>
    BY <1>8, Zenon DEF Wait, WaitFails, Remove, backgroundVars
  <2>2. Keeps("reaped") \/ Keeps("report")
    BY <1>1, <1>8, <2>1, Zenon DEF Wait, WaitFails, Remove, MoveTo, HoldsLane
  <2>. QED
    BY <1>3, <2>1, <2>2, Zenon
<1>9. CASE Report(j)
  <2>1. UNCHANGED <<detached, readyVars>> /\ stage[j] = "report"
    BY <1>9, Zenon DEF Report, backgroundVars
  <2>2. CASE j \in detached
    <3>1. UNCHANGED laneVars /\ stage' = [stage EXCEPT ![j] = "decrement"]
      BY <1>9, <2>2, Zenon DEF Report, MoveTo
    <3>2. Keeps("decrement")
      BY <1>1, <2>1, <2>2, <3>1, Zenon DEF HoldsLane
    <3>. QED
      BY <1>3, <2>1, <3>2, Zenon
  <2>3. CASE j \notin detached
    <3>1. LaneReturns(j) /\ stage' = [stage EXCEPT ![j] = "done"]
      BY <1>9, <2>3, Zenon DEF Report, Complete, MoveTo
    <3>2. Returns("done")
      BY <1>1, <3>1, Zenon DEF HoldsLane
    <3>. QED
      BY <1>4, <2>1, <3>2, Zenon
  <2>. QED
    BY <2>2, <2>3, Zenon
<1>10. CASE Decrement(j)
  <2>1. UNCHANGED readyVars /\ detached' \ {j} = detached \ {j}
    BY <1>10, Zenon DEF Decrement
  <2>2. Keeps("done")
    BY <1>1, <1>10, Zenon DEF Decrement, MoveTo, HoldsLane
  <2>. QED
    BY <1>3, <2>1, <2>2, Zenon
<1>. QED
    BY <1>5, <1>6, <1>7, <1>8, <1>9, <1>10, Zenon DEF JobStep

\* The job a lane takes is one of a queue, which loses it.
LEMMA TakesReady ==
    ASSUME ReadyInv, NEW l, TakePriorityJob(l) \/ TakeReadyJob(l)
    PROVE  \E j \in Jobs :
              /\ stage[j] = "ready" /\ Execute(l, j)
              /\ stage' = [stage EXCEPT ![j] = "execute"]
              /\ Len(readyJobs) + Len(readyPriorityJobs) \in Nat
              /\ Len(readyJobs)' + Len(readyPriorityJobs)'
                    = Len(readyJobs) + Len(readyPriorityJobs) - 1
<1>1. /\ readyJobs \in Seq(Jobs) /\ readyPriorityJobs \in Seq(Jobs)
      /\ \A n \in 1..Len(readyJobs) : stage[readyJobs[n]] = "ready"
      /\ \A n \in 1..Len(readyPriorityJobs) :
            stage[readyPriorityJobs[n]] = "ready"
  BY DEF ReadyInv, IsReadyQueue
<1>2. CASE TakePriorityJob(l)
  <2>1. /\ readyPriorityJobs # <<>> /\ readyJobs' = readyJobs
        /\ readyPriorityJobs' = Tail(readyPriorityJobs)
        /\ Execute(l, Head(readyPriorityJobs))
    BY <1>2, Zenon DEF TakePriorityJob
  <2>2. /\ Head(readyPriorityJobs) = readyPriorityJobs[1]
        /\ 1 \in 1..Len(readyPriorityJobs) /\ readyPriorityJobs[1] \in Jobs
        /\ Len(Tail(readyPriorityJobs)) = Len(readyPriorityJobs) - 1
    BY <1>1, <2>1
  <2>3. /\ stage[readyPriorityJobs[1]] = "ready" /\ Execute(l, readyPriorityJobs[1])
        /\ stage' = [stage EXCEPT ![readyPriorityJobs[1]] = "execute"]
    BY <1>1, <2>1, <2>2, Zenon DEF Execute
  <2>4. /\ Len(readyJobs) + Len(readyPriorityJobs) \in Nat
        /\ Len(readyJobs)' + Len(readyPriorityJobs)'
              = Len(readyJobs) + Len(readyPriorityJobs) - 1
    BY <1>1, <2>1, <2>2
  <2>. QED
    BY <2>2, <2>3, <2>4, Zenon
<1>3. CASE TakeReadyJob(l)
  <2>1. PICK n \in NextReady : /\ readyJobs' = Without(readyJobs, n)
                               /\ Execute(l, readyJobs[n])
    BY <1>3, Zenon DEF TakeReadyJob
  <2>2. n \in 1..Len(readyJobs) /\ readyJobs[n] \in Jobs
    BY <1>1 DEF NextReady
  <2>3. Len(readyJobs') = Len(readyJobs) - 1
    BY <1>1, <2>1, <2>2, WithoutIsSequence, Zenon DEF Removes
  <2>4. readyPriorityJobs' = readyPriorityJobs
    BY <1>3, Zenon DEF TakeReadyJob
  <2>5. /\ stage[readyJobs[n]] = "ready" /\ Execute(l, readyJobs[n])
        /\ stage' = [stage EXCEPT ![readyJobs[n]] = "execute"]
    BY <1>1, <2>1, <2>2, Zenon DEF Execute
  <2>6. /\ Len(readyJobs) + Len(readyPriorityJobs) \in Nat
        /\ Len(readyJobs)' + Len(readyPriorityJobs)'
              = Len(readyJobs) + Len(readyPriorityJobs) - 1
    BY <1>1, <2>2, <2>3, <2>4
  <2>. QED
    BY <2>2, <2>5, <2>6, Zenon
<1>. QED
  BY <1>2, <1>3, Zenon

\* A lane that takes a job is one lane less on its way to the queue, and the
\* job one less in it.
LEMMA TakeKeepsLanes ==
    ASSUME BackgroundInv, ReadyInv, LanesInv, QueuedJobsHaveLanes,
           NEW l \in Lanes, TakePriorityJob(l) \/ TakeReadyJob(l)
    PROVE  LanesInv' /\ QueuedJobsHaveLanes'
<1>. DEFINE queued == Len(readyJobs) + Len(readyPriorityJobs)
<1>1. PICK j \in Jobs : /\ stage[j] = "ready" /\ Execute(l, j)
                        /\ queued \in Nat /\ queued' = queued - 1
    BY TakesReady
<1>2. lane[l] = "take" /\ runs[l] = NoJob /\ detached' = detached
    BY Zenon DEF TakePriorityJob, TakeReadyJob, LanesInv, backgroundVars
<1>3. /\ Lanes' = Lanes /\ lane' \in [Lanes -> LaneStates]
      /\ runs' \in [Lanes -> Jobs \cup {NoJob}]
      /\ lane'[l] = "busy" /\ runs'[l] = j
      /\ \A m \in Lanes : m # l => lane'[m] = lane[m] /\ runs'[m] = runs[m]
    BY <1>1, Zenon DEF Execute, Lanes, LanesInv, LaneStates
<1>4. \A i \in Jobs : HoldsLane(i)' <=> \E m \in Lanes : runs'[m] = i
  <2>1. /\ HoldsLane(j)'
        /\ \A i \in Jobs : i # j => (HoldsLane(i)' <=> HoldsLane(i))
    BY <1>1, <1>2, Zenon DEF HoldsLane, Execute, BackgroundInv
  <2>. QED
    BY <1>2, <1>3, <2>1, QueueAssumption DEF LanesInv
<1>5. LanesInv'
    BY <1>3, <1>4, QueueAssumption DEF LanesInv
<1>6. QueuedJobsHaveLanes'
  <2>1. /\ l \in TakingLanes /\ IsFiniteSet(TakingLanes)
        /\ TakingLanes' = TakingLanes \ {l}
    <3>1. TakingLanes \subseteq Lanes /\ IsFiniteSet(Lanes)
      BY Zenon DEF TakingLanes, LanesInv
    <3>2. TakingLanes' = TakingLanes \ {l} /\ l \in TakingLanes
      BY <1>2, <1>3, Zenon DEF TakingLanes
    <3>. QED
      BY <3>1, <3>2, FS_Subset, Zenon
  <2>2. /\ Cardinality(TakingLanes') = Cardinality(TakingLanes) - 1
        /\ Cardinality(TakingLanes) \in Nat
    BY <2>1, FS_RemoveElement, FS_CardinalityType, Zenon
  <2>3. WaitingLanes' = WaitingLanes
    BY <1>2, <1>3, Zenon DEF WaitingLanes
  <2>. QED
    BY <1>1, <2>2, <2>3 DEF QueuedJobsHaveLanes, TakingLanes
<1>. QED
    BY <1>5, <1>6, Zenon

\* Between two jobs a lane goes to sleep or leaves only when it finds both
\* queues empty, and wakes up for any reason.
LEMMA IdleKeepsLanes ==
    ASSUME BackgroundInv, ReadyInv, LanesInv, QueuedJobsHaveLanes,
           NEW l \in Lanes, WaitForJob(l) \/ ExitLane(l) \/ WakeSpuriously(l)
    PROVE  LanesInv' /\ QueuedJobsHaveLanes'
<1>1. /\ UNCHANGED <<runs, stage, detached, readyVars>>
      /\ \E s \in {"take", "waiting", "exited"} : lane' = [lane EXCEPT ![l] = s]
      /\ lane[l] \in {"take", "waiting"}
    BY Zenon DEF WaitForJob, ExitLane, WakeSpuriously, backgroundVars
<1>2. Lanes' = Lanes /\ \A j \in Jobs : HoldsLane(j)' <=> HoldsLane(j)
    BY <1>1, Zenon DEF Lanes, HoldsLane
<1>3. LanesInv'
    BY <1>1, <1>2 DEF LanesInv, LaneStates
<1>4. CASE WaitForJob(l) \/ ExitLane(l)
  <2>1. readyJobs' = <<>> /\ readyPriorityJobs' = <<>>
    BY <1>1, <1>4, Zenon DEF WaitForJob, ExitLane, NothingReady, readyVars
  <2>2. TakingLanes' \subseteq Lanes /\ IsFiniteSet(Lanes)
    BY <1>2, Zenon DEF TakingLanes, LanesInv
  <2>3. Cardinality(TakingLanes') \in Nat
    BY <2>2, FS_Subset, FS_CardinalityType, Zenon
  <2>. QED
    BY <1>3, <2>1, <2>3 DEF QueuedJobsHaveLanes, TakingLanes
<1>5. CASE WakeSpuriously(l)
  <2>1. WaitingLanes' \subseteq WaitingLanes /\ TakingLanes \subseteq TakingLanes'
    BY <1>2, <1>5, Zenon DEF WakeSpuriously, WaitingLanes, TakingLanes, LanesInv
  <2>. QED
    BY <1>1, <1>2, <1>3, <2>1, MoreLanesKeepQueued, Zenon
<1>. QED
    BY <1>4, <1>5, Zenon

\* addJob wakes a lane, if one sleeps, for the job it adds.
LEMMA AddKeepsLanes ==
    ASSUME BackgroundInv, ReadyInv, LanesInv, QueuedJobsHaveLanes,
           NEW j \in Jobs, AddJob(j)
    PROVE  LanesInv' /\ QueuedJobsHaveLanes'
<1>1. /\ stage[j] = "new" /\ stage' = [stage EXCEPT ![j] = "ready"]
      /\ UNCHANGED <<runs, detached>> /\ NotifyOne
    BY Zenon DEF AddJob, backgroundVars
<1>2. \A i \in Jobs : HoldsLane(i)' <=> HoldsLane(i)
    BY <1>1, Zenon DEF HoldsLane, BackgroundInv
<1>3. Lanes' = Lanes
    BY <1>1, Zenon DEF NotifyOne, Lanes
<1>4. LanesInv'
  <2>1. ASSUME NEW l \in WaitingLanes, lane' = [lane EXCEPT ![l] = "take"]
        PROVE  LanesInv'
    BY <1>1, <1>2, <1>3, <2>1, Zenon DEF LanesInv, LaneStates, WaitingLanes
  <2>2. CASE UNCHANGED lane
    BY <1>1, <1>2, <1>3, <2>2, Zenon DEF LanesInv
  <2>. QED
    BY <1>1, <2>1, <2>2, Zenon DEF NotifyOne
<1>5. ASSUME NEW l \in WaitingLanes, lane' = [lane EXCEPT ![l] = "take"]
      PROVE  QueuedJobsHaveLanes'
  <2>1. /\ l \notin TakingLanes /\ TakingLanes' = TakingLanes \cup {l}
        /\ TakingLanes \subseteq Lanes
    BY <1>3, <1>5, Zenon DEF TakingLanes, WaitingLanes, LanesInv
  <2>2. /\ Cardinality(TakingLanes') = Cardinality(TakingLanes) + 1
        /\ Cardinality(TakingLanes) \in Nat
    BY <2>1, FS_Subset, FS_AddElement, FS_CardinalityType, Zenon DEF LanesInv
  <2>3. /\ Len(readyJobs)' + Len(readyPriorityJobs)'
              = Len(readyJobs) + Len(readyPriorityJobs) + 1
        /\ Len(readyJobs) + Len(readyPriorityJobs) \in Nat
    <3>1. readyJobs \in Seq(Jobs) /\ readyPriorityJobs \in Seq(Jobs)
      BY DEF ReadyInv, IsReadyQueue
    <3>2. /\ Len(Append(readyJobs, j)) = Len(readyJobs) + 1
          /\ Len(Append(readyPriorityJobs, j)) = Len(readyPriorityJobs) + 1
          /\ Len(readyJobs) \in Nat /\ Len(readyPriorityJobs) \in Nat
      BY <3>1
    <3>. QED
      BY <3>2 DEF AddJob
  <2>4. Len(readyJobs) + Len(readyPriorityJobs) <= Cardinality(TakingLanes)
    BY Zenon DEF QueuedJobsHaveLanes, TakingLanes
  <2>. QED
    BY <2>2, <2>3, <2>4 DEF QueuedJobsHaveLanes, TakingLanes
<1>6. CASE WaitingLanes = {} /\ UNCHANGED lane
  <2>1. WaitingLanes' = {}
    BY <1>6, Zenon DEF WaitingLanes, Lanes
  <2>. QED
    BY <1>4, <2>1, Zenon DEF QueuedJobsHaveLanes
<1>. QED
    BY <1>1, <1>4, <1>5, <1>6, Zenon DEF NotifyOne

\* cancelAllJobs and the destructor wake every lane.
LEMMA WakeAllKeepsLanes ==
    ASSUME BackgroundInv, ReadyInv, LanesInv, QueuedJobsHaveLanes,
           CancelAllJobs \/ ShutDown
    PROVE  LanesInv' /\ QueuedJobsHaveLanes'
<1>1. UNCHANGED <<runs, stage, detached, readyVars>> /\ NotifyAll
    BY Zenon DEF CancelAllJobs, ShutDown, backgroundVars
<1>2. Lanes' = Lanes /\ \A j \in Jobs : HoldsLane(j)' <=> HoldsLane(j)
    BY <1>1, Zenon DEF Lanes, HoldsLane, NotifyAll
<1>3. LanesInv'
    BY <1>1, <1>2, Zenon DEF LanesInv, LaneStates, NotifyAll
<1>4. WaitingLanes' = {} /\ TakingLanes \subseteq TakingLanes'
    BY <1>1, <1>2, Zenon DEF NotifyAll, WaitingLanes, TakingLanes
<1>. QED
    BY <1>1, <1>2, <1>3, <1>4, MoreLanesKeepQueued, Zenon

\* Steps of other threads and of the processes themselves leave lanes and
\* jobs alone.
LEMMA OthersKeepLanes ==
    ASSUME BackgroundInv, ReadyInv, LanesInv, QueuedJobsHaveLanes,
           UNCHANGED <<laneVars, stage, detached, readyVars>>
    PROVE  LanesInv' /\ QueuedJobsHaveLanes'
<1>1. UNCHANGED <<lane, runs, Lanes, WaitingLanes, TakingLanes>>
    BY Zenon DEF laneVars, Lanes, WaitingLanes, TakingLanes
<1>2. \A j \in Jobs : HoldsLane(j)' <=> HoldsLane(j)
    BY Zenon DEF HoldsLane
<1>3. LanesInv'
    BY <1>1, <1>2, Zenon DEF LanesInv
<1>. QED
    BY <1>1, <1>3, MoreLanesKeepQueued, Zenon

\* The greater of two numbers is one of them.
LEMMA MaxOfTwo ==
    ASSUME NEW a \in Int, NEW b \in Int
    PROVE  Max({a, b}) \in {a, b} /\ Max({a, b}) >= a /\ Max({a, b}) >= b
<1>1. \E x \in {a, b} : \A y \in {a, b} : x >= y
  <2>1. CASE a >= b
    BY <2>1
  <2>2. CASE b >= a
    BY <2>2
  <2>. QED
    BY <2>1, <2>2
<1>2. Max({a, b}) \in {a, b} /\ \A y \in {a, b} : Max({a, b}) >= y
    BY <1>1, Zenon DEF Max
<1>. QED
    BY <1>2, Zenon

\* What the constructor of the queue makes of the limit: at least one lane,
\* and no more lanes and background tasks than the limit has files for.
LimitsKept(lanes, tasks, files) ==
    MaxConcurrentTasks(files) >= 1 => lanes + tasks <= MaxConcurrentTasks(files)

LEMMA LimitsAreKept ==
    ASSUME NEW numLanes \in Nat \ {0}, NEW files \in Nat
    PROVE  LET taskLimits == EstimateTaskLimits(numLanes, files)
           IN  /\ taskLimits[1] \in Nat \ {0}
               /\ LimitsKept(taskLimits[1], taskLimits[2], files)
<1>. DEFINE most == MaxConcurrentTasks(files)
            wanted == BackgroundTasksWanted(numLanes)
<1>1. most \in Int /\ (files < ReservedFileCount => most < 1)
    BY DEF MaxConcurrentTasks, ReservedFileCount, FilesPerTask
<1>2. CASE files < ReservedFileCount
    BY <1>1, <1>2 DEF EstimateTaskLimits, LimitsKept
<1>3. CASE ~(files < ReservedFileCount) /\ numLanes > most
  <2>1. EstimateTaskLimits(numLanes, files) = <<Max({1, most}), 0>>
    BY <1>3, Zenon DEF EstimateTaskLimits
  <2>2. Max({1, most}) \in Nat \ {0} /\ (most >= 1 => Max({1, most}) = most)
    BY <1>1, MaxOfTwo
  <2>. QED
    BY <1>1, <2>1, <2>2 DEF LimitsKept
<1>4. CASE ~(files < ReservedFileCount) /\ ~(numLanes > most)
  <2>1. EstimateTaskLimits(numLanes, files)
           = <<numLanes, Min({wanted, most - numLanes})>>
    BY <1>4, Zenon DEF EstimateTaskLimits
  <2>2. wanted \in Nat /\ most - numLanes \in Nat
    BY <1>1, <1>4, MinOfTwo, QueueAssumption DEF BackgroundTasksWanted
  <2>3. /\ Min({wanted, most - numLanes}) \in Nat
        /\ Min({wanted, most - numLanes}) <= most - numLanes
    BY <2>2, MinOfTwo, Zenon
  <2>. QED
    BY <1>1, <2>1, <2>2, <2>3 DEF LimitsKept
<1>. QED
    BY <1>2, <1>3, <1>4, Zenon

\* The lanes a queue starts with look for jobs, and it has none.
LEMMA InitLanes ==
    Init => /\ LanesInv /\ QueuedJobsHaveLanes
            /\ openFileLimit \in Nat
            /\ LimitsKept(Cardinality(Lanes), backgroundTaskMax, openFileLimit)
<1>. SUFFICES ASSUME Init
              PROVE  /\ LanesInv /\ QueuedJobsHaveLanes
                     /\ openFileLimit \in Nat
                     /\ LimitsKept(Cardinality(Lanes), backgroundTaskMax,
                                   openFileLimit)
    BY Zenon
<1>1. PICK machine \in Machines :
         LET taskLimits == EstimateTaskLimits(machine[1], machine[2])
         IN  /\ openFileLimit = machine[2]
             /\ backgroundTaskMax = taskLimits[2]
             /\ lane = [l \in 1..taskLimits[1] |-> "take"]
             /\ runs = [l \in 1..taskLimits[1] |-> NoJob]
    BY Zenon DEF Init
<1>. DEFINE n == EstimateTaskLimits(machine[1], machine[2])[1]
<1>2. /\ machine[1] \in Nat \ {0} /\ machine[2] \in Nat /\ n \in Nat \ {0}
      /\ LimitsKept(n, backgroundTaskMax, openFileLimit)
    BY <1>1, LimitsAreKept, QueueAssumption, Zenon
<1>3. /\ lane = [l \in 1..n |-> "take"] /\ runs = [l \in 1..n |-> NoJob]
      /\ openFileLimit \in Nat
    BY <1>1, <1>2, Zenon
<1>. HIDE DEF n
<1>4. /\ Lanes = 1..n /\ 1 \in Lanes
      /\ IsFiniteSet(Lanes) /\ Cardinality(Lanes) = n
    BY <1>2, <1>3, FS_Interval DEF Lanes
<1>5. \A j \in Jobs : ~HoldsLane(j) /\ ~\E l \in Lanes : runs[l] = j
    BY <1>3, <1>4, QueueAssumption, Zenon DEF Init, HoldsLane
<1>6. LanesInv
    BY <1>3, <1>4, <1>5, Zenon DEF LanesInv, LaneStates
<1>7. WaitingLanes = {}
    BY <1>3, <1>4, Zenon DEF WaitingLanes
<1>. QED
    BY <1>2, <1>3, <1>4, <1>6, <1>7, Zenon DEF QueuedJobsHaveLanes

\* Lanes hold jobs, and queued jobs have lanes, in every step of every thread;
\* the number of lanes and the limits never change.
LEMMA StepKeepsLanes ==
    ASSUME BackgroundInv, ReadyInv, LanesInv, QueuedJobsHaveLanes, [Next]_vars
    PROVE  /\ LanesInv' /\ QueuedJobsHaveLanes'
           /\ UNCHANGED <<Lanes, openFileLimit, backgroundTaskMax>>
<1>1. LanesInv' /\ QueuedJobsHaveLanes'
  <2>1. ASSUME NEW j \in Jobs, JobStep(j) \/ PollFails(j) \/ WaitFails(j)
        PROVE  LanesInv' /\ QueuedJobsHaveLanes'
    BY <2>1, JobKeepsLanes, Zenon
  <2>2. ASSUME NEW j \in Jobs, AddJob(j)
        PROVE  LanesInv' /\ QueuedJobsHaveLanes'
    BY <2>2, AddKeepsLanes, Zenon
  <2>3. ASSUME NEW j \in Jobs, ProcessExits(j) \/ ProcessKilled(j)
        PROVE  LanesInv' /\ QueuedJobsHaveLanes'
    BY <2>3, OthersKeepLanes, Zenon DEF ProcessExits, ProcessKilled, backgroundVars
  <2>4. ASSUME NEW l \in Lanes, LaneStep(l) \/ WakeSpuriously(l)
        PROVE  LanesInv' /\ QueuedJobsHaveLanes'
    BY <2>4, TakeKeepsLanes, IdleKeepsLanes, Zenon DEF LaneStep
  <2>5. CASE CancelAllJobs \/ ShutDown
    BY <2>5, WakeAllKeepsLanes, Zenon
  <2>6. CASE KillerStep \/ ClientStep
    BY <2>6, OthersKeepLanes, Zenon DEF KillerStep, KillerSleeps, KillerKills, ClientStep,
       Interrupt, StartKiller, JoinLanes, JoinKiller, WaitGroup, backgroundVars
  <2>7. CASE UNCHANGED vars
    BY <2>7, OthersKeepLanes, Zenon DEF vars, backgroundVars
  <2>. QED
    BY <2>1, <2>2, <2>3, <2>4, <2>5, <2>6, <2>7, Zenon DEF Next
<1>2. Lanes' = Lanes
  <2>1. ASSUME NEW j \in Jobs, JobStep(j) PROVE Lanes' = Lanes
    BY <2>1, Zenon DEF JobStep, ExecuteInline, ExecuteProcess, Spawn, SpawnedBy,
       SpawnFails, PipesEnd, Release, Refused, Wait, Remove, Report, Decrement,
       Complete, LaneReturns, laneVars, Lanes
  <2>2. ASSUME NEW j \in Jobs, \/ AddJob(j) \/ PollFails(j) \/ WaitFails(j)
                               \/ ProcessExits(j) \/ ProcessKilled(j)
        PROVE  Lanes' = Lanes
    BY <2>2, Zenon DEF AddJob, NotifyOne, PollFails, WaitFails, ProcessExits,
       ProcessKilled, LaneReturns, laneVars, Lanes
  <2>3. ASSUME NEW l \in Lanes, LaneStep(l) \/ WakeSpuriously(l)
        PROVE  Lanes' = Lanes
    BY <2>3, Zenon DEF LaneStep, TakePriorityJob, TakeReadyJob, Execute, WaitForJob,
       ExitLane, WakeSpuriously, Lanes
  <2>4. CASE CancelAllJobs \/ ShutDown \/ KillerStep \/ ClientStep
    BY <2>4, Zenon DEF CancelAllJobs, ShutDown, NotifyAll, KillerStep, KillerSleeps,
       KillerKills, ClientStep, Interrupt, StartKiller, JoinLanes, JoinKiller,
       WaitGroup, laneVars, Lanes
  <2>5. CASE UNCHANGED vars
    BY <2>5, Zenon DEF vars, laneVars, Lanes
  <2>. QED
    BY <2>1, <2>2, <2>3, <2>4, <2>5, Zenon DEF Next
<1>3. UNCHANGED <<openFileLimit, backgroundTaskMax>>
  <2>1. Next => UNCHANGED limits
    BY Zenon DEF Next, AddJob, JobStep, ExecuteInline, ExecuteProcess, Spawn, PipesEnd,
       Release, Refused, Wait, Remove, Report, Decrement, PollFails, WaitFails,
       ProcessExits, ProcessKilled, LaneStep, TakePriorityJob, TakeReadyJob,
       WaitForJob, ExitLane, WakeSpuriously, CancelAllJobs, ShutDown, KillerStep,
       KillerSleeps, KillerKills, ClientStep, Interrupt, StartKiller, JoinLanes,
       JoinKiller, WaitGroup
  <2>. QED
    BY <2>1, Zenon DEF limits, vars
<1>. QED
    BY <1>1, <1>2, <1>3, Zenon

\* The invariant of the lanes, with the limits the queue was made with.
PlacesInv ==
    /\ BackgroundInv /\ ReadyInv /\ LanesInv /\ QueuedJobsHaveLanes
    /\ openFileLimit \in Nat
    /\ LimitsKept(Cardinality(Lanes), backgroundTaskMax, openFileLimit)

LEMMA PlacesHold == Spec => []PlacesInv
<1>1. Init /\ BackgroundInv /\ ReadyInv => PlacesInv
    BY InitLanes, Zenon DEF PlacesInv
<1>2. PlacesInv /\ (BackgroundInv /\ ReadyInv)' /\ [Next]_vars => PlacesInv'
  <2>. SUFFICES ASSUME PlacesInv, BackgroundInv', ReadyInv', [Next]_vars
                PROVE  PlacesInv'
    BY Zenon
  <2>1. /\ LanesInv' /\ QueuedJobsHaveLanes'
        /\ UNCHANGED <<Lanes, openFileLimit, backgroundTaskMax>>
    BY StepKeepsLanes, Zenon DEF PlacesInv
  <2>. QED
    BY <2>1, Zenon DEF PlacesInv
<1>. QED
    BY <1>1, <1>2, BackgroundHolds, PTL DEF Spec

\* One notification per added job never leaves a job behind while a lane
\* sleeps, whichever lanes wake up for other reasons, take each other's jobs
\* or are on their way back.
THEOREM NoJobLeftBehind == Spec => []QueuedJobsHaveLanes
<1>1. PlacesInv => QueuedJobsHaveLanes
    BY Zenon DEF PlacesInv
<1>. QED
    BY <1>1, PlacesHold, PTL

\* The pipes that lanes and detached threads hold open between them never
\* exceed the limit estimateTaskLimits divided up, for every number of lanes
\* and every limit with room for one task.
THEOREM PipesFit == Spec => []PipesWithinLimit
<1>. DEFINE piped == {j \in Jobs : stage[j] \in {"poll", "refused", "wait"}}
            run == {runs[l] : l \in Lanes}
<1>1. PlacesInv => PipesWithinLimit
  <2>. SUFFICES ASSUME PlacesInv, MaxConcurrentTasks(openFileLimit) >= 1
                PROVE  ReservedFileCount + FilesPerTask * Cardinality(piped)
                          <= openFileLimit
    BY Zenon DEF PipesWithinLimit
  <2>1. piped \subseteq detached \cup run
    BY DEF PlacesInv, LanesInv, HoldsLane
  <2>2. IsFiniteSet(run) /\ Cardinality(run) <= Cardinality(Lanes)
    <3>1. runs \in Surjection(Lanes, run) /\ IsFiniteSet(Lanes)
      BY Zenon DEF PlacesInv, LanesInv, Surjection
    <3>. HIDE DEF run
    <3>. QED
      BY <3>1, FS_Surjection, Zenon
  <2>3. IsFiniteSet(detached)
    BY BackgroundFinite, Zenon DEF PlacesInv, BackgroundInv
  <2>. HIDE DEF piped, run
  <2>4. /\ IsFiniteSet(detached \cup run)
        /\ Cardinality(detached \cup run)
              = Cardinality(detached) + Cardinality(run)
                - Cardinality(detached \cap run)
    BY <2>2, <2>3, FS_Union, Zenon
  <2>5. Cardinality(detached \cap run) \in Nat
    BY <2>2, <2>3, FS_Intersection, FS_CardinalityType, Zenon
  <2>6. Cardinality(piped) <= Cardinality(detached \cup run)
    BY <2>1, <2>4, FS_Subset, Zenon
  <2>7. /\ Cardinality(detached) \in Nat /\ Cardinality(run) \in Nat
        /\ Cardinality(Lanes) \in Nat /\ Cardinality(piped) \in Nat
    BY <2>1, <2>2, <2>3, <2>4, FS_Subset, FS_CardinalityType, Zenon DEF PlacesInv, LanesInv
  <2>8. /\ Cardinality(detached) <= backgroundTaskMax
        /\ backgroundTaskMax \in Nat /\ openFileLimit \in Nat
        /\ Cardinality(Lanes) + backgroundTaskMax
              <= MaxConcurrentTasks(openFileLimit)
    BY Zenon DEF PlacesInv, BackgroundInv, LimitsKept
  <2>9. Cardinality(piped) <= MaxConcurrentTasks(openFileLimit)
    <3>1. MaxConcurrentTasks(openFileLimit) \in Int
      BY <2>8 DEF MaxConcurrentTasks, ReservedFileCount, FilesPerTask
    <3>. QED
      BY <2>2, <2>4, <2>5, <2>6, <2>7, <2>8, <3>1
  <2>. QED
    BY <2>7, <2>8, <2>9 DEF MaxConcurrentTasks, ReservedFileCount, FilesPerTask
<1>. QED
    BY <1>1, PlacesHold, PTL
-----------------------------------------------------------------------------
(* Processes and the release of the queue                                  *)

GroupStages == {"poll", "refused", "wait", "reaped", "abandoned"}
ProcessStates == {"none", "running", "exited", "killed", "lost"}

\* A process is in the group from its spawn until its status was collected,
\* and runs at most until then.
ProcessInv ==
    /\ processes \subseteq Jobs
    /\ process \in [Jobs -> ProcessStates]
    /\ \A j \in Jobs :
          /\ j \in processes <=> stage[j] \in GroupStages
          /\ process[j] = "running" => stage[j] \in GroupStages \ {"reaped"}
          /\ stage[j] \in {"reaped", "report"} =>
                process[j] \in {"exited", "killed", "lost"}

\* A ready job is in one of the queues.
Queued(j) ==
    \/ \E n \in 1..Len(readyJobs) : readyJobs[n] = j
    \/ \E n \in 1..Len(readyPriorityJobs) : readyPriorityJobs[n] = j

\* The calls of the destructor, and what each has waited for.
Releasings == {"joinLanes", "joinKiller", "waitGroup", "released"}

ReleaseInv ==
    /\ client \in {"live", "signal", "escalate"} \cup Releasings
    /\ shutdown <=> client \in Releasings
    /\ \A j \in Jobs : stage[j] = "ready" => Queued(j)
    /\ \A l \in Lanes : lane[l] = "exited" => shutdown /\ NothingReady
    /\ client \in Releasings \ {"joinLanes"} =>
          \A l \in Lanes : lane[l] = "exited"
    /\ client = "released" => processes = {}

\* So nothing of a job is left when the destructor returns but the last calls
\* of a detached thread.
LEMMA ReleasedIsClean ==
    ASSUME PlacesInv, ProcessInv, ReleaseInv
    PROVE  ReleasedClean
<1>. SUFFICES ASSUME client = "released" PROVE ReleasedClean
    BY Zenon DEF ReleasedClean
<1>1. \A l \in Lanes : lane[l] = "exited"
    BY Zenon DEF ReleaseInv, Releasings
<1>2. PICK l \in Lanes : TRUE
    BY Zenon DEF PlacesInv, LanesInv
<1>3. NothingReady
    BY <1>1, Zenon DEF ReleaseInv
<1>4. ASSUME NEW j \in Jobs
      PROVE  /\ stage[j] \in {"new", "report", "decrement", "done"}
             /\ stage[j] \in {"report", "decrement"} => j \in detached
             /\ process[j] # "running"
  <2>1. stage[j] \in Stages
    BY Zenon DEF PlacesInv, BackgroundInv
  <2>2. stage[j] # "ready"
    BY <1>3 DEF ReleaseInv, Queued, NothingReady
  <2>3. ~HoldsLane(j)
    BY <1>1, QueueAssumption, Zenon DEF PlacesInv, LanesInv
  <2>4. stage[j] \notin GroupStages /\ process[j] # "running"
    BY Zenon DEF ReleaseInv, ProcessInv
  <2>5. stage[j] = "decrement" => j \in detached
    BY Zenon DEF PlacesInv, BackgroundInv
  <2>. QED
    BY <2>1, <2>2, <2>3, <2>4, <2>5, Zenon DEF Stages, GroupStages, HoldsLane
<1>. QED
    BY <1>1, <1>4, Zenon DEF ReleasedClean

\* A job moves to a stage that agrees with the group and its process.
LEMMA MoveKeepsProcesses ==
    ASSUME BackgroundInv, ProcessInv, NEW j \in Jobs, NEW t,
           stage' = [stage EXCEPT ![j] = t],
           process' \in [Jobs -> ProcessStates],
           processes' \subseteq Jobs, processes' \ {j} = processes \ {j},
           \A i \in Jobs \ {j} : process'[i] = process[i],
           j \in processes' <=> t \in GroupStages,
           process'[j] = "running" => t \in GroupStages \ {"reaped"},
           t \in {"reaped", "report"} =>
              process'[j] \in {"exited", "killed", "lost"}
    PROVE  ProcessInv'
<1>1. stage'[j] = t /\ \A i \in Jobs \ {j} : stage'[i] = stage[i]
    BY Zenon DEF BackgroundInv
<1>2. \A i \in Jobs \ {j} : i \in processes' <=> i \in processes
    BY Zenon
<1>3. ASSUME NEW i \in Jobs
      PROVE  /\ i \in processes' <=> stage'[i] \in GroupStages
             /\ process'[i] = "running" => stage'[i] \in GroupStages \ {"reaped"}
             /\ stage'[i] \in {"reaped", "report"} =>
                   process'[i] \in {"exited", "killed", "lost"}
  <2>1. CASE i = j
    BY <1>1, <2>1, Zenon
  <2>2. CASE i # j
    BY <1>1, <1>2, <2>2, Zenon DEF ProcessInv
  <2>. QED
    BY <2>1, <2>2, Zenon
<1>. QED
    BY <1>3, Zenon DEF ProcessInv

\* The steps of a job: spawnProcess puts the process into the group, and it is
\* removed once its status was collected.
LEMMA JobKeepsProcesses ==
    ASSUME BackgroundInv, ProcessInv, NEW j \in Jobs,
           JobStep(j) \/ PollFails(j) \/ WaitFails(j)
    PROVE  ProcessInv'
<1>. DEFINE Moves(t) == stage' = [stage EXCEPT ![j] = t]
<1>1. /\ processes \subseteq Jobs /\ process \in [Jobs -> ProcessStates]
      /\ j \in processes <=> stage[j] \in GroupStages
      /\ process[j] = "running" => stage[j] \in GroupStages \ {"reaped"}
      /\ stage[j] \in {"reaped", "report"} =>
            process[j] \in {"exited", "killed", "lost"}
    BY Zenon DEF ProcessInv
<1>2. ASSUME NEW t, Moves(t), UNCHANGED <<process, processes>>,
             t \in GroupStages <=> stage[j] \in GroupStages,
             t \notin {"reaped", "report"}
      PROVE  ProcessInv'
    BY <1>1, <1>2, MoveKeepsProcesses, Zenon
<1>3. CASE ExecuteInline(j) \/ ExecuteProcess(j)
  <2>1. UNCHANGED <<process, processes>> /\ stage[j] = "execute"
    BY <1>3, Zenon DEF ExecuteInline, ExecuteProcess, groupVars, systemVars
  <2>2. Moves("done") \/ Moves("spawn")
    BY <1>3, Zenon DEF ExecuteInline, ExecuteProcess, Complete, MoveTo
  <2>. QED
    BY <1>2, <2>1, <2>2, Zenon DEF GroupStages
<1>4. CASE Spawn(j)
  <2>1. CASE SpawnedBy(j)
    <3>1. /\ processes' = processes \cup {j} /\ Moves("poll")
          /\ process' = [process EXCEPT ![j] = "running"]
      BY <2>1, Zenon DEF SpawnedBy, MoveTo
    <3>2. /\ process' \in [Jobs -> ProcessStates]
          /\ \A i \in Jobs \ {j} : process'[i] = process[i]
          /\ processes' \subseteq Jobs /\ processes' \ {j} = processes \ {j}
      BY <1>1, <3>1, Zenon DEF ProcessStates
    <3>. QED
      BY <3>1, <3>2, MoveKeepsProcesses, Zenon DEF GroupStages
  <2>2. CASE Moves("done") /\ UNCHANGED <<process, processes>>
    <3>1. /\ "done" \notin GroupStages /\ stage[j] \notin GroupStages
          /\ "done" \notin {"reaped", "report"}
      BY <1>4, Zenon DEF Spawn, GroupStages
    <3>. QED
      BY <1>2, <2>2, <3>1, Zenon
  <2>. QED
    BY <1>4, <2>1, <2>2, Zenon DEF Spawn, SpawnFails, Complete, MoveTo
<1>5. CASE PipesEnd(j) \/ PollFails(j) \/ Release(j) \/ Refused(j)
  <2>1. UNCHANGED <<process, processes>> /\ stage[j] \in {"poll", "refused"}
    BY <1>5, Zenon DEF PipesEnd, PollFails, Release, Refused, groupVars, systemVars
  <2>2. Moves("wait") \/ Moves("abandoned") \/ Moves("refused")
    BY <1>5, Zenon DEF PipesEnd, PollFails, Release, Refused, MoveTo
  <2>. QED
    BY <1>2, <2>1, <2>2, Zenon DEF GroupStages
<1>6. CASE Wait(j)
  <2>1. /\ UNCHANGED <<process, processes>> /\ Moves("reaped")
        /\ stage[j] = "wait" /\ process[j] \in {"exited", "killed"}
    BY <1>6, Zenon DEF Wait, groupVars, systemVars, MoveTo
  <2>. QED
    BY <1>1, <2>1, MoveKeepsProcesses, Zenon DEF GroupStages
<1>7. CASE WaitFails(j)
  <2>1. /\ processes' = processes /\ Moves("reaped") /\ stage[j] = "wait"
        /\ process' = [process EXCEPT ![j] = "lost"]
    BY <1>7, Zenon DEF WaitFails, groupVars, MoveTo
  <2>2. /\ process' \in [Jobs -> ProcessStates] /\ process'[j] = "lost"
        /\ \A i \in Jobs \ {j} : process'[i] = process[i]
    BY <1>1, <2>1, Zenon DEF ProcessStates
  <2>. QED
    BY <1>1, <2>1, <2>2, MoveKeepsProcesses, Zenon DEF GroupStages
<1>8. CASE Remove(j)
  <2>1. /\ processes' = processes \ {j} /\ Moves("report")
        /\ stage[j] = "reaped" /\ process' = process
    BY <1>8, Zenon DEF Remove, systemVars, MoveTo
  <2>. QED
    BY <1>1, <2>1, MoveKeepsProcesses, Zenon DEF GroupStages
<1>9. CASE Report(j) \/ Decrement(j)
  <2>1. UNCHANGED <<process, processes>> /\ stage[j] \in {"report", "decrement"}
    BY <1>9, Zenon DEF Report, Decrement, groupVars, systemVars
  <2>2. Moves("done") \/ Moves("decrement")
    BY <1>9, Zenon DEF Report, Decrement, Complete, MoveTo
  <2>. QED
    BY <1>2, <2>1, <2>2, Zenon DEF GroupStages
<1>. QED
    BY <1>3, <1>4, <1>5, <1>6, <1>7, <1>8, <1>9, Zenon DEF JobStep

\* A process that ends was running, and is still in the group.
LEMMA EndKeepsProcesses ==
    ASSUME ProcessInv, NEW j \in Jobs, ProcessExits(j) \/ ProcessKilled(j)
    PROVE  ProcessInv'
<1>1. /\ process[j] = "running" /\ UNCHANGED <<stage, processes>>
      /\ \E s \in {"exited", "killed"} : process' = [process EXCEPT ![j] = s]
    BY Zenon DEF ProcessExits, ProcessKilled, groupVars
<1>. QED
    BY <1>1, Zenon DEF ProcessInv, ProcessStates

\* The group and the processes agree with the jobs in every step.
LEMMA StepKeepsProcesses ==
    ASSUME BackgroundInv, ReadyInv, ProcessInv, [Next]_vars
    PROVE  ProcessInv'
<1>. DEFINE Moves(j, t) == stage' = [stage EXCEPT ![j] = t]
<1>1. ASSUME NEW j \in Jobs, NEW t \in {"ready", "execute"}, Moves(j, t),
             stage[j] \in {"new", "ready"}, UNCHANGED <<process, processes>>
      PROVE  ProcessInv'
    BY <1>1, MoveKeepsProcesses, Zenon DEF ProcessInv, GroupStages
<1>2. ASSUME NEW j \in Jobs, \/ AddJob(j) \/ JobStep(j) \/ PollFails(j)
                             \/ WaitFails(j) \/ ProcessExits(j) \/ ProcessKilled(j)
      PROVE  ProcessInv'
  <2>1. CASE AddJob(j)
    BY <1>1, <2>1, Zenon DEF AddJob, groupVars, systemVars
  <2>. QED
    BY <1>2, <2>1, JobKeepsProcesses, EndKeepsProcesses, Zenon
<1>3. ASSUME NEW l \in Lanes, TakePriorityJob(l) \/ TakeReadyJob(l)
      PROVE  ProcessInv'
  <2>1. UNCHANGED <<process, processes>>
    BY <1>3, Zenon DEF TakePriorityJob, TakeReadyJob, groupVars, systemVars
  <2>2. \E j \in Jobs : stage[j] = "ready" /\ Moves(j, "execute")
    BY <1>3, TakesReady, Zenon
  <2>. QED
    BY <1>1, <2>1, <2>2, Zenon
<1>4. ASSUME UNCHANGED <<stage, process, processes>> PROVE ProcessInv'
    BY <1>4, Zenon DEF ProcessInv
<1>5. ASSUME NEW l \in Lanes, WaitForJob(l) \/ ExitLane(l) \/ WakeSpuriously(l)
      PROVE  ProcessInv'
    BY <1>4, <1>5, Zenon DEF WaitForJob, ExitLane, WakeSpuriously, groupVars, systemVars
<1>6. CASE CancelAllJobs \/ ShutDown \/ KillerStep \/ ClientStep
    BY <1>4, <1>6, Zenon DEF CancelAllJobs, ShutDown, KillerStep, KillerSleeps,
       KillerKills, ClientStep, Interrupt, StartKiller, JoinLanes, JoinKiller,
       WaitGroup, groupVars, systemVars
<1>7. CASE UNCHANGED vars
    BY <1>4, <1>7, Zenon DEF vars, groupVars, systemVars
<1>. QED
    BY <1>2, <1>3, <1>5, <1>6, <1>7, Zenon DEF Next, LaneStep

\* A step of a job that is not about the queues: no lane leaves or comes back,
\* and once the queue is released no process is added.
LEMMA JobKeepsRelease ==
    ASSUME BackgroundInv, ReleaseInv, NEW j \in Jobs, NEW t, t # "ready",
           stage' = [stage EXCEPT ![j] = t], Lanes' = Lanes,
           UNCHANGED <<client, shutdown, readyVars>>,
           \A l \in Lanes : lane'[l] = "exited" <=> lane[l] = "exited",
           client = "released" => processes' \subseteq processes
    PROVE  ReleaseInv'
<1>1. \A i \in Jobs : stage'[i] = "ready" => stage[i] = "ready"
    BY Zenon DEF BackgroundInv
<1>2. NothingReady' = NothingReady /\ \A i \in Jobs : Queued(i)' = Queued(i)
    BY Zenon DEF NothingReady, Queued, readyVars
<1>. QED
    BY <1>1, <1>2, Zenon DEF ReleaseInv

\* The lane a job returns to was busy with it.
LEMMA ReturnsExitNone ==
    ASSUME LanesInv, NEW j \in Jobs, LaneReturns(j) \/ UNCHANGED laneVars
    PROVE  \A l \in Lanes : lane'[l] = "exited" <=> lane[l] = "exited"
<1>1. CASE LaneReturns(j)
  <2>1. \A l \in Lanes : runs[l] = j => lane[l] = "busy"
    BY QueueAssumption, Zenon DEF LanesInv
  <2>. QED
    BY <1>1, <2>1, Zenon DEF LaneReturns
<1>2. CASE UNCHANGED laneVars
    BY <1>2, Zenon DEF laneVars
<1>. QED
    BY <1>1, <1>2, Zenon

\* The steps of a job.  spawnProcess is called on a lane, so not when all of
\* them have left.
LEMMA JobStepKeepsRelease ==
    ASSUME BackgroundInv, LanesInv, ReleaseInv, Lanes' = Lanes, NEW j \in Jobs,
           JobStep(j) \/ PollFails(j) \/ WaitFails(j)
    PROVE  ReleaseInv'
<1>1. \E t : t # "ready" /\ stage' = [stage EXCEPT ![j] = t]
  <2>1. CASE ExecuteInline(j) \/ ExecuteProcess(j) \/ Spawn(j)
    BY <2>1, Zenon DEF ExecuteInline, ExecuteProcess, Spawn, SpawnedBy, SpawnFails,
                Complete, MoveTo
  <2>2. CASE PipesEnd(j) \/ Release(j) \/ Refused(j) \/ PollFails(j)
    BY <2>2, Zenon DEF PipesEnd, Release, Refused, PollFails, MoveTo
  <2>3. CASE Wait(j) \/ WaitFails(j) \/ Remove(j) \/ Report(j) \/ Decrement(j)
    BY <2>3, Zenon DEF Wait, WaitFails, Remove, Report, Decrement, Complete, MoveTo
  <2>. QED
    BY <2>1, <2>2, <2>3, Zenon DEF JobStep
<1>2. UNCHANGED <<client, shutdown, readyVars>>
    BY Zenon DEF JobStep, ExecuteInline, ExecuteProcess, Spawn, PipesEnd, Release,
       Refused, PollFails, Wait, WaitFails, Remove, Report, Decrement, flags
<1>3. LaneReturns(j) \/ UNCHANGED laneVars
  <2>1. CASE ExecuteInline(j) \/ ExecuteProcess(j) \/ Spawn(j)
    BY <2>1, Zenon DEF ExecuteInline, ExecuteProcess, Spawn, SpawnedBy, SpawnFails,
                Complete
  <2>2. CASE PipesEnd(j) \/ Release(j) \/ Refused(j) \/ PollFails(j)
    BY <2>2, Zenon DEF PipesEnd, Release, Refused, PollFails
  <2>3. CASE Wait(j) \/ WaitFails(j) \/ Remove(j) \/ Report(j) \/ Decrement(j)
    BY <2>3, Zenon DEF Wait, WaitFails, Remove, Report, Decrement, Complete
  <2>. QED
    BY <2>1, <2>2, <2>3, Zenon DEF JobStep
<1>4. ASSUME client = "released" PROVE processes' \subseteq processes
  <2>1. ~Spawn(j)
    <3>1. \A l \in Lanes : lane[l] = "exited"
      BY <1>4, Zenon DEF ReleaseInv, Releasings
    <3>2. stage[j] # "spawn"
      BY <3>1, QueueAssumption DEF LanesInv, HoldsLane
    <3>. QED
      BY <3>2, Zenon DEF Spawn
  <2>. QED
    BY <2>1, Zenon DEF JobStep, ExecuteInline, ExecuteProcess, PipesEnd, Release,
       Refused, PollFails, Wait, WaitFails, Remove, Report, Decrement, groupVars
<1>. QED
    BY <1>1, <1>2, <1>3, <1>4, JobKeepsRelease, ReturnsExitNone, Zenon

\* Every ready job but the one taken stays in its queue.
LEMMA TakeKeepsQueued ==
    ASSUME BackgroundInv, ReadyInv, ReleaseInv, NEW l,
           TakePriorityJob(l) \/ TakeReadyJob(l)
    PROVE  \A j \in Jobs : stage'[j] = "ready" => Queued(j)'
<1>. SUFFICES ASSUME NEW j \in Jobs, stage'[j] = "ready" PROVE Queued(j)'
    BY Zenon
<1>1. readyJobs \in Seq(Jobs) /\ readyPriorityJobs \in Seq(Jobs)
    BY DEF ReadyInv, IsReadyQueue
<1>2. CASE TakePriorityJob(l)
  <2>. DEFINE s == readyPriorityJobs
  <2>1. /\ s # <<>> /\ readyJobs' = readyJobs /\ s' = Tail(s)
        /\ stage' = [stage EXCEPT ![Head(s)] = "execute"]
    BY <1>2, Zenon DEF TakePriorityJob, Execute
  <2>2. Head(s) = s[1] /\ s[1] \in Jobs
    BY <1>1, <2>1
  <2>3. stage[j] = "ready" /\ j # s[1]
    BY <2>1, <2>2, Zenon DEF BackgroundInv
  <2>4. ASSUME NEW n \in 1..Len(s), s[n] = j
        PROVE  \E i \in 1..Len(s') : s'[i] = j
    <3>1. n - 1 \in 1..Len(Tail(s)) /\ Tail(s)[n - 1] = s[n]
      BY <1>1, <2>1, <2>3, <2>4
    <3>. QED
      BY <2>1, <2>4, <3>1, Zenon
  <2>. QED
    BY <2>1, <2>3, <2>4, Zenon DEF ReleaseInv, Queued
<1>3. CASE TakeReadyJob(l)
  <2>1. PICK p \in NextReady : /\ readyJobs' = Without(readyJobs, p)
                               /\ Execute(l, readyJobs[p])
    BY <1>3, Zenon DEF TakeReadyJob
  <2>2. /\ readyPriorityJobs' = readyPriorityJobs
        /\ stage' = [stage EXCEPT ![readyJobs[p]] = "execute"]
    BY <1>3, <2>1, Zenon DEF TakeReadyJob, Execute
  <2>3. p \in 1..Len(readyJobs) /\ readyJobs[p] \in Jobs
    BY <1>1 DEF NextReady
  <2>4. stage[j] = "ready" /\ j # readyJobs[p]
    BY <2>2, <2>3, Zenon DEF BackgroundInv
  <2>5. ASSUME NEW n \in 1..Len(readyJobs), readyJobs[n] = j
        PROVE  \E i \in 1..Len(readyJobs') : readyJobs'[i] = j
    <3>. DEFINE i == IF n < p THEN n ELSE n - 1
    <3>1. Removes(readyJobs', readyJobs, p)
      BY <1>1, <2>1, <2>3, WithoutIsSequence, Zenon
    <3>2. n # p /\ Len(readyJobs) \in Nat
      BY <1>1, <2>4, <2>5
    <3>3. i \in 1..Len(readyJobs') /\ n = IF i < p THEN i ELSE i + 1
      BY <2>3, <3>1, <3>2 DEF Removes
    <3>4. readyJobs'[i] = readyJobs[n]
      BY <3>1, <3>3, Zenon DEF Removes
    <3>. QED
      BY <2>5, <3>3, <3>4, Zenon
  <2>. QED
    BY <2>2, <2>4, <2>5, Zenon DEF ReleaseInv, Queued
<1>. QED
    BY <1>2, <1>3, Zenon

\* The steps of the lanes: one leaves only when told to and with both queues
\* empty, and after that nothing is added to them.
LEMMA LaneKeepsRelease ==
    ASSUME BackgroundInv, ReadyInv, LanesInv, ReleaseInv, Lanes' = Lanes,
           NEW l \in Lanes, LaneStep(l) \/ WakeSpuriously(l)
    PROVE  ReleaseInv'
<1>1. UNCHANGED <<client, shutdown, processes>>
    BY Zenon DEF LaneStep, TakePriorityJob, TakeReadyJob, WaitForJob, ExitLane,
       WakeSpuriously, flags, groupVars
<1>2. CASE TakePriorityJob(l) \/ TakeReadyJob(l)
  <2>1. lane[l] = "take" /\ ~NothingReady /\ lane' = [lane EXCEPT ![l] = "busy"]
    BY <1>2 DEF TakePriorityJob, TakeReadyJob, Execute, NothingReady, NextReady
  <2>2. \A m \in Lanes : lane[m] # "exited" /\ lane'[m] # "exited"
    BY <2>1, Zenon DEF ReleaseInv, LanesInv
  <2>3. \A j \in Jobs : stage'[j] = "ready" => Queued(j)'
    BY <1>2, TakeKeepsQueued, Zenon
  <2>. QED
    BY <1>1, <2>2, <2>3, Zenon DEF ReleaseInv
<1>3. CASE WaitForJob(l) \/ ExitLane(l) \/ WakeSpuriously(l)
  <2>1. UNCHANGED <<stage, readyVars>> /\ lane[l] \in {"take", "waiting"}
    BY <1>3, Zenon DEF WaitForJob, ExitLane, WakeSpuriously
  <2>2. NothingReady' = NothingReady /\ \A j \in Jobs : Queued(j)' = Queued(j)
    BY <2>1, Zenon DEF NothingReady, Queued, readyVars
  <2>3. \A m \in Lanes : \/ lane'[m] = lane[m]
                         \/ lane[m] # "exited" /\ lane'[m] # "exited"
                         \/ lane[m] # "exited" /\ shutdown /\ NothingReady
    BY <1>3, ZenonT(60) DEF WaitForJob, ExitLane, WakeSpuriously, LanesInv
  <2>. QED
    BY <1>1, <2>1, <2>2, <2>3, Zenon DEF ReleaseInv
<1>. QED
    BY <1>2, <1>3, Zenon DEF LaneStep

\* addJob, which is not called any more once the queue is being released.
LEMMA AddKeepsRelease ==
    ASSUME BackgroundInv, ReadyInv, LanesInv, ReleaseInv, Lanes' = Lanes,
           NEW j \in Jobs, AddJob(j)
    PROVE  ReleaseInv'
<1>1. /\ UNCHANGED <<client, shutdown, processes>> /\ NotifyOne
      /\ client \in {"live", "signal", "escalate"}
      /\ stage' = [stage EXCEPT ![j] = "ready"]
    BY Zenon DEF AddJob, flags, groupVars
<1>2. ~shutdown
    BY <1>1, Zenon DEF ReleaseInv, Releasings
<1>3. \A l \in Lanes : lane'[l] # "exited"
    BY <1>1, <1>2, Zenon DEF ReleaseInv, LanesInv, NotifyOne
<1>4. readyJobs \in Seq(Jobs) /\ readyPriorityJobs \in Seq(Jobs)
    BY DEF ReadyInv, IsReadyQueue
<1>5. \A s \in Seq(Jobs) :
         /\ Len(s) + 1 \in 1..Len(Append(s, j)) /\ Append(s, j)[Len(s) + 1] = j
         /\ \A n \in 1..Len(s) : /\ n \in 1..Len(Append(s, j))
                                 /\ Append(s, j)[n] = s[n]
    OBVIOUS
<1>6. \A i \in Jobs : Queued(i) \/ i = j => Queued(i)'
  <2>1. CASE j \in High
    <3>1. /\ readyPriorityJobs' = Append(readyPriorityJobs, j)
          /\ readyJobs' = readyJobs
      BY <2>1, Zenon DEF AddJob
    <3>. QED
      BY <1>4, <1>5, <3>1, Zenon DEF Queued
  <2>2. CASE j \notin High
    <3>1. /\ readyJobs' = Append(readyJobs, j)
          /\ readyPriorityJobs' = readyPriorityJobs
      BY <2>2, Zenon DEF AddJob
    <3>. QED
      BY <1>4, <1>5, <3>1, Zenon DEF Queued
  <2>. QED
    BY <2>1, <2>2, Zenon
<1>7. \A i \in Jobs : stage'[i] = "ready" => Queued(i)'
    BY <1>1, <1>6, Zenon DEF ReleaseInv, BackgroundInv
<1>. QED
    BY <1>1, <1>2, <1>3, <1>7, Zenon DEF ReleaseInv, Releasings

\* The calls of the client and the kill thread: every call of the destructor
\* waits for what the next one relies on.
LEMMA ClientKeepsRelease ==
    ASSUME LanesInv, ReleaseInv, Lanes' = Lanes,
           CancelAllJobs \/ ShutDown \/ KillerStep \/ ClientStep
    PROVE  ReleaseInv'
<1>1. UNCHANGED <<stage, readyVars, processes>>
    BY Zenon DEF CancelAllJobs, ShutDown, KillerStep, KillerSleeps, KillerKills,
       ClientStep, Interrupt, StartKiller, JoinLanes, JoinKiller, WaitGroup,
       groupVars
<1>2. NothingReady' = NothingReady /\ \A j \in Jobs : Queued(j)' = Queued(j)
    BY <1>1, Zenon DEF NothingReady, Queued, readyVars
<1>3. CASE CancelAllJobs \/ ShutDown
  <2>1. /\ client = "live" /\ NotifyAll
        /\ \/ client' = "signal" /\ shutdown' = shutdown
           \/ client' = "joinLanes" /\ shutdown'
    BY <1>3, Zenon DEF CancelAllJobs, ShutDown
  <2>2. ~shutdown /\ \A l \in Lanes : lane[l] # "exited" /\ lane'[l] # "exited"
    BY <2>1, Zenon DEF ReleaseInv, Releasings, NotifyAll
  <2>. QED
    BY <1>1, <1>2, <2>1, <2>2 DEF ReleaseInv, Releasings
<1>4. CASE KillerStep \/ Interrupt \/ StartKiller
  <2>1. /\ UNCHANGED <<shutdown, lane>>
        /\ \/ client' = client
           \/ /\ client \in {"signal", "escalate"}
              /\ client' \in {"escalate", "live"}
    BY <1>4, Zenon DEF KillerStep, KillerSleeps, KillerKills, Interrupt, StartKiller,
       flags, laneVars
  <2>. QED
    BY <1>1, <1>2, <2>1, Zenon DEF ReleaseInv, Releasings
<1>5. CASE JoinLanes \/ JoinKiller \/ WaitGroup
  <2>1. /\ UNCHANGED <<shutdown, lane>>
        /\ client \in {"joinLanes", "joinKiller", "waitGroup"}
        /\ client' \in {"joinKiller", "waitGroup", "released"}
        /\ client = "joinLanes" => \A l \in Lanes : lane[l] = "exited"
        /\ client' = "released" => processes = {}
    BY <1>5, Zenon DEF JoinLanes, JoinKiller, WaitGroup, flags, laneVars
  <2>2. \A l \in Lanes : lane[l] = "exited"
    BY <2>1, Zenon DEF ReleaseInv, Releasings
  <2>. QED
    BY <1>1, <1>2, <2>1, <2>2, Zenon DEF ReleaseInv, Releasings
<1>. QED
    BY <1>3, <1>4, <1>5, Zenon DEF ClientStep

\* The types of what the other invariants do not mention.
RestInv ==
    /\ cancelled \in BOOLEAN /\ shutdown \in BOOLEAN /\ closed \in BOOLEAN
    /\ signals \in [Jobs -> SUBSET {"SIGINT", "SIGKILL"}]
    /\ killer \in {"none", "starting", "sleeping", "killed", "skipped"}
    /\ queueComplete \in BOOLEAN
    /\ reported \in [Jobs -> {"none", "Succeeded", "Failed", "Cancelled"}]
    /\ faults \in 0..MaxFaults

\* A job reports one of the statuses, or none yet.
LEMMA JobKeepsRest ==
    ASSUME ProcessInv, RestInv, NEW j \in Jobs,
           JobStep(j) \/ PollFails(j) \/ WaitFails(j)
    PROVE  RestInv'
<1>1. UNCHANGED <<cancelled, shutdown, closed, signals, killer, queueComplete>>
    BY Zenon DEF JobStep, ExecuteInline, ExecuteProcess, Spawn, PipesEnd, Release,
       Refused, PollFails, Wait, WaitFails, Remove, Report, Decrement, flags,
       groupVars, systemVars, killVars
<1>2. faults' \in 0..MaxFaults
  <2>1. \/ faults' = faults
        \/ faults < MaxFaults /\ faults' = faults + 1
    BY Zenon DEF JobStep, ExecuteInline, ExecuteProcess, Spawn, SpawnedBy, SpawnFails,
       PipesEnd, Release, Refused, PollFails, Wait, WaitFails, Remove, Report,
       Decrement
  <2>. QED
    BY <2>1, QueueAssumption DEF RestInv
<1>3. \/ reported' = reported
      \/ \E status \in {"Succeeded", "Failed", "Cancelled"} :
            reported' = [reported EXCEPT ![j] = status]
  <2>1. CASE ExecuteInline(j) \/ ExecuteProcess(j) \/ Spawn(j)
    BY <2>1, Zenon DEF ExecuteInline, ExecuteProcess, Spawn, SpawnedBy, SpawnFails,
                Complete
  <2>2. CASE \/ PipesEnd(j) \/ Release(j) \/ Refused(j) \/ PollFails(j)
             \/ Wait(j) \/ WaitFails(j) \/ Remove(j) \/ Decrement(j)
    BY <2>2, Zenon DEF PipesEnd, Release, Refused, PollFails, Wait, WaitFails, Remove,
                Decrement
  <2>3. CASE Report(j)
    <3>1. process[j] \in {"exited", "killed", "lost"}
      BY <2>3, Zenon DEF Report, ProcessInv
    <3>2. Statuses(j) \subseteq {"Succeeded", "Failed", "Cancelled"}
      BY <3>1, Zenon DEF Statuses
    <3>3. \E status \in Statuses(j) :
             reported' = [reported EXCEPT ![j] = status]
      BY <2>3, Zenon DEF Report, Complete
    <3>. QED
      BY <3>2, <3>3, Zenon
  <2>. QED
    BY <2>1, <2>2, <2>3, Zenon DEF JobStep
<1>. QED
    BY <1>1, <1>2, <1>3, Zenon DEF RestInv

\* The release of the queue and the types, in every step.
LEMMA StepKeepsRelease ==
    ASSUME PlacesInv, ProcessInv, ReleaseInv, RestInv, [Next]_vars
    PROVE  ReleaseInv' /\ RestInv'
<1>1. Lanes' = Lanes /\ BackgroundInv /\ ReadyInv /\ LanesInv
    BY StepKeepsLanes, Zenon DEF PlacesInv
<1>2. ASSUME UNCHANGED <<cancelled, shutdown, closed, signals, killer,
                         queueComplete, reported, faults>>
      PROVE  RestInv'
    BY <1>2, Zenon DEF RestInv
<1>3. ASSUME NEW j \in Jobs, JobStep(j) \/ PollFails(j) \/ WaitFails(j)
      PROVE  ReleaseInv' /\ RestInv'
    BY <1>1, <1>3, JobStepKeepsRelease, JobKeepsRest, Zenon
<1>4. ASSUME NEW j \in Jobs, AddJob(j) PROVE ReleaseInv' /\ RestInv'
    BY <1>1, <1>2, <1>4, AddKeepsRelease, Zenon
       DEF AddJob, flags, groupVars, systemVars, killVars
<1>5. ASSUME UNCHANGED <<client, shutdown, stage, lane, readyVars, processes>>
      PROVE  ReleaseInv'
  <2>1. NothingReady' = NothingReady /\ \A j \in Jobs : Queued(j)' = Queued(j)
    BY <1>5, Zenon DEF NothingReady, Queued, readyVars
  <2>. QED
    BY <1>1, <1>5, <2>1, Zenon DEF ReleaseInv
<1>6. ASSUME NEW j \in Jobs, ProcessExits(j) \/ ProcessKilled(j)
      PROVE  ReleaseInv' /\ RestInv'
  <2>1. /\ UNCHANGED <<client, shutdown, stage, lane, readyVars, processes>>
        /\ UNCHANGED <<cancelled, closed, signals, killer, queueComplete,
                       reported, faults>>
    BY <1>6, Zenon DEF ProcessExits, ProcessKilled, flags, laneVars, groupVars, killVars
  <2>. QED
    BY <1>2, <1>5, <2>1, Zenon
<1>7. ASSUME NEW l \in Lanes, LaneStep(l) \/ WakeSpuriously(l)
      PROVE  ReleaseInv' /\ RestInv'
  <2>1. RestInv'
    BY <1>2, <1>7, Zenon DEF LaneStep, TakePriorityJob, TakeReadyJob, WaitForJob,
       ExitLane, WakeSpuriously, flags, groupVars, systemVars, killVars
  <2>. QED
    BY <1>1, <1>7, <2>1, LaneKeepsRelease, Zenon
<1>8. CASE CancelAllJobs \/ ShutDown \/ KillerStep \/ ClientStep
  <2>1. UNCHANGED <<reported, faults>> /\ shutdown' \in BOOLEAN
        /\ cancelled' \in BOOLEAN /\ closed' \in BOOLEAN
        /\ queueComplete' \in BOOLEAN
        /\ killer' \in {"none", "starting", "sleeping", "killed", "skipped"}
    BY <1>8, Zenon DEF CancelAllJobs, ShutDown, KillerStep, KillerSleeps, KillerKills,
       ClientStep, Interrupt, StartKiller, JoinLanes, JoinKiller, WaitGroup,
       flags, groupVars, killVars, RestInv
  <2>2. \/ signals' = signals
        \/ SignalAll("SIGINT") \/ SignalAll("SIGKILL")
    BY <1>8, Zenon DEF CancelAllJobs, ShutDown, KillerStep, KillerSleeps, KillerKills,
       ClientStep, Interrupt, StartKiller, JoinLanes, JoinKiller, WaitGroup,
       systemVars
  <2>3. signals' \in [Jobs -> SUBSET {"SIGINT", "SIGKILL"}]
    BY <2>2 DEF SignalAll, RestInv
  <2>4. RestInv'
    BY <2>1, <2>3, Zenon DEF RestInv
  <2>. QED
    BY <1>1, <1>8, <2>4, ClientKeepsRelease, Zenon
<1>9. CASE UNCHANGED vars
  <2>1. /\ UNCHANGED <<client, shutdown, stage, lane, readyVars, processes>>
        /\ UNCHANGED <<cancelled, closed, signals, killer, queueComplete,
                       reported, faults>>
    BY <1>9, Zenon DEF vars, flags, laneVars, groupVars, systemVars, killVars
  <2>. QED
    BY <1>2, <1>5, <2>1, Zenon
<1>. QED
    BY <1>3, <1>4, <1>6, <1>7, <1>8, <1>9, Zenon DEF Next

\* All of the above together.
WholeInv == PlacesInv /\ ProcessInv /\ ReleaseInv /\ RestInv

LEMMA WholeHolds == Spec => []WholeInv
<1>1. Init /\ PlacesInv => WholeInv
  <2>. SUFFICES ASSUME Init, PlacesInv PROVE WholeInv
    BY Zenon
  <2>1. \A l \in Lanes : lane[l] = "take"
    BY Zenon DEF Init, Lanes
  <2>2. ProcessInv
    BY Zenon DEF Init, ProcessInv, ProcessStates, GroupStages
  <2>3. ReleaseInv
    BY <2>1, Zenon DEF Init, ReleaseInv, Releasings
  <2>4. RestInv
    <3>1. /\ cancelled \in BOOLEAN /\ shutdown \in BOOLEAN /\ closed \in BOOLEAN
          /\ queueComplete \in BOOLEAN
      BY Zenon DEF Init
    <3>2. signals = [j \in Jobs |-> {}] /\ reported = [j \in Jobs |-> "none"]
      BY Zenon DEF Init
    <3>3. killer = "none" /\ faults \in 0..MaxFaults
      BY QueueAssumption DEF Init
    <3>. QED
      BY <3>1, <3>2, <3>3, Zenon DEF RestInv
  <2>. QED
    BY <2>2, <2>3, <2>4, Zenon DEF WholeInv
<1>2. WholeInv /\ PlacesInv' /\ [Next]_vars => WholeInv'
  <2>. SUFFICES ASSUME WholeInv, PlacesInv', [Next]_vars PROVE WholeInv'
    BY Zenon
  <2>1. /\ PlacesInv /\ BackgroundInv /\ ReadyInv
        /\ ProcessInv /\ ReleaseInv /\ RestInv
    BY Zenon DEF WholeInv, PlacesInv
  <2>2. ProcessInv'
    BY <2>1, StepKeepsProcesses, Zenon
  <2>3. ReleaseInv' /\ RestInv'
    BY <2>1, StepKeepsRelease, Zenon
  <2>. QED
    BY <2>2, <2>3, Zenon DEF WholeInv
<1>. QED
    BY <1>1, <1>2, PlacesHold, PTL DEF Spec

\* When the destructor has returned no process of the queue runs and no job is
\* left half done, for any number of jobs and lanes, however the release of
\* the queue interleaves with a cancellation, with processes that released
\* their lane and with failing system calls.
THEOREM ReleaseIsClean == Spec => []ReleasedClean
<1>1. WholeInv => ReleasedClean
    BY ReleasedIsClean, Zenon DEF WholeInv
<1>. QED
    BY <1>1, WholeHolds, PTL

\* The variables of the queue keep their types: the background count never
\* goes below zero and a lane is busy exactly while it has a job.
THEOREM TypesHold == Spec => []TypeOK
<1>1. WholeInv => TypeOK
  <2>. SUFFICES ASSUME WholeInv PROVE TypeOK
    BY Zenon
  <2>1. openFileLimit \in Nat /\ backgroundTaskMax \in Nat
    BY Zenon DEF WholeInv, PlacesInv, BackgroundInv
  <2>2. backgroundTaskCount \in Nat
    BY BackgroundFinite DEF WholeInv, PlacesInv, BackgroundInv
  <2>3. readyJobs \in Seq(Jobs) /\ readyPriorityJobs \in Seq(Jobs)
    BY DEF WholeInv, PlacesInv, ReadyInv, IsReadyQueue
  <2>4. /\ Lanes # {} /\ Lanes = DOMAIN runs
        /\ \A l \in Lanes : /\ lane[l] \in {"take", "waiting", "busy", "exited"}
                            /\ runs[l] \in Jobs \cup {NoJob}
                            /\ lane[l] = "busy" <=> runs[l] # NoJob
    BY Zenon DEF WholeInv, PlacesInv, LanesInv, LaneStates
  <2>5. stage \in [Jobs -> Stages] /\ detached \subseteq Jobs
    BY Zenon DEF WholeInv, PlacesInv, BackgroundInv
  <2>6. /\ processes \subseteq Jobs
        /\ process \in [Jobs -> {"none", "running", "exited", "killed", "lost"}]
    BY Zenon DEF WholeInv, ProcessInv, ProcessStates
  <2>7. client \in {"live", "signal", "escalate", "joinLanes", "joinKiller",
                    "waitGroup", "released"}
    BY Zenon DEF WholeInv, ReleaseInv, Releasings
  <2>8. RestInv
    BY Zenon DEF WholeInv
  <2>. QED
    BY <2>1, <2>2, <2>3, <2>4, <2>5, <2>6, <2>7, <2>8, Zenon DEF TypeOK, RestInv
<1>. QED
    BY <1>1, WholeHolds, PTL
==============================================================================
