----------------------------- MODULE BuildEngine -----------------------------
(***************************************************************************)
(* The core build engine (Core/lib/Core/BuildEngine.cpp).  One engine      *)
(* thread runs executeTasks(), a loop over five work queues; worker        *)
(* threads run the computations of tasks and report them through           *)
(* taskIsComplete(); client threads call build(), cancelBuild() and        *)
(* resetForBuild().  Results live in memory in RuleInfo::result and in the *)
(* build database, which a build updates inside one transaction.           *)
(*                                                                         *)
(* What rules and tasks do is the client's business: it is given by the    *)
(* CONSTANT operators below, indexed by the version of the build           *)
(* description ("program") the client has loaded.                          *)
(***************************************************************************)
EXTENDS Integers, Sequences, FiniteSets

CONSTANTS
    Keys,                   \* the keys for which there is a rule
    NoKey,                  \* the null task of a dummy input request
    Roots,                  \* the keys a client asks build() for
    Programs,               \* versions of the build description
    Values,                 \* the values a rule can have
    EmptyValue,             \* the value of a default-constructed Result
    CancelledValue,         \* what a task killed by a cancellation reports
    Environments,           \* the states of the file system
    Start(_, _),            \* requests made in Task::start and providePriorValue
    React(_, _, _, _),      \* requests made in Task::provideValue
    Discover(_, _),         \* dependencies a task discovers while computing
    Compute(_, _, _, _),    \* the value a task computes
    IsResultValid(_, _, _, _), \* Rule::isResultValid
    Signature(_, _),        \* Rule::signature
    ForceChange,            \* the forceChange flags tasks complete with
    CycleAnswers,           \* the answers of shouldResolveCycle
    MaxBuilds, MaxEdits, MaxRestarts, MaxCancels, MaxResets, MaxFaults \* bounds

\* DependencyKeyIDs::KeyIDAndFlags
Dependency == [key : Keys, orderOnly : BOOLEAN, singleUse : BOOLEAN]

ASSUME ClientAssumption ==
    /\ NoKey \notin Keys
    /\ Roots \subseteq Keys
    /\ EmptyValue \in Values /\ CancelledValue \in Values
    /\ ForceChange \subseteq BOOLEAN /\ CycleAnswers \subseteq BOOLEAN
    /\ \A p \in Programs, k \in Keys :
          /\ Start(p, k) \in Seq(Dependency)
          /\ Discover(p, k) \in Seq(Keys)
          /\ Signature(p, k) \in Nat
          /\ \A i \in Keys, v \in Values :
                React(p, k, i, v) \in Seq(Dependency)
          /\ \A given \in [Keys -> Values], e \in Environments :
                Compute(p, k, given, e) \in Values

ASSUME BoundsAssumption ==
    /\ IsFiniteSet(Keys)
    /\ {MaxBuilds, MaxEdits, MaxRestarts, MaxCancels, MaxResets, MaxFaults}
          \subseteq Nat

VARIABLES
    prog, env,              \* the client: build description and file system
    db, txn,                \* the database: committed, and inside the transaction
    state, result, wasForced,               \* RuleInfo
    taskInfos, waitCount, given, requestedBy,   \* TaskInfo
    pausedInputRequests, deferredScanRequests,  \* RuleScanRecord, TaskInfo
    ruleInfosToScan, inputRequests, finishedInputRequests, readyTaskInfos,
    finishedTaskInfos,      \* the queue shared with the workers
    numOutstandingUnfinishedTasks,
    executing,              \* tasks a worker is computing
    notifying,              \* workers between the unlock and notify_one()
    pc, didWork, success,   \* the engine thread in executeTasks()
    currentEpoch, buildKey, buildCancelled,
    returned,               \* what the last build() returned
    spent                   \* how much of each bound is used up

ruleVars == <<state, result, wasForced>>
taskVars == <<taskInfos, waitCount, given, requestedBy>>
scanVars == <<ruleInfosToScan, deferredScanRequests, pausedInputRequests>>
inputVars == <<inputRequests, finishedInputRequests>>
workerVars == <<finishedTaskInfos, executing, notifying>>
outerVars == <<prog, env, db, txn, currentEpoch, buildKey, returned>>
vars == <<prog, env, db, txn, state, result, wasForced, taskInfos, waitCount,
          given, requestedBy, pausedInputRequests, deferredScanRequests,
          ruleInfosToScan, inputRequests, finishedInputRequests,
          readyTaskInfos, finishedTaskInfos, numOutstandingUnfinishedTasks,
          executing, notifying, pc, didWork, success, currentEpoch, buildKey,
          buildCancelled, returned, spent>>

-----------------------------------------------------------------------------
(* Types.                                                                  *)

StateKind == {"Incomplete", "IsScanning", "NeedsToRun", "DoesNotNeedToRun",
              "InProgressWaiting", "InProgressComputing", "Complete"}

Result == [value : Values, signature : Nat, computedAt : Nat, builtAt : Nat,
           dependencies : Seq(Dependency)]

Store == [results : [Keys -> Result], epoch : Nat]

\* TaskInputRequest; a dummy request has no task.
TaskInputRequest == [task : Keys \cup {NoKey}, input : Keys,
                     orderOnly : BOOLEAN, singleUse : BOOLEAN,
                     forcePriorValue : BOOLEAN]

\* A request whose value a task waits for.
TaskRequest == {r \in TaskInputRequest : r.task # NoKey}

\* RuleScanRequest; the cached inputRuleInfo is dependencies[index].key.
RuleScanRequest == [ruleInfo : Keys, inputIndex : Nat \ {0}]

Phases == {"scan", "inputs", "finishedInputs", "ready", "finishedTasks"}

Control == Phases \cup {"idle", "top", "wait", "waiting", "cycle",
                        "cancel", "drainWaiting", "end", "undefined"}

Spending == [builds : Nat, edits : Nat, restarts : Nat, cancels : Nat,
             resets : Nat, faults : Nat]

\* Every variable has its type: in particular the database holds whole
\* results, the queues hold requests of known rules, and no dummy request is
\* ever among those whose value is provided to a task.
TypeOK ==
    /\ prog \in Programs /\ env \in Environments
    /\ db \in Store /\ txn \in Store
    /\ state \in [Keys -> StateKind]
    /\ result \in [Keys -> Result]
    /\ wasForced \in [Keys -> BOOLEAN]
    /\ taskInfos \subseteq Keys
    /\ waitCount \in [Keys -> Int]
    /\ given \in [Keys -> [Keys -> Values]]
    /\ requestedBy \in [Keys -> Seq(TaskRequest)]
    /\ pausedInputRequests \in [Keys -> Seq(TaskInputRequest)]
    /\ deferredScanRequests \in [Keys -> Seq(RuleScanRequest)]
    /\ ruleInfosToScan \in Seq(RuleScanRequest)
    /\ inputRequests \in Seq(TaskInputRequest)
    /\ finishedInputRequests \in Seq(TaskRequest)
    /\ readyTaskInfos \in Seq(Keys)
    /\ finishedTaskInfos \in Seq(Keys)
    /\ numOutstandingUnfinishedTasks \in Int
    /\ executing \subseteq Keys /\ notifying \subseteq Keys
    /\ pc \in Control
    /\ didWork \in BOOLEAN /\ success \in BOOLEAN
    /\ currentEpoch \in Nat
    /\ buildKey \in Keys
    /\ buildCancelled \in BOOLEAN
    /\ returned \in {"none", "empty", "value"}
    /\ spent \in Spending

-----------------------------------------------------------------------------
(* RuleInfo.                                                               *)

NoResult == [value |-> EmptyValue, signature |-> 0, computedAt |-> 0,
             builtAt |-> 0, dependencies |-> <<>>]

IsScanning(k) == state[k] = "IsScanning"

IsInProgress(k) == state[k] \in {"InProgressWaiting", "InProgressComputing"}

\* Complete is lazily undone: it only counts for the epoch it was set in.
IsComplete(k) == state[k] = "Complete" /\ result[k].builtAt = currentEpoch

IsScanned(k) ==
    IF state[k] = "Complete" THEN IsComplete(k)
                             ELSE state[k] \notin {"Incomplete", "IsScanning"}

\* scanRule() drops single-use dependencies from the list before anyone reads
\* it; here they stay in the list and every reader passes over them.
IsScannedDependency(d) == ~d.singleUse

HasDependencies(k) ==
    \E n \in DOMAIN result[k].dependencies :
        IsScannedDependency(result[k].dependencies[n])

\* The rule has to run whatever its dependencies say.
MustRun(k) ==
    \/ result[k].builtAt = 0
    \/ Signature(prog, k) # result[k].signature
    \/ ~IsResultValid(prog, k, result[k].value, env)

\* The state in which scanRule() leaves a rule; it returns false when that is
\* IsScanning.
ScanRule(k) ==
    CASE IsScanned(k) \/ IsScanning(k) -> state[k]
      [] ~IsScanned(k) /\ ~IsScanning(k) ->
            IF MustRun(k) THEN "NeedsToRun"
            ELSE IF HasDependencies(k) THEN "IsScanning"
            ELSE "DoesNotNeedToRun"

\* What scanRule() enqueues.
ScanRuleRequests(k) ==
    IF ScanRule(k) = "IsScanning" /\ ~IsScanning(k)
    THEN <<[ruleInfo |-> k, inputIndex |-> 1]>> ELSE <<>>

\* Mutant of IsAvailable: a rule in progress counts as available.
AvailableInProgress(k) == ScanRule(k) # "IsScanning" /\ ScanRule(k) # "NeedsToRun"

\* What scanRule() and then, if the rule is scanned, demandRule() return.
IsAvailable(k) == ScanRule(k) \in {"Complete", "DoesNotNeedToRun"}

InputRequestsFor(t, deps) ==
    [n \in 1..Len(deps) |-> [task |-> t, input |-> deps[n].key,
                             orderOnly |-> deps[n].orderOnly,
                             singleUse |-> deps[n].singleUse,
                             forcePriorValue |-> FALSE]]

\* RuleInfo::result of all rules after scanRule(k) and demandRule(k).
ResultDemanded(k) ==
    CASE ScanRule(k) = "DoesNotNeedToRun" ->
            [result EXCEPT ![k].builtAt = currentEpoch]
      [] ScanRule(k) = "NeedsToRun" ->
            [result EXCEPT ![k].dependencies = <<>>]
      [] OTHER -> result

\* RuleInfo::state of all rules after scanRule(k) and demandRule(k).
StateDemanded(k) ==
    CASE ScanRule(k) = "DoesNotNeedToRun" -> [state EXCEPT ![k] = "Complete"]
      [] ScanRule(k) = "NeedsToRun" -> [state EXCEPT ![k] = "InProgressWaiting"]
      [] OTHER -> [state EXCEPT ![k] = ScanRule(k)]

\* scanRule(k) and, if that returns true, demandRule(k), with queue for the
\* input requests: registers and starts the task of a rule that needs to run.
ScanAndDemand(k, queue) ==
    /\ wasForced' = [wasForced EXCEPT
                        ![k] = @ /\ (IsScanned(k) \/ IsScanning(k))]
    /\ IF ScanRule(k) = "NeedsToRun"
       THEN LET deps == Start(prog, k) IN
            /\ taskInfos' = taskInfos \cup {k}
            /\ waitCount' = [waitCount EXCEPT ![k] = Len(deps)]
            /\ given' = [given EXCEPT ![k] = [i \in Keys |-> EmptyValue]]
            /\ inputRequests' = queue \o InputRequestsFor(k, deps)
            /\ readyTaskInfos' = IF Len(deps) = 0 THEN Append(readyTaskInfos, k)
                                                 ELSE readyTaskInfos
       ELSE /\ inputRequests' = queue
            /\ UNCHANGED <<taskInfos, waitCount, given, readyTaskInfos>>

-----------------------------------------------------------------------------
(* Dependency scanning: processRuleScanRequest().  The loop over the       *)
(* inputs takes one step per input.  Between two inputs the request is put *)
(* back on top of the stack it was taken from: handling an available input *)
(* pushes nothing, so the next scan step resumes the same request.         *)

ScanStep ==
    /\ pc = "scan" /\ ruleInfosToScan # <<>>
    /\ didWork' = TRUE
    /\ UNCHANGED <<pc, success, buildCancelled, spent, numOutstandingUnfinishedTasks>>
    /\ UNCHANGED <<outerVars, workerVars>>

request == ruleInfosToScan[Len(ruleInfosToScan)]
otherRequests == SubSeq(ruleInfosToScan, 1, Len(ruleInfosToScan) - 1)
nextRequest == [request EXCEPT !.inputIndex = @ + 1]
scanned == request.ruleInfo
dependency == result[scanned].dependencies[request.inputIndex]

\* The request has a dependency left to look at.
HasInput ==
    IsScanning(scanned) /\ request.inputIndex <= Len(result[scanned].dependencies)

\* "If the input has been computed since the last time this rule was built,
\* it needs to run."
InputRebuilt(k, i) == result[k].builtAt < result[i].computedAt

\* Mutant of FinishScanRequest: paused input requests are freed with the scan
\* record instead of being queued again.
FinishScanForgetsPaused(k, stack) ==
    /\ ruleInfosToScan' = stack \o deferredScanRequests[k]
    /\ deferredScanRequests' = [deferredScanRequests EXCEPT ![k] = <<>>]
    /\ inputRequests' = inputRequests
    /\ pausedInputRequests' = [pausedInputRequests EXCEPT ![k] = <<>>]

\* finishScanRequest(), with stack for the scan requests: wakes up what was
\* paused or deferred on the rule.  The caller sets the rule's state.
FinishScanRequest(k, stack) ==
    /\ ruleInfosToScan' = stack \o deferredScanRequests[k]
    /\ deferredScanRequests' = [deferredScanRequests EXCEPT ![k] = <<>>]
    /\ inputRequests' = inputRequests \o pausedInputRequests[k]
    /\ pausedInputRequests' = [pausedInputRequests EXCEPT ![k] = <<>>]

\* A request for a rule that was forced to run while it was being scanned.
ScanIgnored ==
    /\ ScanStep
    /\ ~IsScanning(scanned)
    /\ ruleInfosToScan' = otherRequests
    /\ UNCHANGED <<deferredScanRequests, pausedInputRequests>>
    /\ UNCHANGED <<ruleVars, taskVars, inputVars, readyTaskInfos>>

ScanSingleUse ==
    /\ ScanStep
    /\ HasInput /\ ~IsScannedDependency(dependency)
    /\ ruleInfosToScan' = Append(otherRequests, nextRequest)
    /\ UNCHANGED <<deferredScanRequests, pausedInputRequests>>
    /\ UNCHANGED <<ruleVars, taskVars, inputVars, readyTaskInfos>>

\* The input is not available: the request is deferred, on the scan record of
\* an input being scanned or on the task of an input in progress.
ScanDeferred ==
    /\ ScanStep
    /\ HasInput /\ IsScannedDependency(dependency)
    /\ LET i == dependency.key IN
       /\ ~IsAvailable(i)
       /\ state' = StateDemanded(i)
       /\ result' = ResultDemanded(i)
       /\ ScanAndDemand(i, inputRequests)
       /\ ruleInfosToScan' = otherRequests \o ScanRuleRequests(i)
       /\ deferredScanRequests' = [deferredScanRequests EXCEPT
                                      ![i] = Append(@, request)]
    /\ UNCHANGED <<pausedInputRequests, finishedInputRequests, requestedBy>>

\* The input is available and leaves the rule as it was.
ScanNextInput ==
    /\ ScanStep
    /\ HasInput /\ IsScannedDependency(dependency)
    /\ LET i == dependency.key IN
       /\ IsAvailable(i)
       /\ dependency.orderOnly \/ ~InputRebuilt(scanned, i)
       /\ state' = StateDemanded(i)
       /\ result' = ResultDemanded(i)
       /\ ScanAndDemand(i, inputRequests)
       /\ ruleInfosToScan' = Append(otherRequests, nextRequest)
    /\ UNCHANGED <<deferredScanRequests, pausedInputRequests>>
    /\ UNCHANGED <<finishedInputRequests, requestedBy>>

\* The input is available and was computed after the rule was last built.
ScanInputRebuilt ==
    /\ ScanStep
    /\ HasInput /\ IsScannedDependency(dependency)
    /\ LET i == dependency.key IN
       /\ IsAvailable(i)
       /\ ~dependency.orderOnly /\ InputRebuilt(scanned, i)
       /\ state' = [StateDemanded(i) EXCEPT ![scanned] = "NeedsToRun"]
       /\ result' = ResultDemanded(i)
       /\ wasForced' = [wasForced EXCEPT ![i] = @ /\ IsScanned(i)]
    /\ FinishScanRequest(scanned, otherRequests)
    /\ UNCHANGED <<taskVars, finishedInputRequests, readyTaskInfos>>

ScanUpToDate ==
    /\ ScanStep
    /\ IsScanning(scanned) /\ ~HasInput
    /\ state' = [state EXCEPT ![scanned] = "DoesNotNeedToRun"]
    /\ FinishScanRequest(scanned, otherRequests)
    /\ UNCHANGED <<result, wasForced, taskVars, finishedInputRequests>>
    /\ UNCHANGED readyTaskInfos

ProcessRuleScanRequest ==
    \/ ScanIgnored \/ ScanSingleUse \/ ScanDeferred \/ ScanNextInput
    \/ ScanInputRebuilt \/ ScanUpToDate

-----------------------------------------------------------------------------
(* The other queues of executeTasks().                                     *)

\* Input requests are taken in FIFO order.
inputRequest == Head(inputRequests)

InputStep ==
    /\ pc = "inputs" /\ inputRequests # <<>>
    /\ didWork' = TRUE
    /\ UNCHANGED <<pc, success, buildCancelled, spent, numOutstandingUnfinishedTasks>>
    /\ UNCHANGED <<outerVars, workerVars, deferredScanRequests>>

\* The rule is being scanned: the request waits on its scan record.
PauseInputRequest ==
    /\ InputStep
    /\ LET i == inputRequest.input IN
       /\ ScanRule(i) = "IsScanning"
       /\ state' = StateDemanded(i)
       /\ ScanAndDemand(i, Tail(inputRequests))
       /\ ruleInfosToScan' = ruleInfosToScan \o ScanRuleRequests(i)
       /\ pausedInputRequests' = [pausedInputRequests EXCEPT
                                     ![i] = Append(@, inputRequest)]
    /\ UNCHANGED <<result, finishedInputRequests, requestedBy>>

\* Mutant of RecordedDependency: a flag is not recorded.
RecordedWithoutFlag(r) == [key |-> r.input, orderOnly |-> r.orderOnly]

RecordedDependency(r) ==
    [key |-> r.input, orderOnly |-> r.orderOnly, singleUse |-> r.singleUse]

\* A dummy request only demands its rule; any other one is recorded as a
\* dependency and then finished, or left with the task of its input.
ProcessInputRequest ==
    /\ InputStep
    /\ LET i == inputRequest.input
           t == inputRequest.task
       IN
       /\ ScanRule(i) # "IsScanning"
       /\ state' = StateDemanded(i)
       /\ ScanAndDemand(i, Tail(inputRequests))
       /\ result' =
            IF t = NoKey THEN ResultDemanded(i)
            ELSE [ResultDemanded(i) EXCEPT ![t].dependencies =
                                Append(@, RecordedDependency(inputRequest))]
       /\ finishedInputRequests' =
            IF t # NoKey /\ IsAvailable(i)
            THEN Append(finishedInputRequests, inputRequest)
            ELSE finishedInputRequests
       /\ requestedBy' =
            IF t # NoKey /\ ~IsAvailable(i)
            THEN [requestedBy EXCEPT ![i] = Append(@, inputRequest)]
            ELSE requestedBy
    /\ UNCHANGED <<ruleInfosToScan, pausedInputRequests>>

\* Finished input requests are taken in LIFO order.  The value goes to the
\* task, which may request more inputs, and then its wait count drops.
ProcessFinishedInputRequest ==
    /\ pc = "finishedInputs" /\ finishedInputRequests # <<>>
    /\ didWork' = TRUE
    /\ LET r == finishedInputRequests[Len(finishedInputRequests)]
           t == r.task
           v == result[r.input].value
           more == IF r.orderOnly THEN <<>> ELSE React(prog, t, r.input, v)
           waits == waitCount[t] + Len(more) - 1
       IN
       /\ finishedInputRequests' =
            SubSeq(finishedInputRequests, 1, Len(finishedInputRequests) - 1)
       /\ given' = IF r.orderOnly THEN given
                   ELSE [given EXCEPT ![t][r.input] = v]
       /\ inputRequests' = inputRequests \o InputRequestsFor(t, more)
       /\ waitCount' = [waitCount EXCEPT ![t] = waits]
       /\ readyTaskInfos' = IF waits = 0 THEN Append(readyTaskInfos, t)
                                         ELSE readyTaskInfos
    /\ UNCHANGED <<pc, success, buildCancelled, spent, numOutstandingUnfinishedTasks>>
    /\ UNCHANGED <<outerVars, workerVars, ruleVars, scanVars, taskInfos, requestedBy>>

\* setComputing() and inputsAvailable(), which hands the task to a worker.
ProcessReadyTask ==
    /\ pc = "ready" /\ readyTaskInfos # <<>>
    /\ didWork' = TRUE
    /\ LET k == Head(readyTaskInfos) IN
       /\ state' = [state EXCEPT ![k] = "InProgressComputing"]
       /\ executing' = executing \cup {k}
    /\ readyTaskInfos' = Tail(readyTaskInfos)
    /\ numOutstandingUnfinishedTasks' = numOutstandingUnfinishedTasks + 1
    /\ UNCHANGED <<pc, success, buildCancelled, spent, finishedTaskInfos, notifying>>
    /\ UNCHANGED <<outerVars, result, wasForced, taskVars, scanVars, inputVars>>

\* Finished tasks are taken in LIFO order, each under finishedTaskInfosMutex.
finishedTask == finishedTaskInfos[Len(finishedTaskInfos)]

DiscoveredDependencies(k) ==
    [n \in 1..Len(Discover(prog, k)) |->
        [key |-> Discover(prog, k)[n], orderOnly |-> FALSE, singleUse |-> FALSE]]

\* Mutant of CompletedResult: discovered dependencies are not recorded.
CompletedWithoutDiscovered(k) == [result[k] EXCEPT !.builtAt = currentEpoch]

\* The rule is complete, with its discovered dependencies, each of which is
\* brought up to date by a dummy request.
CompletedResult(k) ==
    [result[k] EXCEPT !.builtAt = currentEpoch,
                      !.dependencies = @ \o DiscoveredDependencies(k)]

FinishStep(k) ==
    /\ pc = "finishedTasks" /\ finishedTaskInfos # <<>>
    /\ k = finishedTask
    /\ finishedTaskInfos' =
            SubSeq(finishedTaskInfos, 1, Len(finishedTaskInfos) - 1)
    /\ state' = [state EXCEPT ![k] = "Complete"]
    /\ result' = [result EXCEPT ![k] = CompletedResult(k)]
    /\ inputRequests' =
            inputRequests \o InputRequestsFor(NoKey, DiscoveredDependencies(k))
    /\ numOutstandingUnfinishedTasks' = numOutstandingUnfinishedTasks - 1
    /\ UNCHANGED <<buildCancelled, prog, env, db, currentEpoch, buildKey, returned>>
    /\ UNCHANGED <<executing, notifying, wasForced, readyTaskInfos>>
    /\ UNCHANGED <<waitCount, given, pausedInputRequests>>

ProcessFinishedTask ==
    \E k \in taskInfos :
       /\ FinishStep(k)
       /\ didWork' = TRUE
       /\ txn' = [txn EXCEPT !.results[k] = CompletedResult(k)]
       /\ ruleInfosToScan' = ruleInfosToScan \o deferredScanRequests[k]
       /\ deferredScanRequests' = [deferredScanRequests EXCEPT ![k] = <<>>]
       /\ finishedInputRequests' = finishedInputRequests \o requestedBy[k]
       /\ requestedBy' = [requestedBy EXCEPT ![k] = <<>>]
       /\ taskInfos' = taskInfos \ {k}
       /\ UNCHANGED <<pc, success, spent>>

\* BuildDB::setRuleResult fails: the remaining tasks are cancelled, among
\* which this one, which is complete but still registered.
SetRuleResultFails ==
    /\ spent.faults < MaxFaults
    /\ spent' = [spent EXCEPT !.faults = @ + 1]
    /\ \E k \in taskInfos : FinishStep(k)
    /\ pc' = "cancel" /\ success' = FALSE
    /\ UNCHANGED <<didWork, txn, taskInfos, requestedBy, finishedInputRequests>>
    /\ UNCHANGED <<ruleInfosToScan, deferredScanRequests>>

-----------------------------------------------------------------------------
(* The loop itself.                                                        *)

Unchanged(control) ==
    /\ UNCHANGED <<ruleVars, taskVars, scanVars, inputVars, readyTaskInfos>>
    /\ UNCHANGED <<workerVars, numOutstandingUnfinishedTasks, outerVars>>
    /\ UNCHANGED <<buildCancelled, spent>>
    /\ UNCHANGED control

\* Mutant of ObservesCancellation: finished inputs are provided first.
ObservesCancellationLate == buildCancelled /\ finishedInputRequests = <<>>

\* "Cancel the build, if requested."
ObservesCancellation == buildCancelled

LoopTop ==
    /\ pc = "top"
    /\ didWork' = FALSE
    /\ pc' = IF ObservesCancellation THEN "cancel" ELSE "scan"
    /\ success' = FALSE
    /\ Unchanged(<<>>)

\* A queue is empty: the loop turns to the next one.
NextQueue ==
    /\ \/ pc = "scan" /\ ruleInfosToScan = <<>> /\ pc' = "inputs"
       \/ pc = "inputs" /\ inputRequests = <<>> /\ pc' = "finishedInputs"
       \/ pc = "finishedInputs" /\ finishedInputRequests = <<>> /\ pc' = "ready"
       \/ pc = "ready" /\ readyTaskInfos = <<>> /\ pc' = "finishedTasks"
    /\ Unchanged(<<didWork, success>>)

\* Mutant of MustWait: the engine waits only for completions already queued.
MustWaitForQueued == finishedTaskInfos # <<>>

\* There are pending tasks: wait for one to complete.
MustWait == numOutstandingUnfinishedTasks # 0

\* The queue of finished tasks was seen empty.  Workers can add to it as soon
\* as the mutex is released.
LoopBottom ==
    /\ pc = "finishedTasks" /\ finishedTaskInfos = <<>>
    /\ pc' = CASE didWork -> "top"
               [] ~didWork /\ MustWait -> "wait"
               [] ~didWork /\ ~MustWait ->
                    IF taskInfos # {} THEN "cycle" ELSE "end"
    /\ success' = (pc' = "end")
    /\ Unchanged(<<didWork>>)

\* Mutant of MaySleep: the queue is not looked at again under the mutex.
MaySleepUnchecked == TRUE

\* Under finishedTaskInfosMutex: "if one has been added then we may have
\* already missed the condition notification and cannot safely wait".
MaySleep == finishedTaskInfos = <<>>

WaitForTask ==
    /\ pc = "wait"
    /\ didWork' = TRUE
    /\ pc' = IF MaySleep THEN "waiting" ELSE "top"
    /\ Unchanged(<<success>>)

\* Where the engine thread goes when its condition variable wakes it up.
Awake(control) == CASE control = "waiting" -> "top"
                    [] control = "drainWaiting" -> "cancel"
                    [] OTHER -> control

SpuriousWakeup ==
    /\ pc \in {"waiting", "drainWaiting"}
    /\ pc' = Awake(pc)
    /\ Unchanged(<<didWork, success>>)

\* Mutant of OutstandingAfterDrain: one task is counted for the whole queue.
OutstandingAfterDrainOne ==
    IF MaySleep THEN numOutstandingUnfinishedTasks
                ELSE numOutstandingUnfinishedTasks - 1

OutstandingAfterDrain == numOutstandingUnfinishedTasks - Len(finishedTaskInfos)

\* cancelRemainingTasks(): first every computing task is waited for ...
DrainFinishedTasks ==
    /\ pc = "cancel" /\ numOutstandingUnfinishedTasks # 0
    /\ pc' = IF MaySleep THEN "drainWaiting" ELSE "cancel"
    /\ numOutstandingUnfinishedTasks' = OutstandingAfterDrain
    /\ finishedTaskInfos' = <<>>
    /\ UNCHANGED <<ruleVars, taskVars, scanVars, inputVars, readyTaskInfos>>
    /\ UNCHANGED <<executing, notifying, outerVars, buildCancelled, spent>>
    /\ UNCHANGED <<didWork, success>>

\* Mutant of CancelledState: rules that are being scanned are forgotten.
CancelledStateOfTasks(k) == IF k \in taskInfos THEN "Incomplete" ELSE state[k]

\* ... then the tasks are dropped and their rules are incomplete again.
\* setCancelled() changes the state of the rule and nothing else.
CancelledState(k) ==
    IF k \in taskInfos \/ IsScanning(k) THEN "Incomplete" ELSE state[k]

CancelTasks ==
    /\ pc = "cancel" /\ numOutstandingUnfinishedTasks = 0
    /\ state' = [k \in Keys |-> CancelledState(k)]
    /\ taskInfos' = {}
    /\ requestedBy' = [k \in Keys |-> <<>>]
    /\ pausedInputRequests' = [k \in Keys |-> <<>>]
    /\ deferredScanRequests' = [k \in Keys |-> <<>>]
    /\ ruleInfosToScan' = <<>> /\ inputRequests' = <<>>
    /\ finishedInputRequests' = <<>> /\ readyTaskInfos' = <<>>
    /\ finishedTaskInfos' = <<>>
    /\ pc' = "end"
    /\ UNCHANGED <<result, wasForced, waitCount, given, executing, notifying>>
    /\ UNCHANGED <<numOutstandingUnfinishedTasks, outerVars, buildCancelled>>
    /\ UNCHANGED <<spent, didWork, success>>

-----------------------------------------------------------------------------
(* Cycles: resolveCycle(), findCycle() and breakCycle().                   *)

InRange(s) == {s[n] : n \in DOMAIN s}

\* predecessorGraph: k cannot proceed before i does.
WaitsFor(k, i) ==
    \/ \E r \in InRange(requestedBy[i]) \cup InRange(pausedInputRequests[i]) :
            r.task = k
    \/ \E r \in InRange(deferredScanRequests[i]) : r.ruleInfo = k

\* The lists findCycle() can return: a path of distinct rules from the rule to
\* build, followed by a rule that is already on it.  The search order, by key,
\* picks one of them.
CycleLists ==
    {c \in UNION {[1..n -> Keys] : n \in 2..(Cardinality(Keys) + 1)} :
        /\ c[1] = buildKey
        /\ \A m \in 1..(Len(c) - 1) : WaitsFor(c[m], c[m + 1])
        /\ \A m, n \in 1..(Len(c) - 1) : m # n => c[m] # c[n]
        /\ \E m \in 1..(Len(c) - 1) : c[m] = c[Len(c)]}

\* breakCycle() walks the list backwards.  It stops at a rule that is being
\* scanned, or that waits and has a prior result which the rule before it on
\* the list has requested.  For the first rule there is none before it, and
\* the code reads past the end of the list all the same.
Requests(k, i) == \E n \in DOMAIN requestedBy[i] : requestedBy[i][n].task = k

HasPriorResult(k) == state[k] = "InProgressWaiting" /\ result[k].builtAt # 0

StopsAt(c, n) ==
    \/ IsScanning(c[n])
    \/ HasPriorResult(c[n]) /\ (n = 1 \/ Requests(c[n - 1], c[n]))

BreaksAt(c, n) ==
    /\ n \in DOMAIN c
    /\ StopsAt(c, n)
    /\ \A m \in (n + 1)..Len(c) : ~StopsAt(c, m)

CycleStep ==
    /\ pc = "cycle"
    /\ UNCHANGED <<didWork, success, workerVars, numOutstandingUnfinishedTasks>>
    /\ UNCHANGED <<outerVars, buildCancelled, spent, readyTaskInfos, result>>
    /\ UNCHANGED <<taskInfos, waitCount, given>>

\* Mutant of Forced: the rule is not marked.
ForcedUnmarked(k) == wasForced

\* wasForced after the rule was forced to run.
Forced(k) == [wasForced EXCEPT ![k] = TRUE]

\* CycleAction::ForceBuild.  There is no request of the rule to erase from
\* ruleInfosToScan: it is empty whenever a cycle is looked for (NoFalseCycle).
ForceBuild(k) ==
    /\ CycleStep
    /\ TRUE \in CycleAnswers
    /\ IsScanning(k)
    /\ FinishScanRequest(k, ruleInfosToScan)
    /\ state' = [state EXCEPT ![k] = "NeedsToRun"]
    /\ wasForced' = Forced(k)
    /\ pc' = "top"
    /\ UNCHANGED <<requestedBy, finishedInputRequests>>

\* Mutant of Erase: the request stays with the task of its input.
EraseNothing(s, n) == s

Erase(s, n) == SubSeq(s, 1, n - 1) \o SubSeq(s, n + 1, Len(s))

\* CycleAction::SupplyPriorValue
SupplyPriorValue(k, i) ==
    /\ CycleStep
    /\ TRUE \in CycleAnswers
    /\ ~IsScanning(i)
    /\ \E n \in DOMAIN requestedBy[i] :
          /\ requestedBy[i][n].task = k
          /\ \A m \in 1..(n - 1) : requestedBy[i][m].task # k
          /\ finishedInputRequests' = Append(finishedInputRequests,
                [requestedBy[i][n] EXCEPT !.forcePriorValue = TRUE])
          /\ requestedBy' = [requestedBy EXCEPT ![i] = Erase(@, n)]
    /\ pc' = "top"
    /\ UNCHANGED <<state, wasForced, scanVars, inputRequests>>

BreakCycle ==
    /\ pc = "cycle"
    /\ \E c \in CycleLists : \E n \in DOMAIN c :
        /\ BreaksAt(c, n)
        /\ \/ ForceBuild(c[n])
           \/ n > 1 /\ SupplyPriorValue(c[n - 1], c[n])

\* The list ends before the rule it is read for: what happens is undefined.
ReadPastCycle ==
    /\ CycleStep
    /\ \E c \in CycleLists : BreaksAt(c, 1) /\ ~IsScanning(c[1])
    /\ pc' = "undefined"
    /\ UNCHANGED <<state, wasForced, requestedBy, scanVars, inputVars>>

\* No cycle is found, nothing on it can be broken, or the delegate declines.
CycleDetected ==
    /\ CycleStep
    /\ \/ CycleLists = {}
       \/ \E c \in CycleLists : \A n \in DOMAIN c : ~StopsAt(c, n)
       \/ /\ FALSE \in CycleAnswers
          /\ \E c \in CycleLists : \E n \in DOMAIN c :
                BreaksAt(c, n) /\ (n > 1 \/ IsScanning(c[n]))
    /\ pc' = "cancel"
    /\ UNCHANGED <<state, wasForced, requestedBy, scanVars, inputVars>>

-----------------------------------------------------------------------------
(* Workers: taskIsComplete().                                              *)

\* The value a task reports: a task may be killed once the build is cancelled.
TaskValues(k) ==
    {Compute(prog, k, given[k], env)}
        \cup (IF buildCancelled THEN {CancelledValue} ELSE {})

ReportedResult(k, v, forceChange) ==
    IF ~forceChange /\ v = result[k].value
    THEN [result[k] EXCEPT !.signature = Signature(prog, k)]
    ELSE [result[k] EXCEPT !.signature = Signature(prog, k),
                           !.value = v, !.computedAt = currentEpoch]

TaskIsComplete(k) ==
    /\ k \in executing /\ state[k] = "InProgressComputing"
    /\ \E v \in TaskValues(k), forceChange \in ForceChange :
          result' = [result EXCEPT ![k] = ReportedResult(k, v, forceChange)]
    /\ executing' = executing \ {k}
    /\ finishedTaskInfos' = Append(finishedTaskInfos, k)
    /\ notifying' = notifying \cup {k}
    /\ UNCHANGED <<pc, didWork, success, buildCancelled, spent, outerVars>>
    /\ UNCHANGED <<state, wasForced, taskVars, scanVars, inputVars>>
    /\ UNCHANGED <<readyTaskInfos, numOutstandingUnfinishedTasks>>

\* notify_one(), after the mutex is released.
NotifyEngine(k) ==
    /\ k \in notifying
    /\ notifying' = notifying \ {k}
    /\ pc' = Awake(pc)
    /\ UNCHANGED <<didWork, success, buildCancelled, spent, outerVars>>
    /\ UNCHANGED <<finishedTaskInfos, executing, ruleVars, taskVars, scanVars>>
    /\ UNCHANGED <<inputVars, readyTaskInfos, numOutstandingUnfinishedTasks>>

-----------------------------------------------------------------------------
(* Client API: build(), resetForBuild(), cancelBuild(), attachDB().        *)

\* build() starts a transaction and, unless the build is already cancelled,
\* a new epoch.  A call during a build ("build engine busy") changes nothing.
Build(k) ==
    /\ pc = "idle" /\ spent.builds < MaxBuilds
    /\ ~buildCancelled
    /\ spent' = [spent EXCEPT !.builds = @ + 1]
    /\ currentEpoch' = currentEpoch + 1
    /\ buildKey' = k
    /\ txn' = db
    /\ finishedInputRequests' = <<>>
    /\ inputRequests' = Append(inputRequests,
            [task |-> NoKey, input |-> k, orderOnly |-> FALSE,
             singleUse |-> FALSE, forcePriorValue |-> FALSE])
    /\ pc' = "top" /\ success' = FALSE /\ returned' = "none"
    /\ UNCHANGED <<prog, env, db, buildCancelled, didWork, ruleVars, taskVars>>
    /\ UNCHANGED <<scanVars, readyTaskInfos, workerVars>>
    /\ UNCHANGED numOutstandingUnfinishedTasks

\* buildStarted() fails, or the build is cancelled before it starts.
BuildRefused(k) ==
    /\ pc = "idle" /\ spent.builds < MaxBuilds
    /\ buildCancelled \/ spent.faults < MaxFaults
    /\ spent' = [spent EXCEPT !.builds = @ + 1,
                              !.faults = IF buildCancelled THEN @ ELSE @ + 1]
    /\ buildKey' = k /\ returned' = "empty"
    /\ UNCHANGED <<prog, env, db, txn, currentEpoch, pc, didWork, success>>
    /\ UNCHANGED <<ruleVars, taskVars, scanVars, inputVars, readyTaskInfos>>
    /\ UNCHANGED <<workerVars, numOutstandingUnfinishedTasks, buildCancelled>>

\* The end of build(): the epoch is stored whether or not the build succeeded,
\* the execution queue is destroyed, which waits for its jobs, and
\* buildComplete() commits.
FinishBuild(stored, value) ==
    /\ pc = "end" /\ notifying = {}
    /\ db' = stored /\ txn' = stored
    /\ returned' = value
    /\ pc' = "idle"
    /\ UNCHANGED <<prog, env, currentEpoch, buildKey, didWork, success>>
    /\ UNCHANGED <<ruleVars, taskVars, scanVars, inputVars, readyTaskInfos>>
    /\ UNCHANGED <<workerVars, numOutstandingUnfinishedTasks, buildCancelled>>

\* Mutant of StoredIteration: the epoch is not stored.
StoredWithoutIteration == txn

StoredIteration == [txn EXCEPT !.epoch = currentEpoch]

BuildReturns ==
    /\ FinishBuild(StoredIteration, IF success THEN "value" ELSE "empty")
    /\ UNCHANGED spent

SetCurrentIterationFails ==
    /\ spent.faults < MaxFaults
    /\ FinishBuild(txn, "empty")
    /\ spent' = [spent EXCEPT !.faults = @ + 1]

\* cancelBuild(), from any thread; also what the engine does to itself on a
\* duplicate rule, a failed lookup or a misused task interface.
CancelBuild ==
    /\ spent.cancels < MaxCancels
    /\ spent' = [spent EXCEPT !.cancels = @ + 1]
    /\ buildCancelled' = TRUE
    /\ UNCHANGED <<outerVars, pc, didWork, success, ruleVars, taskVars, scanVars>>
    /\ UNCHANGED <<inputVars, readyTaskInfos, workerVars>>
    /\ UNCHANGED numOutstandingUnfinishedTasks

\* resetForBuild(): the client means to build again on this engine.
ResetForBuild ==
    /\ pc = "idle" /\ buildCancelled
    /\ spent.resets < MaxResets
    /\ spent' = [spent EXCEPT !.resets = @ + 1]
    /\ buildCancelled' = FALSE
    /\ UNCHANGED <<outerVars, pc, didWork, success, ruleVars, taskVars, scanVars>>
    /\ UNCHANGED <<inputVars, readyTaskInfos, workerVars>>
    /\ UNCHANGED numOutstandingUnfinishedTasks

\* The file system changes between two builds.
EditFiles ==
    /\ pc = "idle" /\ spent.edits < MaxEdits
    /\ spent' = [spent EXCEPT !.edits = @ + 1]
    /\ env' \in Environments \ {env}
    /\ returned' = "none"
    /\ UNCHANGED <<prog, db, txn, currentEpoch, buildKey, pc, didWork, success>>
    /\ UNCHANGED <<ruleVars, taskVars, scanVars, inputVars, readyTaskInfos>>
    /\ UNCHANGED <<workerVars, numOutstandingUnfinishedTasks, buildCancelled>>

\* The process ends or crashes, possibly during a build, and a new one loads a
\* build description and attaches the database.  The open transaction is lost.
\* addRule() looks a result up when the rule is first used; nothing can have
\* stored another one for it by then, so all are loaded here.
Restart ==
    /\ spent.restarts < MaxRestarts
    /\ spent' = [spent EXCEPT !.restarts = @ + 1]
    /\ prog' \in Programs
    /\ txn' = db /\ currentEpoch' = db.epoch /\ result' = db.results
    /\ state' = [k \in Keys |-> "Incomplete"]
    /\ wasForced' = [k \in Keys |-> FALSE]
    /\ taskInfos' = {} /\ executing' = {} /\ notifying' = {}
    /\ waitCount' = [k \in Keys |-> 0]
    /\ given' = [k \in Keys |-> [i \in Keys |-> EmptyValue]]
    /\ requestedBy' = [k \in Keys |-> <<>>]
    /\ pausedInputRequests' = [k \in Keys |-> <<>>]
    /\ deferredScanRequests' = [k \in Keys |-> <<>>]
    /\ ruleInfosToScan' = <<>> /\ inputRequests' = <<>>
    /\ finishedInputRequests' = <<>> /\ readyTaskInfos' = <<>>
    /\ finishedTaskInfos' = <<>> /\ numOutstandingUnfinishedTasks' = 0
    /\ pc' = "idle" /\ didWork' = FALSE /\ success' = FALSE
    /\ buildCancelled' = FALSE /\ returned' = "none"
    /\ UNCHANGED <<env, db, buildKey>>

\* Nobody has to build again, and nothing follows undefined behaviour.
Idle == pc \in {"idle", "undefined"} /\ UNCHANGED vars

-----------------------------------------------------------------------------

Init ==
    /\ prog \in Programs /\ env \in Environments
    /\ db = [results |-> [k \in Keys |-> NoResult], epoch |-> 0] /\ txn = db
    /\ state = [k \in Keys |-> "Incomplete"]
    /\ result = [k \in Keys |-> NoResult]
    /\ wasForced = [k \in Keys |-> FALSE]
    /\ taskInfos = {} /\ executing = {} /\ notifying = {}
    /\ waitCount = [k \in Keys |-> 0]
    /\ given = [k \in Keys |-> [i \in Keys |-> EmptyValue]]
    /\ requestedBy = [k \in Keys |-> <<>>]
    /\ pausedInputRequests = [k \in Keys |-> <<>>]
    /\ deferredScanRequests = [k \in Keys |-> <<>>]
    /\ ruleInfosToScan = <<>> /\ inputRequests = <<>>
    /\ finishedInputRequests = <<>> /\ readyTaskInfos = <<>>
    /\ finishedTaskInfos = <<>> /\ numOutstandingUnfinishedTasks = 0
    /\ pc = "idle" /\ didWork = FALSE /\ success = FALSE
    /\ currentEpoch = 0 /\ buildKey \in Roots
    /\ buildCancelled = FALSE /\ returned = "none"
    /\ spent = [builds |-> 0, edits |-> 0, restarts |-> 0, cancels |-> 0,
                resets |-> 0, faults |-> 0]

\* The steps of the engine thread.
Engine ==
    \/ LoopTop \/ NextQueue \/ LoopBottom \/ WaitForTask
    \/ ProcessRuleScanRequest \/ PauseInputRequest \/ ProcessInputRequest
    \/ ProcessFinishedInputRequest \/ ProcessReadyTask \/ ProcessFinishedTask
    \/ BreakCycle \/ CycleDetected \/ ReadPastCycle
    \/ DrainFinishedTasks \/ CancelTasks \/ BuildReturns

Worker(k) == TaskIsComplete(k) \/ NotifyEngine(k)

Client ==
    \/ \E k \in Roots : Build(k) \/ BuildRefused(k)
    \/ CancelBuild \/ ResetForBuild \/ EditFiles \/ Restart \/ Idle

Fault == SetRuleResultFails \/ SetCurrentIterationFails \/ SpuriousWakeup

Next == Engine \/ (\E k \in Keys : Worker(k)) \/ Client \/ Fault

Spec == Init /\ [][Next]_vars

\* The engine thread runs, and every task that is handed to a worker completes
\* in the end (its job is run by a lane, or its process exits or is killed).
Fairness == WF_vars(Engine) /\ \A k \in Keys : WF_vars(Worker(k))

FairSpec == Spec /\ Fairness

-----------------------------------------------------------------------------
(* Properties.                                                             *)

RequestsOf(t, s) == Cardinality({n \in DOMAIN s : s[n].task = t})

RequestsHeld(t, holder) ==
    Cardinality({h \in UNION {{i} \X DOMAIN holder[i] : i \in Keys} :
                    holder[h[1]][h[2]].task = t})

\* A task's wait count is the number of its requests that are queued, paused
\* on a scan, left with the task of their input, or finished but not yet
\* provided: none is lost or counted twice as it moves between the queues.
\* The task is queued as ready exactly when none is left.
RequestsAccounted ==
    \A t \in taskInfos :
        state[t] = "InProgressWaiting" =>
            /\ waitCount[t] =
                 RequestsOf(t, inputRequests) + RequestsOf(t, finishedInputRequests)
                 + RequestsHeld(t, requestedBy) + RequestsHeld(t, pausedInputRequests)
            /\ (waitCount[t] = 0) <=> (t \in InRange(readyTaskInfos))

\* A task computes only when everything it asked for is available: each of
\* its recorded dependencies, order-only ones included, is complete in this
\* build.  (Supplying a prior value to break a cycle is the one exception.)
ComputesAfterInputs ==
    \A k \in Keys :
        state[k] = "InProgressComputing" =>
            \A d \in InRange(result[k].dependencies) :
                IsComplete(d.key) \/ CycleAnswers # {FALSE}

\* Incremental builds are correct: when build() returns a value, every rule
\* that is complete has the value a task would compute for it now, from the
\* values of its inputs and the files it reads, and what it depends on is
\* complete too.  This is for clients without cyclic dependencies.
UpToDate ==
    (pc = "idle" /\ returned = "value") =>
        /\ IsComplete(buildKey)
        /\ \A k \in Keys : IsComplete(k) =>
              /\ result[k].value =
                   Compute(prog, k, [i \in Keys |-> result[i].value], env)
              /\ \A d \in InRange(result[k].dependencies) :
                    IsScannedDependency(d) => IsComplete(d.key)

\* However a build ends, no task, queued request, worker or rule in progress
\* is left over.  Only rules whose recorded dependencies form a cycle can be
\* left in the middle of their scan; otherwise, on success, the rule asked for
\* is complete, as build() asserts.
QuiescentAfterBuild ==
    (pc = "idle") =>
        /\ taskInfos = {} /\ executing = {} /\ finishedTaskInfos = <<>>
        /\ numOutstandingUnfinishedTasks = 0
        /\ ruleInfosToScan = <<>> /\ inputRequests = <<>>
        /\ readyTaskInfos = <<>> /\ finishedInputRequests = <<>>
        /\ \A k \in Keys : ~IsInProgress(k)
        /\ \A k \in Keys : IsScanning(k) =>
              \E d \in InRange(result[k].dependencies) : IsScanning(d.key)
        /\ returned = "value" => IsComplete(buildKey) \/ IsScanning(buildKey)

\* build()'s closing assertion: on success no task is left and the rule asked
\* for is complete.
BuiltRuleComplete ==
    (pc = "idle" /\ returned = "value") => taskInfos = {} /\ IsComplete(buildKey)

\* The engine never sleeps through a completion: while it waits, a worker is
\* still computing, or one that has queued its task is yet to notify it.
NoLostWakeup ==
    pc \in {"waiting", "drainWaiting"} =>
        /\ finishedTaskInfos # <<>> => notifying # {}
        /\ executing # {} \/ notifying # {}

\* numOutstandingUnfinishedTasks counts the tasks that workers are computing
\* or have queued as finished, so that a cancellation can drain them all.
OutstandingAccounted ==
    numOutstandingUnfinishedTasks =
        Cardinality(executing) + Len(finishedTaskInfos)

\* A rule that was found to need running, or not to, is demanded in the same
\* iteration of the loop, so a cancellation never leaves a verdict behind for
\* the next build; only a rule forced by a broken cycle may keep one.
VerdictsConsumed ==
    pc \in {"top", "cancel", "idle"} =>
        \A k \in Keys :
            state[k] \in {"NeedsToRun", "DoesNotNeedToRun"} => wasForced[k]

\* A cycle is looked for only when nothing can move: every queue is drained,
\* no worker is computing or has a completion that was not noticed, and every
\* task waits for an input.
NoFalseCycle ==
    pc = "cycle" =>
        /\ ruleInfosToScan = <<>> /\ inputRequests = <<>>
        /\ finishedInputRequests = <<>> /\ readyTaskInfos = <<>>
        /\ executing = {} /\ finishedTaskInfos = <<>>
        /\ \A k \in taskInfos :
              state[k] = "InProgressWaiting" /\ waitCount[k] > 0

\* processRuleScanRequest() asserts that a rule it is asked to scan is being
\* scanned, or was forced to run after the request was made.
ScansJustified ==
    LET requests == InRange(ruleInfosToScan)
                        \cup UNION {InRange(deferredScanRequests[k]) : k \in Keys}
    IN  \A r \in requests : IsScanning(r.ruleInfo) \/ wasForced[r.ruleInfo]

\* resolveCycle() asserts that findCycle() found a cycle.
CycleFound == pc = "cycle" => CycleLists # {}

\* cancelRemainingTasks() asserts that every registered task is the pending
\* task of its rule, and so that the rule is in progress.
CancelledTasksPending ==
    (pc = "cancel" /\ numOutstandingUnfinishedTasks = 0) =>
        \A k \in taskInfos : IsInProgress(k)

\* The value of a task that was killed by a cancellation is never provided to
\* another task.
NoCancelledInput == \A t, i \in Keys : given[t][i] # CancelledValue

\* Epochs, in memory and in the database: no result is from the future, and
\* the stored iteration is never older than a stored result, so that the next
\* process continues with a fresh epoch, wherever the last one crashed.  It
\* takes a failing setCurrentIteration(), whose build commits its results all
\* the same, to upset this.
EpochsOrdered ==
    spent.faults = 0 =>
        \A k \in Keys :
            /\ result[k].builtAt <= currentEpoch
            /\ result[k].computedAt <= currentEpoch
            /\ db.results[k].builtAt <= db.epoch
            /\ db.results[k].computedAt <= db.results[k].builtAt

\* Every build ends, whatever is cancelled or fails meanwhile.
BuildTerminates == (pc = "top") ~> (pc \in {"idle", "undefined"})

=============================================================================
