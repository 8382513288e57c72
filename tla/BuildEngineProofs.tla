-------------------------- MODULE BuildEngineProofs --------------------------
(* Types and epochs of the build engine, for every client, key set and      *)
(* bound.                                                                   *)
EXTENDS BuildEngine, SequenceTheorems, FiniteSetTheorems, TLAPS

-----------------------------------------------------------------------------
(* What the operators of the model return.                                 *)

\* A sequence without its last element, and that element: the LIFO queues.
LEMMA LastOfSeq ==
    ASSUME NEW S, NEW s \in Seq(S), s # <<>>
    PROVE  /\ s[Len(s)] \in S
           /\ SubSeq(s, 1, Len(s) - 1) \in Seq(S)
           /\ Len(SubSeq(s, 1, Len(s) - 1)) = Len(s) - 1
<1>1. Len(s) \in Nat \ {0}
    BY EmptySeq, Zenon
<1>2. PICK n \in Nat : n = Len(s) - 1
    BY <1>1
<1>3. SubSeq(s, 1, n) \in Seq(S) /\ Len(SubSeq(s, 1, n)) = n
    BY <1>1, <1>2
<1>4. s[Len(s)] \in S
    BY <1>1
<1>. QED
    BY <1>2, <1>3, <1>4, Zenon

\* Erasing an element keeps the type of a sequence (breakCycle()).
LEMMA EraseType ==
    ASSUME NEW S, NEW s \in Seq(S), NEW n \in DOMAIN s
    PROVE  Erase(s, n) \in Seq(S)
BY DEF Erase

\* The requests made for a list of dependencies (addTaskInputRequest()).
LEMMA InputRequestsForType ==
    ASSUME NEW t \in Keys \cup {NoKey}, NEW deps \in Seq(Dependency)
    PROVE  InputRequestsFor(t, deps) \in Seq(TaskInputRequest)
<1>1. Len(deps) \in Nat
    BY LenProperties, Zenon
<1>2. \A n \in 1..Len(deps) : deps[n] \in Dependency
    BY ElementOfSeq, Zenon
<1>3. \A n \in 1..Len(deps) :
        [task |-> t, input |-> deps[n].key, orderOnly |-> deps[n].orderOnly,
         singleUse |-> deps[n].singleUse, forcePriorValue |-> FALSE]
            \in TaskInputRequest
    BY <1>2, Zenon DEF Dependency, TaskInputRequest
<1>4. InputRequestsFor(t, deps) \in [1..Len(deps) -> TaskInputRequest]
    BY <1>3, Zenon DEF InputRequestsFor
<1>. QED
    BY <1>1, <1>4, SeqDef, Zenon

\* The dependencies a task discovers, as they are recorded.
LEMMA DiscoveredDependenciesType ==
    ASSUME TypeOK, NEW k \in Keys
    PROVE  DiscoveredDependencies(k) \in Seq(Dependency)
<1>1. Discover(prog, k) \in Seq(Keys)
    BY ClientAssumption, Zenon DEF TypeOK
<1>2. Len(Discover(prog, k)) \in Nat
    BY <1>1, LenProperties, Zenon
<1>3. \A n \in 1..Len(Discover(prog, k)) : Discover(prog, k)[n] \in Keys
    BY <1>1, ElementOfSeq, Zenon
<1>4. DiscoveredDependencies(k) \in [1..Len(Discover(prog, k)) -> Dependency]
    BY <1>3, Zenon DEF DiscoveredDependencies, Dependency
<1>. QED
    BY <1>2, <1>4, SeqDef, Zenon

\* scanRule() leaves a rule in one of its states.
LEMMA ScanRuleType ==
    ASSUME TypeOK, NEW k \in Keys
    PROVE  ScanRule(k) \in StateKind
<1>1. state[k] \in StateKind
    BY Zenon DEF TypeOK
<1>2. CASE IsScanned(k) \/ IsScanning(k)
    BY <1>1, <1>2, Zenon DEF ScanRule
<1>3. CASE ~(IsScanned(k) \/ IsScanning(k))
    <2>1. ScanRule(k) \in {"NeedsToRun", "IsScanning", "DoesNotNeedToRun"}
        BY <1>3, Zenon DEF ScanRule
    <2>. QED
        BY <2>1, Zenon DEF StateKind
<1>. QED
    BY <1>2, <1>3, Zenon

\* What scanRule() enqueues are scan requests.
LEMMA ScanRuleRequestsType ==
    ASSUME NEW k \in Keys
    PROVE  ScanRuleRequests(k) \in Seq(RuleScanRequest)
<1>1. [ruleInfo |-> k, inputIndex |-> 1] \in RuleScanRequest
    BY DEF RuleScanRequest
<1>. QED
    BY <1>1 DEF ScanRuleRequests

\* demandRule() keeps the rules' states and results well typed.
LEMMA DemandType ==
    ASSUME TypeOK, NEW k \in Keys
    PROVE  /\ StateDemanded(k) \in [Keys -> StateKind]
           /\ ResultDemanded(k) \in [Keys -> Result]
<1>1. ScanRule(k) \in StateKind
    BY ScanRuleType, Zenon
<1>2. StateDemanded(k) \in [Keys -> StateKind]
    BY <1>1, Zenon DEF StateDemanded, TypeOK, StateKind
<1>3. result \in [Keys -> Result] /\ currentEpoch \in Nat /\ result[k] \in Result
    BY Zenon DEF TypeOK
<1>4. [result[k] EXCEPT !.builtAt = currentEpoch] \in Result
    BY <1>3, Zenon DEF Result
<1>5. [result[k] EXCEPT !.dependencies = <<>>] \in Result
    BY <1>3, EmptySeq, Zenon DEF Result
<1>6. ResultDemanded(k) \in [Keys -> Result]
    BY <1>3, <1>4, <1>5, Zenon DEF ResultDemanded
<1>. QED
    BY <1>2, <1>6, Zenon

\* scanRule() and demandRule() with the queue they add input requests to.
LEMMA ScanAndDemandType ==
    ASSUME TypeOK, NEW k \in Keys, NEW queue \in Seq(TaskInputRequest),
           ScanAndDemand(k, queue)
    PROVE  /\ wasForced' \in [Keys -> BOOLEAN]
           /\ taskInfos' \subseteq Keys
           /\ waitCount' \in [Keys -> Int]
           /\ given' \in [Keys -> [Keys -> Values]]
           /\ inputRequests' \in Seq(TaskInputRequest)
           /\ readyTaskInfos' \in Seq(Keys)
<1>1. wasForced' \in [Keys -> BOOLEAN]
    <2>1. wasForced \in [Keys -> BOOLEAN]
        BY Zenon DEF TypeOK
    <2>2. wasForced' = [wasForced EXCEPT
                            ![k] = wasForced[k] /\ (IsScanned(k) \/ IsScanning(k))]
        BY Zenon DEF ScanAndDemand
    <2>. QED
        BY <2>1, <2>2, Zenon
<1>2. CASE ScanRule(k) = "NeedsToRun"
    <2>. DEFINE deps == Start(prog, k)
    <2>1. /\ taskInfos' = taskInfos \cup {k}
          /\ waitCount' = [waitCount EXCEPT ![k] = Len(deps)]
          /\ given' = [given EXCEPT ![k] = [i \in Keys |-> EmptyValue]]
          /\ inputRequests' = queue \o InputRequestsFor(k, deps)
          /\ readyTaskInfos' = IF Len(deps) = 0 THEN Append(readyTaskInfos, k)
                                                ELSE readyTaskInfos
        BY <1>2, Zenon DEF ScanAndDemand
    <2>2. deps \in Seq(Dependency)
        BY ClientAssumption, Zenon DEF TypeOK
    <2>3. Len(deps) \in Nat /\ InputRequestsFor(k, deps) \in Seq(TaskInputRequest)
        BY <2>2, LenProperties, InputRequestsForType, Zenon
    <2>. HIDE DEF deps
    <2>4. inputRequests' \in Seq(TaskInputRequest)
        BY <2>1, <2>3, ConcatProperties, Zenon
    <2>5. readyTaskInfos' \in Seq(Keys)
        BY <2>1, AppendProperties, Zenon DEF TypeOK
    <2>6. taskInfos' \subseteq Keys /\ waitCount' \in [Keys -> Int]
        <3>1. taskInfos \subseteq Keys /\ waitCount \in [Keys -> Int]
            BY Zenon DEF TypeOK
        <3>. QED
            BY <2>1, <2>3, <3>1
    <2>7. given' \in [Keys -> [Keys -> Values]]
        BY <2>1, ClientAssumption, Zenon DEF TypeOK
    <2>. QED
        BY <1>1, <2>4, <2>5, <2>6, <2>7, Zenon
<1>3. CASE ScanRule(k) # "NeedsToRun"
    BY <1>1, <1>3, Zenon DEF ScanAndDemand, TypeOK
<1>. QED
    BY <1>2, <1>3, Zenon

\* finishScanRequest() moves requests between well typed queues.
LEMMA FinishScanRequestType ==
    ASSUME TypeOK, NEW k \in Keys, NEW stack \in Seq(RuleScanRequest),
           FinishScanRequest(k, stack)
    PROVE  /\ ruleInfosToScan' \in Seq(RuleScanRequest)
           /\ deferredScanRequests' \in [Keys -> Seq(RuleScanRequest)]
           /\ inputRequests' \in Seq(TaskInputRequest)
           /\ pausedInputRequests' \in [Keys -> Seq(TaskInputRequest)]
<1>1. /\ deferredScanRequests \in [Keys -> Seq(RuleScanRequest)]
      /\ pausedInputRequests \in [Keys -> Seq(TaskInputRequest)]
      /\ inputRequests \in Seq(TaskInputRequest)
    BY Zenon DEF TypeOK
<1>2. /\ deferredScanRequests[k] \in Seq(RuleScanRequest)
      /\ pausedInputRequests[k] \in Seq(TaskInputRequest)
    BY <1>1, Zenon
<1>3. /\ stack \o deferredScanRequests[k] \in Seq(RuleScanRequest)
      /\ inputRequests \o pausedInputRequests[k] \in Seq(TaskInputRequest)
    BY <1>1, <1>2, ConcatProperties, Zenon
<1>4. /\ [deferredScanRequests EXCEPT ![k] = <<>>] \in [Keys -> Seq(RuleScanRequest)]
      /\ [pausedInputRequests EXCEPT ![k] = <<>>] \in [Keys -> Seq(TaskInputRequest)]
    BY <1>1, EmptySeq, Zenon
<1>. QED
    BY <1>3, <1>4, Zenon DEF FinishScanRequest

\* The scan request on top of the stack, and the ones below it.
LEMMA ScanStackType ==
    ASSUME TypeOK, ruleInfosToScan # <<>>
    PROVE  /\ request \in RuleScanRequest
           /\ otherRequests \in Seq(RuleScanRequest)
           /\ scanned \in Keys
           /\ Append(otherRequests, nextRequest) \in Seq(RuleScanRequest)
           /\ HasInput => dependency \in Dependency
<1>1. ruleInfosToScan \in Seq(RuleScanRequest)
    BY Zenon DEF TypeOK
<1>2. request \in RuleScanRequest /\ otherRequests \in Seq(RuleScanRequest)
    BY <1>1, LastOfSeq, Zenon DEF request, otherRequests
<1>3. scanned \in Keys
    BY <1>2, Zenon DEF scanned, RuleScanRequest
<1>4. nextRequest \in RuleScanRequest
    BY <1>2 DEF nextRequest, RuleScanRequest
<1>5. Append(otherRequests, nextRequest) \in Seq(RuleScanRequest)
    BY <1>2, <1>4, AppendProperties, Zenon
<1>6. ASSUME HasInput PROVE dependency \in Dependency
    <2>1. result[scanned] \in Result
        BY <1>3, Zenon DEF TypeOK
    <2>2. result[scanned].dependencies \in Seq(Dependency)
        BY <2>1, Zenon DEF Result
    <2>3. /\ request.inputIndex \in Nat \ {0}
          /\ request.inputIndex <= Len(result[scanned].dependencies)
        BY <1>2, <1>6, Zenon DEF RuleScanRequest, HasInput
    <2>4. request.inputIndex \in 1..Len(result[scanned].dependencies)
        BY <2>2, <2>3, LenProperties
    <2>. QED
        BY <2>2, <2>4, ElementOfSeq, Zenon DEF dependency
<1>. QED
    BY <1>2, <1>3, <1>5, <1>6, Zenon

-----------------------------------------------------------------------------
(* Type correctness: every step preserves TypeOK.                          *)

\* processRuleScanRequest()
LEMMA ScanPreservesType ==
    ASSUME TypeOK, ProcessRuleScanRequest
    PROVE  TypeOK'
<1>. USE DEF ScanStep, outerVars, workerVars, ruleVars, taskVars, inputVars
<1>0. ruleInfosToScan # <<>>
    BY Zenon DEF ProcessRuleScanRequest, ScanIgnored, ScanSingleUse, ScanDeferred,
           ScanNextInput, ScanInputRebuilt, ScanUpToDate
<1>1. /\ request \in RuleScanRequest
      /\ otherRequests \in Seq(RuleScanRequest)
      /\ scanned \in Keys
      /\ Append(otherRequests, nextRequest) \in Seq(RuleScanRequest)
      /\ HasInput => dependency \in Dependency
    BY <1>0, ScanStackType, Zenon
<1>2. HasInput => dependency.key \in Keys
    BY <1>1, Zenon DEF Dependency
<1>3. CASE ScanIgnored
    BY <1>1, <1>3, Zenon DEF ScanIgnored, TypeOK
<1>4. CASE ScanSingleUse
    BY <1>1, <1>4, Zenon DEF ScanSingleUse, TypeOK
<1>5. CASE ScanDeferred
    <2>. DEFINE i == dependency.key
    <2>1. i \in Keys
        BY <1>2, <1>5, Zenon DEF ScanDeferred
    <2>2. /\ state' = StateDemanded(i) /\ result' = ResultDemanded(i)
          /\ ScanAndDemand(i, inputRequests)
          /\ ruleInfosToScan' = otherRequests \o ScanRuleRequests(i)
          /\ deferredScanRequests' = [deferredScanRequests EXCEPT
                    ![i] = Append(deferredScanRequests[i], request)]
        BY <1>5, Zenon DEF ScanDeferred
    <2>. HIDE DEF i
    <2>3. /\ state' \in [Keys -> StateKind] /\ result' \in [Keys -> Result]
        BY <2>1, <2>2, DemandType, Zenon
    <2>4. inputRequests \in Seq(TaskInputRequest)
        BY Zenon DEF TypeOK
    <2>5. /\ wasForced' \in [Keys -> BOOLEAN]
          /\ taskInfos' \subseteq Keys
          /\ waitCount' \in [Keys -> Int]
          /\ given' \in [Keys -> [Keys -> Values]]
          /\ inputRequests' \in Seq(TaskInputRequest)
          /\ readyTaskInfos' \in Seq(Keys)
        BY <2>1, <2>2, <2>4, ScanAndDemandType, Zenon
    <2>6. ruleInfosToScan' \in Seq(RuleScanRequest)
        BY <1>1, <2>1, <2>2, ScanRuleRequestsType, ConcatProperties, Zenon
    <2>7. deferredScanRequests' \in [Keys -> Seq(RuleScanRequest)]
        BY <1>1, <2>1, <2>2, AppendProperties, Zenon DEF TypeOK
    <2>. QED
        BY <1>5, <2>3, <2>5, <2>6, <2>7, Zenon DEF ScanDeferred, TypeOK
<1>6. CASE ScanNextInput
    <2>. DEFINE i == dependency.key
    <2>1. i \in Keys
        BY <1>2, <1>6, Zenon DEF ScanNextInput
    <2>2. /\ state' = StateDemanded(i) /\ result' = ResultDemanded(i)
          /\ ScanAndDemand(i, inputRequests)
          /\ ruleInfosToScan' = Append(otherRequests, nextRequest)
        BY <1>6, Zenon DEF ScanNextInput
    <2>. HIDE DEF i
    <2>3. /\ state' \in [Keys -> StateKind] /\ result' \in [Keys -> Result]
        BY <2>1, <2>2, DemandType, Zenon
    <2>4. inputRequests \in Seq(TaskInputRequest)
        BY Zenon DEF TypeOK
    <2>5. /\ wasForced' \in [Keys -> BOOLEAN]
          /\ taskInfos' \subseteq Keys
          /\ waitCount' \in [Keys -> Int]
          /\ given' \in [Keys -> [Keys -> Values]]
          /\ inputRequests' \in Seq(TaskInputRequest)
          /\ readyTaskInfos' \in Seq(Keys)
        BY <2>1, <2>2, <2>4, ScanAndDemandType, Zenon
    <2>. QED
        BY <1>1, <1>6, <2>2, <2>3, <2>5, Zenon DEF ScanNextInput, TypeOK
<1>7. CASE ScanInputRebuilt
    <2>. DEFINE i == dependency.key
    <2>1. i \in Keys
        BY <1>2, <1>7, Zenon DEF ScanInputRebuilt
    <2>2. /\ state' = [StateDemanded(i) EXCEPT ![scanned] = "NeedsToRun"]
          /\ result' = ResultDemanded(i)
          /\ wasForced' = [wasForced EXCEPT ![i] = wasForced[i] /\ IsScanned(i)]
          /\ FinishScanRequest(scanned, otherRequests)
        BY <1>7, Zenon DEF ScanInputRebuilt
    <2>. HIDE DEF i
    <2>3. /\ state' \in [Keys -> StateKind] /\ result' \in [Keys -> Result]
        BY <1>1, <2>1, <2>2, DemandType, Zenon DEF StateKind
    <2>4. wasForced' \in [Keys -> BOOLEAN]
        BY <2>1, <2>2, Zenon DEF TypeOK
    <2>5. /\ ruleInfosToScan' \in Seq(RuleScanRequest)
          /\ deferredScanRequests' \in [Keys -> Seq(RuleScanRequest)]
          /\ inputRequests' \in Seq(TaskInputRequest)
          /\ pausedInputRequests' \in [Keys -> Seq(TaskInputRequest)]
        BY <1>1, <2>2, FinishScanRequestType, Zenon
    <2>. QED
        BY <1>7, <2>3, <2>4, <2>5, Zenon DEF ScanInputRebuilt, TypeOK
<1>8. CASE ScanUpToDate
    <2>1. /\ state' = [state EXCEPT ![scanned] = "DoesNotNeedToRun"]
          /\ FinishScanRequest(scanned, otherRequests)
        BY <1>8, Zenon DEF ScanUpToDate
    <2>2. state' \in [Keys -> StateKind]
        BY <1>1, <2>1, Zenon DEF TypeOK, StateKind
    <2>3. /\ ruleInfosToScan' \in Seq(RuleScanRequest)
          /\ deferredScanRequests' \in [Keys -> Seq(RuleScanRequest)]
          /\ inputRequests' \in Seq(TaskInputRequest)
          /\ pausedInputRequests' \in [Keys -> Seq(TaskInputRequest)]
        BY <1>1, <2>1, FinishScanRequestType, Zenon
    <2>. QED
        BY <1>8, <2>2, <2>3, Zenon DEF ScanUpToDate, TypeOK
<1>. QED
    BY <1>3, <1>4, <1>5, <1>6, <1>7, <1>8, Zenon DEF ProcessRuleScanRequest

\* The input request taken from the front of the queue, and the others.
LEMMA InputQueueType ==
    ASSUME TypeOK, inputRequests # <<>>
    PROVE  /\ inputRequest \in TaskInputRequest
           /\ inputRequest.input \in Keys
           /\ inputRequest.task \in Keys \cup {NoKey}
           /\ Tail(inputRequests) \in Seq(TaskInputRequest)
           /\ RecordedDependency(inputRequest) \in Dependency
<1>1. inputRequests \in Seq(TaskInputRequest)
    BY Zenon DEF TypeOK
<1>2. /\ inputRequest \in TaskInputRequest
      /\ Tail(inputRequests) \in Seq(TaskInputRequest)
    BY <1>1, HeadTailProperties, Zenon DEF inputRequest
<1>3. inputRequest.input \in Keys /\ inputRequest.task \in Keys \cup {NoKey}
    BY <1>2, Zenon DEF TaskInputRequest
<1>4. RecordedDependency(inputRequest) \in Dependency
    BY <1>2, Zenon DEF RecordedDependency, TaskInputRequest, Dependency
<1>. QED
    BY <1>2, <1>3, <1>4, Zenon

\* The loop over the input requests.
LEMMA InputsPreserveType ==
    ASSUME TypeOK, PauseInputRequest \/ ProcessInputRequest
    PROVE  TypeOK'
<1>. USE DEF InputStep, outerVars, workerVars
<1>. DEFINE r == inputRequest
            i == inputRequest.input
            t == inputRequest.task
<1>0. inputRequests # <<>>
    BY Zenon DEF PauseInputRequest, ProcessInputRequest
<1>1. /\ r \in TaskInputRequest /\ i \in Keys /\ t \in Keys \cup {NoKey}
      /\ Tail(inputRequests) \in Seq(TaskInputRequest)
      /\ RecordedDependency(r) \in Dependency
    BY <1>0, InputQueueType, Zenon
<1>2. state' = StateDemanded(i) /\ ScanAndDemand(i, Tail(inputRequests))
    BY Zenon DEF PauseInputRequest, ProcessInputRequest
<1>3. /\ wasForced' \in [Keys -> BOOLEAN]
      /\ taskInfos' \subseteq Keys
      /\ waitCount' \in [Keys -> Int]
      /\ given' \in [Keys -> [Keys -> Values]]
      /\ inputRequests' \in Seq(TaskInputRequest)
      /\ readyTaskInfos' \in Seq(Keys)
    BY <1>1, <1>2, ScanAndDemandType, Zenon
<1>4. /\ state' \in [Keys -> StateKind]
      /\ ResultDemanded(i) \in [Keys -> Result]
    BY <1>1, <1>2, DemandType, Zenon
<1>5. CASE PauseInputRequest
    <2>1. /\ ruleInfosToScan' = ruleInfosToScan \o ScanRuleRequests(i)
          /\ pausedInputRequests' = [pausedInputRequests EXCEPT
                    ![i] = Append(pausedInputRequests[i], r)]
        BY <1>5, Zenon DEF PauseInputRequest
    <2>2. ruleInfosToScan' \in Seq(RuleScanRequest)
        BY <1>1, <2>1, ScanRuleRequestsType, ConcatProperties, Zenon DEF TypeOK
    <2>3. pausedInputRequests' \in [Keys -> Seq(TaskInputRequest)]
        <3>. HIDE DEF i, r
        <3>. QED
            BY <1>1, <2>1, AppendProperties, Zenon DEF TypeOK
    <2>. QED
        BY <1>3, <1>4, <1>5, <2>2, <2>3, Zenon DEF PauseInputRequest, TypeOK
<1>6. CASE ProcessInputRequest
    <2>1. result' = IF t = NoKey THEN ResultDemanded(i)
                    ELSE [ResultDemanded(i) EXCEPT ![t].dependencies =
                            Append(ResultDemanded(i)[t].dependencies,
                                   RecordedDependency(r))]
        BY <1>6, Zenon DEF ProcessInputRequest
    <2>2. /\ finishedInputRequests' =
                IF t # NoKey /\ IsAvailable(i)
                THEN Append(finishedInputRequests, r) ELSE finishedInputRequests
          /\ requestedBy' =
                IF t # NoKey /\ ~IsAvailable(i)
                THEN [requestedBy EXCEPT ![i] = Append(requestedBy[i], r)]
                ELSE requestedBy
        BY <1>6, Zenon DEF ProcessInputRequest
    <2>3. result' \in [Keys -> Result]
        <3>1. CASE t = NoKey
            BY <1>4, <2>1, <3>1, Zenon
        <3>2. CASE t # NoKey
            <4>1. t \in Keys /\ ResultDemanded(i)[t] \in Result
                BY <1>1, <1>4, <3>2, Zenon
            <4>2. ResultDemanded(i)[t].dependencies \in Seq(Dependency)
                BY <4>1, Zenon DEF Result
            <4>. DEFINE deps == Append(ResultDemanded(i)[t].dependencies,
                                       RecordedDependency(r))
            <4>3. deps \in Seq(Dependency)
                BY <1>1, <4>2, AppendProperties, Zenon
            <4>. HIDE DEF deps
            <4>4. [ResultDemanded(i)[t] EXCEPT !.dependencies = deps] \in Result
                BY <4>1, <4>3, Zenon DEF Result
            <4>5. result' = [ResultDemanded(i) EXCEPT ![t].dependencies = deps]
                BY <2>1, <3>2, Zenon DEF deps
            <4>. QED
                BY <1>4, <4>1, <4>4, <4>5, Zenon
        <3>. QED
            BY <3>1, <3>2, Zenon
    <2>4. t # NoKey => r \in TaskRequest
        BY <1>1, Zenon DEF TaskRequest
    <2>5. finishedInputRequests' \in Seq(TaskRequest)
        <3>. HIDE DEF i, r, t
        <3>. QED
            BY <2>2, <2>4, AppendProperties, Zenon DEF TypeOK
    <2>6. requestedBy' \in [Keys -> Seq(TaskRequest)]
        <3>. HIDE DEF i, r, t
        <3>. QED
            BY <1>1, <2>2, <2>4, AppendProperties DEF TypeOK
    <2>. QED
        BY <1>3, <1>4, <1>6, <2>3, <2>5, <2>6, Zenon DEF ProcessInputRequest, TypeOK
<1>. QED
    BY <1>5, <1>6, Zenon

\* The loop over the finished inputs.
LEMMA FinishedInputPreservesType ==
    ASSUME TypeOK, ProcessFinishedInputRequest
    PROVE  TypeOK'
<1>. DEFINE n == Len(finishedInputRequests)
            r == finishedInputRequests[n]
            t == r.task
            v == result[r.input].value
            more == IF r.orderOnly THEN <<>> ELSE React(prog, t, r.input, v)
            waits == waitCount[t] + Len(more) - 1
<1>1. /\ finishedInputRequests' = SubSeq(finishedInputRequests, 1, n - 1)
      /\ given' = IF r.orderOnly THEN given
                  ELSE [given EXCEPT ![t][r.input] = v]
      /\ inputRequests' = inputRequests \o InputRequestsFor(t, more)
      /\ waitCount' = [waitCount EXCEPT ![t] = waits]
      /\ readyTaskInfos' = IF waits = 0 THEN Append(readyTaskInfos, t)
                                        ELSE readyTaskInfos
    BY Zenon DEF ProcessFinishedInputRequest
<1>2. finishedInputRequests # <<>>
    BY Zenon DEF ProcessFinishedInputRequest
<1>3. /\ r \in TaskRequest
      /\ finishedInputRequests' \in Seq(TaskRequest)
    BY <1>1, <1>2, LastOfSeq, Zenon DEF TypeOK
<1>4. t \in Keys /\ r.input \in Keys
    BY <1>3, Zenon DEF TaskRequest, TaskInputRequest
<1>5. v \in Values
    BY <1>4, Zenon DEF TypeOK, Result
<1>6. more \in Seq(Dependency)
    <2>1. React(prog, t, r.input, v) \in Seq(Dependency)
        BY <1>4, <1>5, ClientAssumption, Zenon DEF TypeOK
    <2>. QED
        BY <2>1, EmptySeq, Zenon
<1>7. Len(more) \in Nat /\ InputRequestsFor(t, more) \in Seq(TaskInputRequest)
    BY <1>4, <1>6, LenProperties, InputRequestsForType, Zenon
<1>. HIDE DEF more
<1>8. inputRequests' \in Seq(TaskInputRequest)
    BY <1>1, <1>7, ConcatProperties, Zenon DEF TypeOK
<1>9. waits \in Int /\ waitCount' \in [Keys -> Int]
    <2>1. waitCount \in [Keys -> Int]
        BY Zenon DEF TypeOK
    <2>2. waits \in Int
        <3>. HIDE DEF t
        <3>. QED
            BY <1>4, <1>7, <2>1
    <2>. HIDE DEF waits, t
    <2>. QED
        BY <1>1, <1>4, <2>1, <2>2, Zenon
<1>. HIDE DEF waits
<1>10. readyTaskInfos' \in Seq(Keys)
    <2>1. readyTaskInfos \in Seq(Keys)
        BY Zenon DEF TypeOK
    <2>2. Append(readyTaskInfos, t) \in Seq(Keys)
        <3>. HIDE DEF t
        <3>. QED
            BY <1>4, <2>1, AppendProperties, Zenon
    <2>3. readyTaskInfos' = Append(readyTaskInfos, t) \/ readyTaskInfos' = readyTaskInfos
        <3>. HIDE DEF t
        <3>. QED
            BY <1>1, Zenon
    <2>. QED
        BY <2>1, <2>2, <2>3, Zenon
<1>11. given' \in [Keys -> [Keys -> Values]]
    <2>. HIDE DEF t, v, r
    <2>. QED
        BY <1>1, <1>4, <1>5, Zenon DEF TypeOK
<1>. QED
    BY <1>3, <1>8, <1>9, <1>10, <1>11, Zenon
    DEF ProcessFinishedInputRequest, TypeOK, outerVars, workerVars, ruleVars, scanVars

\* The loop over the ready tasks.
LEMMA ReadyTaskPreservesType ==
    ASSUME TypeOK, ProcessReadyTask
    PROVE  TypeOK'
<1>. DEFINE k == Head(readyTaskInfos)
<1>1. k \in Keys /\ Tail(readyTaskInfos) \in Seq(Keys)
    BY HeadTailProperties, Zenon DEF ProcessReadyTask, TypeOK
<1>2. /\ state' = [state EXCEPT ![k] = "InProgressComputing"]
      /\ executing' = executing \cup {k}
    BY Zenon DEF ProcessReadyTask
<1>3. state' \in [Keys -> StateKind] /\ executing' \subseteq Keys
    BY <1>1, <1>2, Zenon DEF TypeOK, StateKind
<1>4. numOutstandingUnfinishedTasks' \in Int
    BY DEF ProcessReadyTask, TypeOK
<1>5. readyTaskInfos' \in Seq(Keys)
    BY <1>1, Zenon DEF ProcessReadyTask
<1>. QED
    BY <1>3, <1>4, <1>5, Zenon
    DEF ProcessReadyTask, TypeOK, outerVars, taskVars, scanVars, inputVars

\* The loop over the finished tasks, whether or not the result can be stored.
LEMMA FinishStepType ==
    ASSUME TypeOK, NEW k \in Keys, FinishStep(k)
    PROVE  /\ finishedTaskInfos' \in Seq(Keys)
           /\ state' \in [Keys -> StateKind]
           /\ CompletedResult(k) \in Result
           /\ result' \in [Keys -> Result]
           /\ inputRequests' \in Seq(TaskInputRequest)
           /\ numOutstandingUnfinishedTasks' \in Int
<1>1. finishedTaskInfos' \in Seq(Keys)
    BY LastOfSeq, Zenon DEF FinishStep, TypeOK
<1>2. state' \in [Keys -> StateKind]
    BY Zenon DEF FinishStep, TypeOK, StateKind
<1>3. /\ result[k] \in Result /\ currentEpoch \in Nat
      /\ result[k].dependencies \in Seq(Dependency)
    BY Zenon DEF TypeOK, Result
<1>4. DiscoveredDependencies(k) \in Seq(Dependency)
    BY DiscoveredDependenciesType, Zenon
<1>. DEFINE deps == result[k].dependencies \o DiscoveredDependencies(k)
<1>5. deps \in Seq(Dependency)
    BY <1>3, <1>4, ConcatProperties, Zenon
<1>6. CompletedResult(k) =
        [result[k] EXCEPT !.builtAt = currentEpoch, !.dependencies = deps]
    BY Zenon DEF CompletedResult
<1>. HIDE DEF deps
<1>7. CompletedResult(k) \in Result
    BY <1>3, <1>5, <1>6, Zenon DEF Result
<1>8. result' \in [Keys -> Result]
    BY <1>7, Zenon DEF FinishStep, TypeOK
<1>9. InputRequestsFor(NoKey, DiscoveredDependencies(k)) \in Seq(TaskInputRequest)
    BY <1>4, InputRequestsForType, Zenon
<1>10. inputRequests' \in Seq(TaskInputRequest)
    BY <1>9, ConcatProperties, Zenon DEF FinishStep, TypeOK
<1>11. numOutstandingUnfinishedTasks' \in Int
    BY DEF FinishStep, TypeOK
<1>. QED
    BY <1>1, <1>2, <1>7, <1>8, <1>10, <1>11, Zenon

\* A finished task: its result is stored and what waited for it is woken up.
LEMMA FinishedTaskPreservesType ==
    ASSUME TypeOK, ProcessFinishedTask
    PROVE  TypeOK'
<1>1. PICK k \in taskInfos :
        /\ FinishStep(k)
        /\ didWork' = TRUE
        /\ txn' = [txn EXCEPT !.results[k] = CompletedResult(k)]
        /\ ruleInfosToScan' = ruleInfosToScan \o deferredScanRequests[k]
        /\ deferredScanRequests' = [deferredScanRequests EXCEPT ![k] = <<>>]
        /\ finishedInputRequests' = finishedInputRequests \o requestedBy[k]
        /\ requestedBy' = [requestedBy EXCEPT ![k] = <<>>]
        /\ taskInfos' = taskInfos \ {k}
        /\ UNCHANGED <<pc, success, spent>>
    BY Zenon DEF ProcessFinishedTask
<1>2. k \in Keys
    BY Zenon DEF TypeOK
<1>3. /\ finishedTaskInfos' \in Seq(Keys)
      /\ state' \in [Keys -> StateKind]
      /\ CompletedResult(k) \in Result
      /\ result' \in [Keys -> Result]
      /\ inputRequests' \in Seq(TaskInputRequest)
      /\ numOutstandingUnfinishedTasks' \in Int
    BY <1>1, <1>2, FinishStepType, Zenon
<1>4. txn' \in Store
    BY <1>1, <1>2, <1>3, Zenon DEF TypeOK, Store
<1>5. /\ deferredScanRequests[k] \in Seq(RuleScanRequest)
      /\ requestedBy[k] \in Seq(TaskRequest)
    BY <1>2, Zenon DEF TypeOK
<1>6. /\ ruleInfosToScan' \in Seq(RuleScanRequest)
      /\ finishedInputRequests' \in Seq(TaskRequest)
    BY <1>1, <1>5, ConcatProperties, Zenon DEF TypeOK
<1>7. /\ deferredScanRequests' \in [Keys -> Seq(RuleScanRequest)]
      /\ requestedBy' \in [Keys -> Seq(TaskRequest)]
    BY <1>1, <1>2, EmptySeq, Zenon DEF TypeOK
<1>. QED
    BY <1>1, <1>3, <1>4, <1>6, <1>7, Zenon DEF FinishStep, TypeOK

\* A finished task whose result cannot be stored.
LEMMA StoreFailurePreservesType ==
    ASSUME TypeOK, SetRuleResultFails
    PROVE  TypeOK'
<1>1. PICK k \in taskInfos : FinishStep(k)
    BY Zenon DEF SetRuleResultFails
<1>2. k \in Keys
    BY Zenon DEF TypeOK
<1>3. /\ finishedTaskInfos' \in Seq(Keys)
      /\ state' \in [Keys -> StateKind]
      /\ result' \in [Keys -> Result]
      /\ inputRequests' \in Seq(TaskInputRequest)
      /\ numOutstandingUnfinishedTasks' \in Int
    BY <1>1, <1>2, FinishStepType, Zenon
<1>4. spent' \in Spending
    <2>1. spent \in Spending /\ spent' = [spent EXCEPT !.faults = spent.faults + 1]
        BY Zenon DEF SetRuleResultFails, TypeOK
    <2>. QED
        BY <2>1 DEF Spending
<1>. QED
    BY <1>1, <1>3, <1>4, Zenon DEF SetRuleResultFails, FinishStep, TypeOK, Control, Phases

\* The steps between the queues, and the sleeping and waking of the engine.
LEMMA LoopPreservesType ==
    ASSUME TypeOK,
           LoopTop \/ NextQueue \/ LoopBottom \/ WaitForTask \/ SpuriousWakeup
    PROVE  TypeOK'
<1>. USE DEF Unchanged, outerVars, workerVars, ruleVars, taskVars, scanVars, inputVars
<1>1. pc' \in Control
    <2>1. CASE LoopTop
        BY <2>1, Zenon DEF LoopTop, Control, Phases
    <2>2. CASE NextQueue
        BY <2>2, Zenon DEF NextQueue, Control, Phases
    <2>3. CASE LoopBottom
        <3>1. pc' \in {"top", "wait", "cycle", "end"}
            BY <2>3, Zenon DEF LoopBottom, TypeOK
        <3>. QED
            BY <3>1, Zenon DEF Control
    <2>4. CASE WaitForTask
        BY <2>4, Zenon DEF WaitForTask, Control
    <2>5. CASE SpuriousWakeup
        BY <2>5, Zenon DEF SpuriousWakeup, Awake, Control
    <2>. QED
        BY <2>1, <2>2, <2>3, <2>4, <2>5, Zenon
<1>2. didWork' \in BOOLEAN /\ success' \in BOOLEAN
    BY Zenon DEF LoopTop, NextQueue, LoopBottom, WaitForTask, SpuriousWakeup, TypeOK
<1>3. /\ UNCHANGED <<ruleVars, taskVars, scanVars, inputVars, readyTaskInfos>>
      /\ UNCHANGED <<workerVars, numOutstandingUnfinishedTasks, outerVars>>
      /\ UNCHANGED <<buildCancelled, spent>>
    BY Zenon DEF LoopTop, NextQueue, LoopBottom, WaitForTask, SpuriousWakeup
<1>. QED
    BY <1>1, <1>2, <1>3, Zenon DEF TypeOK

\* cancelRemainingTasks()
LEMMA CancelPreservesType ==
    ASSUME TypeOK, DrainFinishedTasks \/ CancelTasks
    PROVE  TypeOK'
<1>. USE DEF outerVars, ruleVars, taskVars, scanVars, inputVars
<1>1. CASE DrainFinishedTasks
    <2>1. OutstandingAfterDrain \in Int
        BY LenProperties DEF OutstandingAfterDrain, TypeOK
    <2>2. finishedTaskInfos' \in Seq(Keys)
        BY <1>1, EmptySeq, Zenon DEF DrainFinishedTasks
    <2>3. pc' \in Control
        BY <1>1, Zenon DEF DrainFinishedTasks, Control
    <2>. QED
        BY <1>1, <2>1, <2>2, <2>3, Zenon DEF DrainFinishedTasks, TypeOK
<1>2. CASE CancelTasks
    <2>1. state' \in [Keys -> StateKind]
        <3>1. \A k \in Keys : CancelledState(k) \in StateKind
            BY Zenon DEF CancelledState, TypeOK, StateKind
        <3>. QED
            BY <1>2, <3>1, Zenon DEF CancelTasks
    <2>2. /\ requestedBy' \in [Keys -> Seq(TaskRequest)]
          /\ pausedInputRequests' \in [Keys -> Seq(TaskInputRequest)]
          /\ deferredScanRequests' \in [Keys -> Seq(RuleScanRequest)]
        BY <1>2, EmptySeq, Zenon DEF CancelTasks
    <2>3. /\ ruleInfosToScan' \in Seq(RuleScanRequest)
          /\ inputRequests' \in Seq(TaskInputRequest)
          /\ finishedInputRequests' \in Seq(TaskRequest)
          /\ readyTaskInfos' \in Seq(Keys) /\ finishedTaskInfos' \in Seq(Keys)
        BY <1>2, EmptySeq, Zenon DEF CancelTasks
    <2>4. pc' \in Control
        BY <1>2, Zenon DEF CancelTasks, Control
    <2>. QED
        BY <1>2, <2>1, <2>2, <2>3, <2>4, Zenon DEF CancelTasks, TypeOK
<1>. QED
    BY <1>1, <1>2, Zenon

\* resolveCycle() and breakCycle()
LEMMA CyclePreservesType ==
    ASSUME TypeOK, BreakCycle \/ ReadPastCycle \/ CycleDetected
    PROVE  TypeOK'
<1>. USE DEF CycleStep, outerVars, workerVars, scanVars, inputVars
<1>1. CASE BreakCycle
    <2>1. PICK c \in CycleLists : \E n \in DOMAIN c :
            \/ ForceBuild(c[n])
            \/ n > 1 /\ SupplyPriorValue(c[n - 1], c[n])
        BY <1>1, Zenon DEF BreakCycle
    <2>2. PICK n \in DOMAIN c :
            \/ ForceBuild(c[n])
            \/ n > 1 /\ SupplyPriorValue(c[n - 1], c[n])
        BY <2>1, Zenon
    <2>3. PICK m \in 2..(Cardinality(Keys) + 1) : c \in [1..m -> Keys]
        BY Zenon DEF CycleLists
    <2>4. c[n] \in Keys
        BY <2>3, Zenon
    <2>5. CASE ForceBuild(c[n])
        <3>1. state' \in [Keys -> StateKind] /\ wasForced' \in [Keys -> BOOLEAN]
            BY <2>4, <2>5, Zenon DEF ForceBuild, Forced, TypeOK, StateKind
        <3>2. ruleInfosToScan \in Seq(RuleScanRequest)
            BY Zenon DEF TypeOK
        <3>3. /\ ruleInfosToScan' \in Seq(RuleScanRequest)
              /\ deferredScanRequests' \in [Keys -> Seq(RuleScanRequest)]
              /\ inputRequests' \in Seq(TaskInputRequest)
              /\ pausedInputRequests' \in [Keys -> Seq(TaskInputRequest)]
            BY <2>4, <2>5, <3>2, FinishScanRequestType, Zenon DEF ForceBuild
        <3>. QED
            BY <2>5, <3>1, <3>3, Zenon DEF ForceBuild, TypeOK, Control
    <2>6. CASE SupplyPriorValue(c[n - 1], c[n])
        <3>. DEFINE i == c[n]
        <3>1. PICK j \in DOMAIN requestedBy[i] :
                /\ finishedInputRequests' = Append(finishedInputRequests,
                        [requestedBy[i][j] EXCEPT !.forcePriorValue = TRUE])
                /\ requestedBy' = [requestedBy EXCEPT ![i] = Erase(requestedBy[i], j)]
            BY <2>6, Zenon DEF SupplyPriorValue
        <3>. HIDE DEF i
        <3>2. i \in Keys
            BY <2>4, Zenon DEF i
        <3>3. requestedBy[i] \in Seq(TaskRequest)
            BY <3>2, Zenon DEF TypeOK
        <3>4. requestedBy[i][j] \in TaskRequest
            BY <3>3, LenProperties, ElementOfSeq, Zenon
        <3>5. [requestedBy[i][j] EXCEPT !.forcePriorValue = TRUE] \in TaskRequest
            BY <3>4, Zenon DEF TaskRequest, TaskInputRequest
        <3>6. finishedInputRequests' \in Seq(TaskRequest)
            BY <3>1, <3>5, AppendProperties, Zenon DEF TypeOK
        <3>7. Erase(requestedBy[i], j) \in Seq(TaskRequest)
            BY <3>3, EraseType, Zenon
        <3>8. requestedBy' \in [Keys -> Seq(TaskRequest)]
            BY <3>1, <3>2, <3>7, Zenon DEF TypeOK
        <3>. QED
            BY <2>6, <3>6, <3>8, Zenon DEF SupplyPriorValue, TypeOK, Control
    <2>. QED
        BY <2>2, <2>5, <2>6, Zenon
<1>2. CASE ReadPastCycle
    BY <1>2, Zenon DEF ReadPastCycle, TypeOK, Control
<1>3. CASE CycleDetected
    BY <1>3, Zenon DEF CycleDetected, TypeOK, Control
<1>. QED
    BY <1>1, <1>2, <1>3, Zenon

\* taskIsComplete()
LEMMA WorkerPreservesType ==
    ASSUME TypeOK, NEW k \in Keys, Worker(k)
    PROVE  TypeOK'
<1>. USE DEF outerVars, ruleVars, taskVars, scanVars, inputVars
<1>1. CASE TaskIsComplete(k)
    <2>1. PICK v \in TaskValues(k), forceChange \in ForceChange :
            result' = [result EXCEPT ![k] = ReportedResult(k, v, forceChange)]
        BY <1>1, Zenon DEF TaskIsComplete
    <2>2. v \in Values
        <3>1. prog \in Programs /\ given[k] \in [Keys -> Values] /\ env \in Environments
            BY Zenon DEF TypeOK
        <3>2. Compute(prog, k, given[k], env) \in Values
            BY <3>1, ClientAssumption, Zenon
        <3>. QED
            BY <3>2, ClientAssumption, Zenon DEF TaskValues
    <2>3. /\ result[k] \in Result /\ Signature(prog, k) \in Nat
          /\ currentEpoch \in Nat
        BY ClientAssumption, Zenon DEF TypeOK
    <2>4. ReportedResult(k, v, forceChange) \in Result
        BY <2>2, <2>3, Zenon DEF ReportedResult, Result
    <2>5. result' \in [Keys -> Result]
        BY <2>1, <2>4, Zenon DEF TypeOK
    <2>6. finishedTaskInfos' \in Seq(Keys)
        BY <1>1, AppendProperties, Zenon DEF TaskIsComplete, TypeOK
    <2>7. executing' \subseteq Keys /\ notifying' \subseteq Keys
        BY <1>1, Zenon DEF TaskIsComplete, TypeOK
    <2>. QED
        BY <1>1, <2>5, <2>6, <2>7, Zenon DEF TaskIsComplete, TypeOK
<1>2. CASE NotifyEngine(k)
    <2>1. pc' \in Control
        BY <1>2, Zenon DEF NotifyEngine, Awake, TypeOK, Control
    <2>. QED
        BY <1>2, <2>1, Zenon DEF NotifyEngine, TypeOK
<1>. QED
    BY <1>1, <1>2, Zenon DEF Worker

\* A default-constructed Result.
LEMMA NoResultType == NoResult \in Result
BY ClientAssumption, EmptySeq, Zenon DEF NoResult, Result

\* Each of the bounded events of a behaviour can be counted once more.
LEMMA SpendingMore ==
    ASSUME NEW s \in Spending
    PROVE  /\ [s EXCEPT !.cancels = @ + 1] \in Spending
           /\ [s EXCEPT !.resets = @ + 1] \in Spending
           /\ [s EXCEPT !.edits = @ + 1] \in Spending
           /\ [s EXCEPT !.restarts = @ + 1] \in Spending
           /\ [s EXCEPT !.faults = @ + 1] \in Spending
BY DEF Spending

\* Only the failures are counted by faults.
LEMMA SpendingFaults ==
    ASSUME NEW s \in Spending
    PROVE  /\ s.faults \in Nat
           /\ [s EXCEPT !.builds = @ + 1].faults = s.faults
           /\ [s EXCEPT !.cancels = @ + 1].faults = s.faults
           /\ [s EXCEPT !.resets = @ + 1].faults = s.faults
           /\ [s EXCEPT !.edits = @ + 1].faults = s.faults
           /\ [s EXCEPT !.restarts = @ + 1].faults = s.faults
           /\ [s EXCEPT !.faults = @ + 1].faults = s.faults + 1
BY Zenon DEF Spending

\* The initial state, and what a new process starts with.
LEMMA InitType == Init => TypeOK
<1>. SUFFICES ASSUME Init PROVE TypeOK
    BY Zenon
<1>1. db \in Store /\ txn \in Store
    BY NoResultType, Zenon DEF Init, Store
<1>2. result \in [Keys -> Result] /\ given \in [Keys -> [Keys -> Values]]
    BY NoResultType, ClientAssumption, Zenon DEF Init
<1>3. state \in [Keys -> StateKind] /\ pc \in Control /\ spent \in Spending
    BY Zenon DEF Init, StateKind, Control, Spending
<1>4. /\ requestedBy \in [Keys -> Seq(TaskRequest)]
      /\ pausedInputRequests \in [Keys -> Seq(TaskInputRequest)]
      /\ deferredScanRequests \in [Keys -> Seq(RuleScanRequest)]
    BY EmptySeq, Zenon DEF Init
<1>5. /\ ruleInfosToScan \in Seq(RuleScanRequest)
      /\ inputRequests \in Seq(TaskInputRequest)
      /\ finishedInputRequests \in Seq(TaskRequest)
      /\ readyTaskInfos \in Seq(Keys) /\ finishedTaskInfos \in Seq(Keys)
    BY EmptySeq, Zenon DEF Init
<1>6. buildKey \in Keys
    BY ClientAssumption, Zenon DEF Init
<1>7. wasForced \in [Keys -> BOOLEAN]
    BY Zenon DEF Init
<1>8. waitCount \in [Keys -> Int]
    <2>1. waitCount = [k \in Keys |-> 0]
        BY Zenon DEF Init
    <2>. QED
        BY <2>1
<1>9. /\ prog \in Programs /\ env \in Environments
      /\ taskInfos \subseteq Keys /\ executing \subseteq Keys
      /\ notifying \subseteq Keys /\ numOutstandingUnfinishedTasks \in Int
      /\ currentEpoch \in Nat /\ returned \in {"none", "empty", "value"}
    <2>1. /\ prog \in Programs /\ env \in Environments
          /\ taskInfos = {} /\ executing = {} /\ notifying = {}
          /\ numOutstandingUnfinishedTasks = 0
          /\ currentEpoch = 0 /\ returned = "none"
        BY Zenon DEF Init
    <2>. QED
        BY <2>1
<1>10. didWork \in BOOLEAN /\ success \in BOOLEAN /\ buildCancelled \in BOOLEAN
    BY Zenon DEF Init
<1>. QED
    BY <1>1, <1>2, <1>3, <1>4, <1>5, <1>6, <1>7, <1>8, <1>9, <1>10, Zenon
    DEF TypeOK

\* A new process, which loads the database.
LEMMA RestartPreservesType ==
    ASSUME TypeOK, Restart
    PROVE  TypeOK'
<1>1. db \in Store /\ spent \in Spending
    BY Zenon DEF TypeOK
<1>2. db.epoch \in Nat /\ db.results \in [Keys -> Result]
    BY <1>1, Zenon DEF Store
<1>3. db' \in Store /\ txn' \in Store /\ currentEpoch' \in Nat
    BY <1>1, <1>2, Zenon DEF Restart
<1>4. spent' \in Spending
    BY <1>1, SpendingMore, Zenon DEF Restart
<1>5. result' \in [Keys -> Result] /\ given' \in [Keys -> [Keys -> Values]]
    BY <1>2, ClientAssumption, Zenon DEF Restart
<1>6. state' \in [Keys -> StateKind] /\ pc' \in Control
    BY Zenon DEF Restart, StateKind, Control
<1>7. /\ requestedBy' \in [Keys -> Seq(TaskRequest)]
      /\ pausedInputRequests' \in [Keys -> Seq(TaskInputRequest)]
      /\ deferredScanRequests' \in [Keys -> Seq(RuleScanRequest)]
    BY EmptySeq, Zenon DEF Restart
<1>8. /\ ruleInfosToScan' \in Seq(RuleScanRequest)
      /\ inputRequests' \in Seq(TaskInputRequest)
      /\ finishedInputRequests' \in Seq(TaskRequest)
      /\ readyTaskInfos' \in Seq(Keys) /\ finishedTaskInfos' \in Seq(Keys)
    BY EmptySeq, Zenon DEF Restart
<1>9. prog' \in Programs /\ env' \in Environments /\ buildKey' \in Keys
    BY Zenon DEF Restart, TypeOK
<1>10. wasForced' \in [Keys -> BOOLEAN]
    BY Zenon DEF Restart
<1>11. waitCount' \in [Keys -> Int]
    BY DEF Restart
<1>12. /\ taskInfos' \subseteq Keys /\ executing' \subseteq Keys
       /\ notifying' \subseteq Keys /\ numOutstandingUnfinishedTasks' \in Int
       /\ returned' \in {"none", "empty", "value"}
    BY DEF Restart
<1>13. didWork' \in BOOLEAN /\ success' \in BOOLEAN /\ buildCancelled' \in BOOLEAN
    BY Zenon DEF Restart
<1>. QED
    BY <1>3, <1>4, <1>5, <1>6, <1>7, <1>8, <1>9, <1>10, <1>11, <1>12,
       <1>13, Zenon
    DEF TypeOK

\* The interface: build(), from both ends, and what happens between builds.
LEMMA ClientPreservesType ==
    ASSUME TypeOK,
           Client \/ BuildReturns \/ SetCurrentIterationFails
    PROVE  TypeOK'
<1>. USE DEF outerVars, ruleVars, taskVars, scanVars, inputVars, workerVars
<1>1. /\ spent \in Spending /\ db \in Store /\ txn \in Store /\ currentEpoch \in Nat
      /\ inputRequests \in Seq(TaskInputRequest)
    BY Zenon DEF TypeOK
<1>2. ASSUME NEW k \in Roots, Build(k) PROVE TypeOK'
    <2>1. k \in Keys
        BY <1>2, ClientAssumption, Zenon
    <2>2. [task |-> NoKey, input |-> k, orderOnly |-> FALSE,
           singleUse |-> FALSE, forcePriorValue |-> FALSE] \in TaskInputRequest
        BY <2>1, Zenon DEF TaskInputRequest
    <2>3. inputRequests' \in Seq(TaskInputRequest)
        BY <1>1, <1>2, <2>2, AppendProperties, Zenon DEF Build
    <2>4. finishedInputRequests' \in Seq(TaskRequest)
        BY <1>2, EmptySeq, Zenon DEF Build
    <2>5. spent' \in Spending /\ currentEpoch' \in Nat
        <3>1. /\ spent' = [spent EXCEPT !.builds = @ + 1]
              /\ currentEpoch' = currentEpoch + 1
            BY <1>2, Zenon DEF Build
        <3>2. currentEpoch' \in Nat
            BY ONLY <1>1, <3>1
        <3>3. spent' \in Spending
            BY <1>1, <3>1 DEF Spending
        <3>. QED
            BY <3>2, <3>3, Zenon
    <2>. QED
        BY <1>2, <2>1, <2>3, <2>4, <2>5, Zenon DEF Build, TypeOK, Control
<1>3. ASSUME NEW k \in Roots, BuildRefused(k) PROVE TypeOK'
    <2>1. k \in Keys
        BY <1>3, ClientAssumption, Zenon
    <2>2. spent' \in Spending
        <3>1. \/ spent' = [spent EXCEPT !.builds = @ + 1, !.faults = @]
              \/ spent' = [spent EXCEPT !.builds = @ + 1, !.faults = @ + 1]
            BY <1>3, Zenon DEF BuildRefused
        <3>2. \E f \in Nat : spent' = [spent EXCEPT !.builds = @ + 1, !.faults = f]
            <4>1. spent.faults \in Nat /\ spent.faults + 1 \in Nat
                BY <1>1 DEF Spending
            <4>. QED
                BY <3>1, <4>1, Zenon
        <3>3. spent.builds + 1 \in Nat
            BY <1>1 DEF Spending
        <3>. QED
            BY <1>1, <3>2, <3>3, Zenon DEF Spending
    <2>. QED
        BY <1>3, <2>1, <2>2, Zenon DEF BuildRefused, TypeOK
<1>4. CASE CancelBuild \/ ResetForBuild
    <2>1. spent' \in Spending
        BY <1>1, <1>4, SpendingMore, Zenon DEF CancelBuild, ResetForBuild
    <2>. QED
        BY <1>4, <2>1, Zenon DEF CancelBuild, ResetForBuild, TypeOK
<1>5. CASE EditFiles
    <2>1. spent' \in Spending
        BY <1>1, <1>5, SpendingMore, Zenon DEF EditFiles
    <2>. QED
        BY <1>5, <2>1, Zenon DEF EditFiles, TypeOK
<1>6. CASE Idle
    BY <1>6, Zenon DEF Idle, vars, TypeOK
<1>7. CASE BuildReturns
    <2>1. StoredIteration \in Store
        BY <1>1, Zenon DEF StoredIteration, Store
    <2>. QED
        BY <1>7, <2>1, Zenon DEF BuildReturns, FinishBuild, TypeOK, Control
<1>8. CASE SetCurrentIterationFails
    <2>1. spent' \in Spending
        BY <1>1, <1>8, SpendingMore, Zenon DEF SetCurrentIterationFails
    <2>. QED
        BY <1>1, <1>8, <2>1, Zenon DEF SetCurrentIterationFails, FinishBuild, TypeOK, Control
<1>. QED
    BY <1>2, <1>3, <1>4, <1>5, <1>6, <1>7, <1>8, RestartPreservesType, Zenon DEF Client

\* Every step keeps the types.
LEMMA NextPreservesType ==
    ASSUME TypeOK, [Next]_vars
    PROVE  TypeOK'
<1>1. CASE Engine
    BY <1>1, LoopPreservesType, ScanPreservesType, InputsPreserveType,
       FinishedInputPreservesType, ReadyTaskPreservesType,
       FinishedTaskPreservesType, CyclePreservesType, CancelPreservesType,
       ClientPreservesType, Zenon DEF Engine
<1>2. CASE \E k \in Keys : Worker(k)
    BY <1>2, WorkerPreservesType, Zenon
<1>3. CASE Client
    BY <1>3, ClientPreservesType, Zenon
<1>4. CASE Fault
    BY <1>4, StoreFailurePreservesType, ClientPreservesType, LoopPreservesType, Zenon
    DEF Fault
<1>5. CASE UNCHANGED vars
    BY <1>5, Zenon DEF vars, TypeOK
<1>. QED
    BY <1>1, <1>2, <1>3, <1>4, <1>5, Zenon DEF Next

\* Whatever the rules, values and files, and however builds, cancellations,
\* failures and restarts are interleaved, the engine's tables, queues and
\* stored results keep their types; in particular only requests that a task
\* waits for are ever left with an input's task or queued as finished, so
\* executeTasks() never provides a value to the absent task of a dummy request.
THEOREM TypeCorrect == Spec => []TypeOK
BY InitType, NextPreservesType, PTL DEF Spec

-----------------------------------------------------------------------------
(* Epochs.                                                                 *)

\* A result of the current epoch or an earlier one.
Past(r) == r.builtAt <= currentEpoch /\ r.computedAt <= currentEpoch

\* Stored results are no younger than epoch e, and changed when they were last
\* built or before.
StoredBy(s, e) ==
    \A k \in Keys : /\ s.results[k].computedAt <= s.results[k].builtAt
                    /\ s.results[k].builtAt <= e

\* The inductive form of EpochsOrdered: the open transaction is ordered by the
\* epoch that will be stored with it.
EpochInv ==
    spent.faults = 0 =>
        /\ \A k \in Keys : Past(result[k])
        /\ StoredBy(txn, currentEpoch) /\ StoredBy(db, db.epoch)
        /\ db.epoch <= currentEpoch

\* The epochs of a result are natural numbers.
LEMMA EpochTypes ==
    ASSUME TypeOK, NEW k \in Keys
    PROVE  /\ result[k] \in Result
           /\ result[k].builtAt \in Nat /\ result[k].computedAt \in Nat
           /\ db.results[k] \in Result /\ db.epoch \in Nat
           /\ db.results[k].builtAt \in Nat /\ db.results[k].computedAt \in Nat
           /\ txn.results[k].builtAt \in Nat /\ txn.results[k].computedAt \in Nat
           /\ currentEpoch \in Nat
<1>1. result[k] \in Result /\ db.results[k] \in Result /\ txn.results[k] \in Result
    BY Zenon DEF TypeOK, Store
<1>2. currentEpoch \in Nat /\ db.epoch \in Nat
    BY Zenon DEF TypeOK, Store
<1>. QED
    BY <1>1, <1>2, Zenon DEF Result

\* Demanding a rule can only set its builtAt to the current epoch.
LEMMA DemandedEpochs ==
    ASSUME TypeOK, NEW k \in Keys, \A j \in Keys : Past(result[j])
    PROVE  \A j \in Keys : Past(ResultDemanded(k)[j])
<1>1. result \in [Keys -> Result] /\ currentEpoch \in Nat
    BY Zenon DEF TypeOK
<1>2. ASSUME NEW j \in Keys
      PROVE  \/ ResultDemanded(k)[j].builtAt = result[j].builtAt
             \/ ResultDemanded(k)[j].builtAt = currentEpoch
    BY <1>1, Zenon DEF ResultDemanded, Result
<1>3. ASSUME NEW j \in Keys
      PROVE  ResultDemanded(k)[j].computedAt = result[j].computedAt
    BY <1>1, Zenon DEF ResultDemanded, Result
<1>4. TAKE j \in Keys
<1>5. result[j].builtAt <= currentEpoch /\ result[j].computedAt <= currentEpoch
    BY Zenon DEF Past
<1>6. currentEpoch <= currentEpoch
    BY <1>1
<1>7. ResultDemanded(k)[j].builtAt <= currentEpoch
    BY <1>2, <1>5, <1>6, Zenon
<1>8. ResultDemanded(k)[j].computedAt <= currentEpoch
    BY <1>3, <1>5, Zenon
<1>. QED
    BY <1>7, <1>8, Zenon DEF Past

\* Steps that touch neither the database nor the epoch.
LEMMA ResultsKeepEpochs ==
    ASSUME TypeOK, EpochInv, UNCHANGED <<db, txn, currentEpoch>>,
           spent'.faults = 0 => spent.faults = 0,
           (\A k \in Keys : Past(result[k])) => \A k \in Keys : Past(result'[k])
    PROVE  EpochInv'
<1>1. \A k \in Keys : Past(result[k])' <=> Past(result'[k])
    BY Zenon DEF Past
<1>. QED
    BY <1>1, Zenon DEF EpochInv, StoredBy

\* Scanning and demanding.
LEMMA DemandKeepsEpochs ==
    ASSUME TypeOK, EpochInv,
           ProcessRuleScanRequest \/ PauseInputRequest \/ ProcessInputRequest
    PROVE  EpochInv'
<1>1. UNCHANGED <<db, txn, currentEpoch, spent>>
    BY Zenon DEF ProcessRuleScanRequest, ScanIgnored, ScanSingleUse, ScanDeferred,
           ScanNextInput, ScanInputRebuilt, ScanUpToDate, ScanStep,
           PauseInputRequest, ProcessInputRequest, InputStep, outerVars
<1>2. ASSUME \A k \in Keys : Past(result[k]) PROVE \A k \in Keys : Past(result'[k])
  <2>1. CASE ScanIgnored \/ ScanSingleUse \/ ScanUpToDate \/ PauseInputRequest
    BY <1>2, <2>1, Zenon
       DEF ScanIgnored, ScanSingleUse, ScanUpToDate, PauseInputRequest, ruleVars
  <2>2. CASE ScanDeferred \/ ScanNextInput \/ ScanInputRebuilt
    <3>1. ruleInfosToScan # <<>> /\ HasInput /\ result' = ResultDemanded(dependency.key)
        BY <2>2, Zenon DEF ScanDeferred, ScanNextInput, ScanInputRebuilt, ScanStep
    <3>2. dependency.key \in Keys
        BY <3>1, ScanStackType, Zenon DEF Dependency
    <3>. QED
        BY <1>2, <3>1, <3>2, DemandedEpochs, Zenon
  <2>3. CASE ProcessInputRequest
    <3> DEFINE i == inputRequest.input
               t == inputRequest.task
    <3>1. /\ inputRequests # <<>>
          /\ result' = IF t = NoKey THEN ResultDemanded(i)
                ELSE [ResultDemanded(i) EXCEPT ![t].dependencies =
                                Append(@, RecordedDependency(inputRequest))]
        BY <2>3, Zenon DEF ProcessInputRequest, InputStep
    <3>2. i \in Keys
        BY <3>1, InputQueueType, Zenon
    <3>3. \A j \in Keys : Past(ResultDemanded(i)[j])
        BY <1>2, <3>2, DemandedEpochs, Zenon
    <3>4. ResultDemanded(i) \in [Keys -> Result]
        BY <3>2, DemandType, Zenon
    <3> HIDE DEF i, t
    <3>5. \A j \in Keys : /\ result'[j].builtAt = ResultDemanded(i)[j].builtAt
                          /\ result'[j].computedAt = ResultDemanded(i)[j].computedAt
        BY <3>1, <3>4, Zenon DEF Result
    <3>. QED
        BY <3>3, <3>5, Zenon DEF Past
  <2>. QED
    BY <2>1, <2>2, <2>3, Zenon DEF ProcessRuleScanRequest
<1>. QED
    BY <1>1, <1>2, ResultsKeepEpochs, Zenon

\* A completed rule was built in this epoch, and stored with its change epoch.
LEMMA FinishKeepsEpochs ==
    ASSUME TypeOK, EpochInv, ProcessFinishedTask
    PROVE  EpochInv'
<1>1. PICK k \in Keys :
        /\ result' = [result EXCEPT ![k] = CompletedResult(k)]
        /\ txn' = [txn EXCEPT !.results[k] = CompletedResult(k)]
        /\ UNCHANGED <<db, currentEpoch, spent>>
    BY Zenon DEF ProcessFinishedTask, FinishStep, TypeOK
<1>2. SUFFICES ASSUME spent.faults = 0
               PROVE  /\ \A j \in Keys : Past(result'[j])
                      /\ StoredBy(txn', currentEpoch)
    BY <1>1, Zenon DEF EpochInv, StoredBy, Past
<1>3. /\ \A j \in Keys : Past(result[j])
      /\ StoredBy(txn, currentEpoch)
    BY <1>2, Zenon DEF EpochInv
<1>4. /\ CompletedResult(k).builtAt = currentEpoch
      /\ CompletedResult(k).computedAt = result[k].computedAt
    BY EpochTypes, Zenon DEF CompletedResult, Result
<1>5. /\ result \in [Keys -> Result] /\ txn.results \in [Keys -> Result]
      /\ txn \in Store /\ currentEpoch \in Nat
    BY Zenon DEF TypeOK, Store
<1>6. /\ result'[k] = CompletedResult(k) /\ txn'.results[k] = CompletedResult(k)
      /\ \A j \in Keys : j # k => /\ result'[j] = result[j]
                                  /\ txn'.results[j] = txn.results[j]
    BY <1>1, <1>5, Zenon DEF Store
<1>7. ASSUME NEW j \in Keys
      PROVE  /\ Past(result'[j])
             /\ txn'.results[j].computedAt <= txn'.results[j].builtAt
             /\ txn'.results[j].builtAt <= currentEpoch
  <2>1. CASE j # k
    BY <1>3, <1>6, <2>1, Zenon DEF StoredBy
  <2>2. CASE j = k
    <3>1. /\ CompletedResult(k).builtAt <= currentEpoch
          /\ CompletedResult(k).computedAt <= CompletedResult(k).builtAt
          /\ CompletedResult(k).computedAt <= currentEpoch
      <4>1. result[k].computedAt <= currentEpoch
        BY <1>3, Zenon DEF Past
      <4>2. currentEpoch <= currentEpoch
        <5>1. currentEpoch \in Nat
          BY <1>5, Zenon
        <5>. QED
          BY <5>1
      <4>. QED
        BY <1>4, <4>1, <4>2, Zenon
    <3>. QED
        BY <1>6, <2>2, <3>1, Zenon DEF Past
  <2>. QED
    BY <2>1, <2>2, Zenon
<1>. QED
    BY <1>7, Zenon DEF StoredBy

\* A task that completes changes its result in this epoch or not at all.
LEMMA CompletionKeepsEpochs ==
    ASSUME TypeOK, EpochInv, NEW k \in Keys, TaskIsComplete(k)
    PROVE  EpochInv'
<1>1. PICK v \in TaskValues(k), forceChange \in ForceChange :
        result' = [result EXCEPT ![k] = ReportedResult(k, v, forceChange)]
    BY Zenon DEF TaskIsComplete
<1>2. UNCHANGED <<db, txn, currentEpoch, spent>>
    BY Zenon DEF TaskIsComplete, outerVars
<1>3. result \in [Keys -> Result] /\ result[k] \in Result /\ currentEpoch \in Nat
    BY Zenon DEF TypeOK
<1>4. /\ ReportedResult(k, v, forceChange).builtAt = result[k].builtAt
      /\ \/ ReportedResult(k, v, forceChange).computedAt = result[k].computedAt
         \/ ReportedResult(k, v, forceChange).computedAt = currentEpoch
    BY <1>3, Zenon DEF ReportedResult, Result
<1>5. (\A j \in Keys : Past(result[j])) => \A j \in Keys : Past(result'[j])
    BY <1>1, <1>3, <1>4 DEF Past
<1>. QED
    BY <1>2, <1>5, ResultsKeepEpochs, Zenon

\* What is no later than an epoch is no later than the next one.
LEMMA NoLaterThanNext ==
    ASSUME NEW a \in Nat, NEW b \in Nat, a <= b
    PROVE  a <= b + 1
OBVIOUS

\* No later than is transitive on epochs.
LEMMA NoLaterThanLater ==
    ASSUME NEW a \in Nat, NEW b \in Nat, NEW c \in Nat, a <= b, b <= c
    PROVE  a <= c
OBVIOUS

\* Builds, edits and restarts: the epoch grows, or is the stored one again.
LEMMA ClientKeepsEpochs ==
    ASSUME TypeOK, EpochInv, Client
    PROVE  EpochInv'
<1>1. /\ spent \in Spending /\ currentEpoch \in Nat /\ db.epoch \in Nat
      /\ \A k \in Keys : /\ result[k].builtAt \in Nat
                         /\ result[k].computedAt \in Nat
                         /\ db.results[k].builtAt \in Nat
                         /\ db.results[k].computedAt \in Nat
    BY EpochTypes, Zenon DEF TypeOK, Store
<1>2. CASE \E k \in Roots : Build(k)
  <2>1. /\ txn' = db /\ currentEpoch' = currentEpoch + 1
        /\ UNCHANGED <<db, result>> /\ spent'.faults = spent.faults
    BY <1>1, <1>2, SpendingFaults, Zenon DEF Build, ruleVars
  <2>2. SUFFICES ASSUME spent.faults = 0
                 PROVE  /\ \A k \in Keys : Past(result[k])'
                        /\ StoredBy(db, currentEpoch + 1) /\ StoredBy(db, db.epoch)
                        /\ db.epoch <= currentEpoch + 1
    BY <2>1, Zenon DEF EpochInv, StoredBy
  <2>3. /\ \A k \in Keys : Past(result[k])
        /\ StoredBy(db, db.epoch) /\ db.epoch <= currentEpoch
    BY <2>2, Zenon DEF EpochInv
  <2>4. ASSUME NEW k \in Keys PROVE Past(result[k])'
    <3>1. /\ result[k].builtAt <= currentEpoch
          /\ result[k].computedAt <= currentEpoch
      BY <2>3, Zenon DEF Past
    <3>2. /\ result[k].builtAt <= currentEpoch + 1
          /\ result[k].computedAt <= currentEpoch + 1
      BY <1>1, <3>1, NoLaterThanNext, Zenon
    <3>3. result'[k] = result[k] /\ currentEpoch' = currentEpoch + 1
      BY <2>1, Zenon
    <3>. QED
      BY <3>2, <3>3, Zenon DEF Past
  <2>5. StoredBy(db, currentEpoch + 1)
    <3>1. db.epoch <= currentEpoch + 1
      BY <1>1, <2>3, NoLaterThanNext, Zenon
    <3>2. ASSUME NEW k \in Keys
          PROVE  /\ db.results[k].computedAt <= db.results[k].builtAt
                 /\ db.results[k].builtAt <= currentEpoch + 1
      <4>1. /\ db.results[k].computedAt <= db.results[k].builtAt
            /\ db.results[k].builtAt <= db.epoch
        BY <2>3, Zenon DEF StoredBy
      <4>2. /\ db.results[k].builtAt \in Nat /\ db.epoch \in Nat
            /\ currentEpoch + 1 \in Nat
        <5>1. db.results[k].builtAt \in Nat /\ db.epoch \in Nat /\ currentEpoch \in Nat
          BY <1>1, Zenon
        <5>. QED
          BY <5>1
      <4>. QED
        BY <3>1, <4>1, <4>2, NoLaterThanLater, Zenon
    <3>. QED
      BY <3>2, Zenon DEF StoredBy
  <2>6. db.epoch <= currentEpoch + 1
    BY <1>1, <2>3, NoLaterThanNext, Zenon
  <2>. QED
    BY <2>3, <2>4, <2>5, <2>6, Zenon
<1>3. CASE Restart
  <2>1. /\ txn' = db /\ currentEpoch' = db.epoch /\ result' = db.results
        /\ UNCHANGED db /\ spent'.faults = spent.faults
    BY <1>1, <1>3, SpendingFaults, Zenon DEF Restart
  <2>2. SUFFICES ASSUME spent.faults = 0
                 PROVE  /\ \A k \in Keys : Past(result[k])'
                        /\ StoredBy(db, db.epoch) /\ db.epoch <= db.epoch
    BY <2>1, Zenon DEF EpochInv, StoredBy
  <2>3. StoredBy(db, db.epoch)
    BY <2>2, Zenon DEF EpochInv
  <2>4. ASSUME NEW k \in Keys PROVE Past(result[k])'
    <3>1. /\ db.results[k].computedAt <= db.results[k].builtAt
          /\ db.results[k].builtAt <= db.epoch
      BY <2>3, Zenon DEF StoredBy
    <3>2. db.results[k].computedAt <= db.epoch
      BY <1>1, <3>1, NoLaterThanLater, Zenon
    <3>3. result'[k] = db.results[k] /\ currentEpoch' = db.epoch
      BY <2>1, Zenon
    <3>. QED
      BY <3>1, <3>2, <3>3, Zenon DEF Past
  <2>5. db.epoch <= db.epoch
    <3>1. db.epoch \in Nat
      BY <1>1, Zenon
    <3>. QED
      BY <3>1
  <2>. QED
    BY <2>3, <2>4, <2>5, Zenon
<1>4. CASE \/ (\E k \in Roots : BuildRefused(k)) \/ CancelBuild \/ ResetForBuild
           \/ EditFiles \/ Idle
  <2>1. UNCHANGED <<db, txn, currentEpoch, result>>
    BY <1>4, Zenon DEF BuildRefused, CancelBuild, ResetForBuild, EditFiles, Idle, ruleVars,
                outerVars, vars
  <2>2. spent'.faults = 0 => spent.faults = 0
    <3>1. CASE \E k \in Roots : BuildRefused(k)
      <4>1. spent'.faults = IF buildCancelled THEN spent.faults ELSE spent.faults + 1
        BY <1>1, <3>1, Zenon DEF BuildRefused, Spending
      <4>2. spent.faults \in Nat
        BY <1>1, Zenon DEF Spending
      <4>. QED
        BY <4>1, <4>2
    <3>2. CASE CancelBuild \/ ResetForBuild \/ EditFiles
        BY <1>1, <3>2, SpendingFaults, Zenon DEF CancelBuild, ResetForBuild, EditFiles
    <3>3. CASE Idle
        BY <3>3, Zenon DEF Idle, vars
    <3>. QED
        BY <1>4, <3>1, <3>2, <3>3, Zenon
  <2>. QED
    BY <2>1, <2>2, ResultsKeepEpochs, Zenon
<1>. QED
    BY <1>2, <1>3, <1>4, Zenon DEF Client

\* Every step keeps the epochs in order.
LEMMA NextKeepsEpochs ==
    ASSUME TypeOK, EpochInv, [Next]_vars
    PROVE  EpochInv'
<1>1. CASE ProcessRuleScanRequest \/ PauseInputRequest \/ ProcessInputRequest
    BY <1>1, DemandKeepsEpochs, Zenon
<1>2. CASE ProcessFinishedTask
    BY <1>2, FinishKeepsEpochs, Zenon
<1>3. CASE \E k \in Keys : TaskIsComplete(k)
    BY <1>3, CompletionKeepsEpochs, Zenon
<1>4. CASE Client
    BY <1>4, ClientKeepsEpochs, Zenon
<1>5. CASE BuildReturns
  <2>1. /\ db' = [txn EXCEPT !.epoch = currentEpoch] /\ txn' = db'
        /\ UNCHANGED <<currentEpoch, result, spent>>
    BY <1>5, Zenon DEF BuildReturns, FinishBuild, StoredIteration, ruleVars
  <2>2. /\ db'.results = txn.results /\ db'.epoch = currentEpoch
        /\ txn'.results = txn.results /\ currentEpoch \in Nat
    BY <2>1, Zenon DEF TypeOK, Store
  <2>. QED
    BY <2>1, <2>2 DEF EpochInv, StoredBy, Past
<1>6. CASE SetRuleResultFails \/ SetCurrentIterationFails
  <2>1. spent'.faults = spent.faults + 1 /\ spent.faults \in Nat
    <3>1. spent \in Spending /\ spent' = [spent EXCEPT !.faults = @ + 1]
      BY <1>6, Zenon DEF SetRuleResultFails, SetCurrentIterationFails, TypeOK
    <3>. QED
      BY <3>1, SpendingFaults, Zenon
  <2>2. spent'.faults # 0
    BY <2>1
  <2>. QED
    BY <2>2, Zenon DEF EpochInv
<1>7. CASE \/ LoopTop \/ NextQueue \/ LoopBottom \/ WaitForTask \/ SpuriousWakeup
           \/ ProcessFinishedInputRequest \/ ProcessReadyTask
           \/ DrainFinishedTasks \/ CancelTasks
           \/ (\E k \in Keys : NotifyEngine(k)) \/ UNCHANGED vars
  <2>1. UNCHANGED <<db, txn, currentEpoch, result, spent>>
    BY <1>7, Zenon
       DEF LoopTop, NextQueue, LoopBottom, WaitForTask, SpuriousWakeup, Unchanged,
           ProcessFinishedInputRequest, ProcessReadyTask, DrainFinishedTasks,
           CancelTasks, NotifyEngine, ruleVars, outerVars, vars
  <2>. QED
    BY <2>1, ResultsKeepEpochs, Zenon
<1>8. CASE BreakCycle \/ ReadPastCycle \/ CycleDetected
  <2>1. UNCHANGED <<db, txn, currentEpoch, result, spent>>
    BY <1>8, Zenon DEF BreakCycle, ForceBuild, SupplyPriorValue, ReadPastCycle,
                CycleDetected, CycleStep, outerVars
  <2>. QED
    BY <2>1, ResultsKeepEpochs, Zenon
<1>. QED
    BY <1>1, <1>2, <1>3, <1>4, <1>5, <1>6, <1>7, <1>8, Zenon
       DEF Next, Engine, Worker, Fault

\* Unless setCurrentIteration() or another call to the database fails, a result
\* is never from a later epoch than the engine is in, nor a stored one from a
\* later epoch than the stored iteration, wherever builds are cut off: a process
\* that attaches the database starts with an epoch no result has.
THEOREM EpochsNeverReused == Spec => []EpochsOrdered
<1>1. Init => EpochInv
  <2>. SUFFICES ASSUME Init PROVE EpochInv
    BY Zenon
  <2>1. /\ \A k \in Keys : result[k] = NoResult /\ db.results[k] = NoResult
        /\ db.epoch = 0 /\ txn = db /\ currentEpoch = 0
    BY Zenon DEF Init
  <2>2. NoResult.builtAt = 0 /\ NoResult.computedAt = 0
    BY Zenon DEF NoResult
  <2>3. \A k \in Keys : Past(result[k])
    BY <2>1, <2>2 DEF Past
  <2>4. StoredBy(db, 0)
    BY <2>1, <2>2 DEF StoredBy
  <2>5. /\ StoredBy(db, db.epoch) /\ StoredBy(txn, currentEpoch)
        /\ db.epoch <= currentEpoch
    BY <2>1, <2>4
  <2>. QED
    BY <2>3, <2>5, Zenon DEF EpochInv
<1>2. EpochInv => EpochsOrdered
    BY Zenon DEF EpochInv, EpochsOrdered, StoredBy, Past
<1>. QED
    BY <1>1, <1>2, TypeCorrect, NextKeepsEpochs, PTL DEF Spec
=============================================================================
