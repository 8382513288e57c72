----------------------------- MODULE Builra3Proofs -----------------------------
(***************************************************************************)
(* A builra3 engine together with its executor: the executor keeps the     *)
(* promise the engine relies on, and the engine's guarantees hold with     *)
(* this executor.                                                          *)
(***************************************************************************)
EXTENDS Builra3, TaskEngineProofs, ExecutorProofs

\* The engine draws the numbers of the submissions.
LEMMA SameNumbers == Submissions = WorkIDs
  BY Builra3Assumption, Zenon

-----------------------------------------------------------------------------
(***************************************************************************)
(* The numbers the engine draws are new to the executor.                   *)
(***************************************************************************)
\* Numbers not drawn, and the one submit is called with, are unknown to the
\* executor.
Unused(w) == w > nextWork \/ (lane.pc = "submit" /\ lane.work = w)

NewToExecutor == \A w \in WorkIDs : Unused(w) => Fresh(w)

\* A step that draws no number tells the executor of none.
LEMMA NothingDrawn ==
    ASSUME NewToExecutor, DrawsNothing, \A v \in WorkIDs : StillFresh(v)
    PROVE  NewToExecutor'
  BY Zenon DEF NewToExecutor, DrawsNothing, StillFresh, Unused

\* BeginSubmit draws the next number.
LEMMA NumberDrawn ==
    ASSUME Inv, NewToExecutor, NEW ask, NEW kind, NEW sid,
           BeginSubmit(ask, kind, sid), \A v \in WorkIDs : StillFresh(v)
    PROVE  NewToExecutor'
<1>1. /\ nextWork' = nextWork + 1 /\ nextWork \in Nat /\ lane'.work = nextWork + 1
  BY DEF BeginSubmit, Inv, Shaped, LaneShaped
<1>2. \A w \in WorkIDs : w \in Nat
  BY TaskEngineAssumption DEF WorkIDs
<1> QED
  BY <1>1, <1>2 DEF NewToExecutor, StillFresh, Unused

-----------------------------------------------------------------------------
(***************************************************************************)
(* The engine and its executor.                                            *)
(***************************************************************************)
SystemInv == IInv /\ ExecutorInv /\ NewToExecutor

\* Nothing has been drawn, queued or reported yet.
LEMMA SystemInitially ==
    Init => SystemInv
  BY Initially, ExecutorInitially, SameNumbers, Zenon DEF Init, SystemInv, NewToExecutor

\* Each step of the system keeps the invariant.
LEMMA SystemKeeps ==
    ASSUME SystemInv, [Next]_vars
    PROVE  SystemInv'
<1>1. CASE UNCHANGED vars
  <2>1. UNCHANGED engineVars /\ UNCHANGED executorVars
    BY <1>1, Zenon DEF vars
  <2>2. IInv' /\ ExecutorInv' /\ \A v \in WorkIDs : StillFresh(v)
    BY <2>1, StepKeeps, ExecutorSteps, SameNumbers, Zenon DEF SystemInv
  <2>3. nextWork' = nextWork /\ lane' = lane
    BY <2>1, Zenon DEF engineVars, requests
  <2>4. NewToExecutor'
    BY <2>2, <2>3, NothingDrawn, Zenon DEF SystemInv, DrawsNothing
  <2> QED
    BY <2>2, <2>4, Zenon DEF SystemInv
<1>2. CASE Next
  <2>1. ~terminated /\ Inv /\ IInv /\ ExecutorInv /\ NewToExecutor
    BY <1>2, Zenon DEF Next, Alive, SystemInv, IInv
  <2>2. CASE Client \/ Refuse
    <3>1. (ClientStep \/ SubmitRejected) /\ UNCHANGED executorVars
      BY <2>2, Zenon DEF Client, Refuse
    <3>2. ExecutorInv' /\ \A v \in WorkIDs : StillFresh(v)
      BY <2>1, <3>1, ExecutorSteps, SameNumbers, Zenon
    <3>3. IInv'
      BY <2>1, <3>1, StepKeeps, Zenon DEF EngineStep
    <3> QED
      BY <2>1, <3>1, <3>2, <3>3, LaneDraws, NothingDrawn, Zenon DEF SystemInv
  <2>3. CASE Lane
    <3>1. ExecutorInv' /\ \A v \in WorkIDs : StillFresh(v)
      BY <2>1, <2>3, ExecutorSteps, SameNumbers, Zenon DEF Lane
    <3>2. IInv'
      BY <2>1, <2>3, StepKeeps, Zenon DEF Lane, EngineStep
    <3>3. NewToExecutor'
      BY <2>1, <2>3, <3>1, LaneDraws, NothingDrawn, NumberDrawn, Zenon
         DEF Lane, TaskRequestAction, TaskSpawnSubtask
    <3> QED
      BY <3>1, <3>2, <3>3, Zenon DEF SystemInv
  <2>4. CASE Submit
    <3>1. SubmitAccepted
      BY <2>4, Zenon DEF Submit
    <3>2. /\ lane.work \in WorkIDs /\ lane.work <= nextWork /\ Fresh(lane.work)
          /\ nextWork \in Nat
      BY <2>1, <3>1 DEF SubmitAccepted, Inv, Shaped, Submitting, NewToExecutor, Unused
    <3>3. ExecutorInv' /\ \A v \in WorkIDs \ {lane.work} : StillFresh(v)
      BY <2>1, <2>4, <3>2, Submitted, SameNumbers, Zenon DEF Submit
    <3>4. IInv'
      BY <2>1, <3>1, StepKeeps, Zenon DEF EngineStep
    <3>5. nextWork' = nextWork /\ lane'.pc # "submit"
      BY <2>1, <3>1, Zenon DEF SubmitAccepted, requests, Inv, Shaped, LaneShaped
    <3>6. NewToExecutor'
      <4>1. ASSUME NEW v \in WorkIDs, v > nextWork PROVE Fresh(v)'
        BY <2>1, <3>2, <3>3, <4>1 DEF NewToExecutor, Unused, StillFresh, WorkIDs
      <4> QED
        BY <3>5, <4>1, Zenon DEF NewToExecutor, Unused
    <3> QED
      BY <3>3, <3>4, <3>6, Zenon DEF SystemInv
  <2>5. CASE Detach \/ Executor
    <3>1. /\ UNCHANGED engineVars
          /\ ExecutorInv' /\ \A v \in WorkIDs : StillFresh(v)
      BY <2>1, <2>5, ExecutorSteps, SameNumbers, Zenon DEF Detach, Executor
    <3>2. IInv'
      BY <2>1, <3>1, StepKeeps, Zenon
    <3> QED
      BY <2>1, <3>1, <3>2, LaneDraws, NothingDrawn, Zenon DEF SystemInv
  <2>6. ASSUME NEW r \in reports, Notify(r) PROVE SystemInv'
    <3>1. r.work \in WorkIDs /\ r.val \in {"value", "error"}
      BY <2>1, SameNumbers, Zenon DEF ExecutorInv, ExecutorShaped, Reports
    <3>2. ExecutorInv' /\ \A v \in WorkIDs : StillFresh(v)
      BY <2>1, <2>6, Reporting, SameNumbers, Zenon DEF Notify
    <3>3. UNCHANGED engineVars \/ NotifyComplete(r.work, r.val)
      BY <2>6, Zenon DEF Notify
    <3>4. IInv'
      BY <2>1, <3>1, <3>3, StepKeeps, Zenon DEF EngineStep
    <3> QED
      BY <2>1, <3>1, <3>2, <3>3, <3>4, LaneDraws, NothingDrawn, Zenon DEF SystemInv
  <2> QED
    BY <1>2, <2>2, <2>3, <2>4, <2>5, <2>6, Zenon DEF Next, System
<1> QED
  BY <1>1, <1>2, Zenon

\* The invariant holds throughout.
LEMMA SystemInvariant == Spec => []SystemInv
<1>1. Init => SystemInv
  BY SystemInitially, Zenon
<1>2. SystemInv /\ [Next]_vars => SystemInv'
  BY SystemKeeps, Zenon
<1> QED
  BY <1>1, <1>2, PTL DEF Spec

\* The executor never loses a submission and never reports one twice.  Every
\* item of its map pending is in exactly one queue, lane, subtask or remote
\* call, for any number of lanes and submissions, in whatever order the remote
\* executor calls back; a report is made by one thread, of a submission that is
\* no longer pending.
THEOREM PendingIsSomewhereHolds ==
    Spec => []PendingIsSomewhere
<1>1. SystemInv => PendingIsSomewhere
  BY PlacesCounted, Zenon DEF SystemInv
<1> QED
  BY <1>1, SystemInvariant, PTL

\* With this executor, whose reports come from its lanes, from callbacks and
\* from submit itself, every task in flight is in exactly one place.
THEOREM SystemOneActivation ==
    Spec => []OneActivation
<1>1. SystemInv => OneActivation
  BY Consequences, Zenon DEF SystemInv
<1> QED
  BY <1>1, SystemInvariant, PTL

\* With this executor, whatever a task waits for will tell it.
THEOREM SystemTellsBlockedTasks ==
    Spec => []BlockedTasksAreTold
<1>1. SystemInv => BlockedTasksAreTold
  BY Consequences, Zenon DEF SystemInv
<1> QED
  BY <1>1, SystemInvariant, PTL

-----------------------------------------------------------------------------
(***************************************************************************)
(* The asynchronous subtasks stay within their limit.                      *)
(***************************************************************************)
NewReturns == \A w \in WorkIDs : Unused(w) => w \notin asyncReturns

\* A number that is unused after a step was unused before it.
LEMMA StaysUsed ==
    ASSUME SystemInv, [Next]_vars, NEW w \in WorkIDs, Unused(w)'
    PROVE  Unused(w)
<1>1. Inv \/ UNCHANGED vars
  BY Zenon DEF Next, Alive, SystemInv, IInv
<1>2. ASSUME DrawsNothing PROVE Unused(w)
  BY <1>2, Zenon DEF DrawsNothing, Unused
<1>3. CASE UNCHANGED vars
  BY <1>2, <1>3, Zenon DEF vars, engineVars, requests, DrawsNothing
<1>4. CASE Lane /\ Inv
  <2>1. LaneStep \/ \E ask, kind, sid : BeginSubmit(ask, kind, sid)
    BY <1>4, Zenon DEF Lane, TaskRequestAction, TaskSpawnSubtask
  <2>2. ASSUME NEW ask, NEW kind, NEW sid, BeginSubmit(ask, kind, sid)
        PROVE  Unused(w)
    <3>1. nextWork' = nextWork + 1 /\ nextWork \in Nat
          /\ lane'.work = nextWork + 1
      BY <1>4, <2>2 DEF BeginSubmit, Inv, Shaped, LaneShaped
    <3>2. w \in Nat
      BY TaskEngineAssumption DEF WorkIDs
    <3> QED
      BY <3>1, <3>2 DEF Unused
  <2> QED
    BY <1>2, <1>4, <2>1, <2>2, LaneDraws, Zenon
<1>5. CASE Inv /\ (Client \/ Submit \/ Refuse \/ Detach \/ Executor)
  BY <1>2, <1>5, LaneDraws, Zenon DEF Client, Submit, Refuse, Detach, Executor
<1>6. CASE Inv /\ \E r \in reports : Notify(r)
  <2>1. PICK r \in reports : Notify(r)
    BY <1>6, Zenon
  <2>2. r.work \in WorkIDs /\ r.val \in {"value", "error"}
    BY SameNumbers, Zenon DEF SystemInv, ExecutorInv, ExecutorShaped, Reports
  <2> QED
    BY <1>2, <1>6, <2>1, <2>2, LaneDraws, Zenon DEF Notify
<1> QED
  BY <1>1, <1>3, <1>4, <1>5, <1>6, Zenon DEF Next, System

\* Each step of the system counts the asynchronous subtasks right.
LEMMA CountStep ==
    ASSUME SystemInv, AsyncInv, NewReturns, [Next]_vars
    PROVE  AsyncInv' /\ NewReturns'
<1>1. ExecutorInv /\ \A w \in WorkIDs : Unused(w)' => Unused(w)
  BY StaysUsed, Zenon DEF SystemInv
<1>2. ASSUME AsyncInv', asyncReturns' \subseteq asyncReturns
      PROVE  AsyncInv' /\ NewReturns'
  BY <1>1, <1>2, Zenon DEF NewReturns
<1>3. CASE UNCHANGED executorVars
  BY <1>1, <1>2, <1>3, CountKept, Zenon
<1>4. CASE Next /\ Submit
  <2>0. Inv /\ SubmitAccepted
    BY <1>4, Zenon DEF Next, Alive, SystemInv, IInv, Submit
  <2>1. lane.pc = "submit" /\ lane.work \in WorkIDs
    BY <2>0, Zenon DEF SubmitAccepted, Inv, Shaped, Submitting
  <2>2. Fresh(lane.work) /\ lane.work \notin asyncReturns
    BY <2>1, Zenon DEF SystemInv, NewToExecutor, NewReturns, Unused
  <2>3. lane.work \in Submissions
    BY <2>1, SameNumbers, Zenon
  <2>4. AsyncInv' /\ UNCHANGED asyncReturns
    BY <1>1, <1>4, <2>2, <2>3, SubmittedUncounted, Zenon DEF Submit
  <2> QED
    BY <1>2, <2>4, Zenon
<1>5. CASE Detach \/ Executor
  BY <1>1, <1>2, <1>5, CountKept, Zenon DEF Detach, Executor
<1>6. ASSUME NEW r \in reports, Notify(r) PROVE AsyncInv' /\ NewReturns'
  <2>1. AsyncInv' /\ asyncReturns' \subseteq asyncReturns \cup {r.work}
    BY <1>1, <1>6, CountedReported, Zenon DEF Notify
  <2>2. \A w \in WorkIDs : Unused(w) => w # r.work
    BY Zenon DEF SystemInv, NewToExecutor, Fresh
  <2> QED
    BY <1>1, <2>1, <2>2, Zenon DEF NewReturns
<1> QED
  BY <1>3, <1>4, <1>5, <1>6, Zenon DEF Next, System, Client, Refuse, Lane, vars

\* inflightAsyncActions is the number of asynchronous subtasks that run or are
\* about to be counted out, and asyncLaneHandler starts none beyond
\* maxAsyncConcurrency, for any limit and any number of subtasks.
THEOREM AsyncWithinLimitHolds ==
    Spec => []AsyncWithinLimit
<1>1. Init => AsyncInv /\ NewReturns
  BY AsyncInitially, Zenon DEF Init, NewReturns
<1>2. SystemInv /\ AsyncInv /\ NewReturns /\ [Next]_vars => (AsyncInv /\ NewReturns)'
  BY CountStep, Zenon
<1>3. AsyncInv => AsyncWithinLimit
  BY Zenon DEF AsyncInv
<1> QED
  BY <1>1, <1>2, <1>3, SystemInvariant, PTL DEF Spec

-----------------------------------------------------------------------------
(***************************************************************************)
(* The executor keeps its promise.  Under InFlight, the steps of the       *)
(* system are steps of EngineOverExecutor, or change nothing there.        *)
(***************************************************************************)
\* The instance has the engine's operators under names of its own.
LEMMA SameEngine ==
    /\ EngineInit => Promise!EngineInit
    /\ ClientStep => Promise!ClientStep
    /\ LaneStep => Promise!LaneStep
    /\ SubmitAccepted => Promise!SubmitAccepted
    /\ SubmitRejected => Promise!SubmitRejected
    /\ \A x : TaskRequestAction(x) => Promise!TaskRequestAction(x)
    /\ \A ask : TaskSpawnSubtask(ask) => Promise!TaskSpawnSubtask(ask)
    /\ \A w, val : NotifyComplete(w, val) => Promise!NotifyComplete(w, val)
    /\ UNCHANGED engineVars => UNCHANGED Promise!engineVars
    /\ WorkIDs = Promise!WorkIDs
<1>. USE DEF requests, Promise!requests, waits, Promise!waits, jobs,
            Promise!jobs, builds, Promise!builds, client, Promise!client,
            engineState, Promise!engineState, TaskIDs, Promise!TaskIDs,
            WorkIDs, Promise!WorkIDs, NoID, Promise!NoID, ArtifactSid,
            Promise!ArtifactSid, RuleSid, Promise!RuleSid, ActionSid,
            Promise!ActionSid, SubtaskSid, Promise!SubtaskSid, RawID,
            Promise!RawID, Sids, Promise!Sids, NoSid, Promise!NoSid, Unset,
            Promise!Unset, Wait, Promise!Wait, Result, Promise!Result,
            Failure, Promise!Failure, Finished, Promise!Finished, Idle,
            Promise!Idle, NoWork, Promise!NoWork, NoJobs, Promise!NoJobs,
            Start, Promise!Start, Inserted, Promise!Inserted, Asking,
            Promise!Asking, Answer, Promise!Answer, RequestFails,
            Promise!RequestFails, Computed, Promise!Computed, Popped,
            Promise!Popped, Record, Promise!Record, InsertUnlessInFlight,
            Promise!InsertUnlessInFlight, Constructible,
            Promise!Constructible, Provided, Promise!Provided, Available,
            Promise!Available
<1>u. ASSUME NEW W, NEW states, NEW jobsNow, NEW workNow,
             UnblockTasks(W, states, jobsNow, workNow)
      PROVE  Promise!UnblockTasks(W, states, jobsNow, workNow)
  BY <1>u, Zenon DEF UnblockTasks, Promise!UnblockTasks, TakenSids,
              Promise!TakenSids, Handed, Promise!Handed, Repeated,
              Promise!Repeated, Reused, Promise!Reused, NotFound,
              Promise!NotFound, Throws, Promise!Throws, Input, Promise!Input,
              PrepareInput, Promise!PrepareInput, SubtasksLeft,
              Promise!SubtasksLeft
<1>1. EngineInit => Promise!EngineInit
  BY Zenon DEF EngineInit, Promise!EngineInit
<1>2. ClientStep => Promise!ClientStep
  BY Zenon DEF ClientStep, Promise!ClientStep, Shutdown, Promise!Shutdown, Build,
         Promise!Build, AddCompletionHandler, Promise!AddCompletionHandler
<1>3. LaneStep => Promise!LaneStep
  <2>1. ASSUME LaneExits PROVE Promise!LaneExits
    BY <2>1, Zenon DEF LaneExits, Promise!LaneExits
  <2>2. ASSUME ProcessTaskNextState PROVE Promise!ProcessTaskNextState
    BY <1>u, <2>2, Zenon DEF ProcessTaskNextState, Promise!ProcessTaskNextState,
                      Requested, Promise!Requested, Sound, Promise!Sound,
                      Unresolved, Promise!Unresolved, Register,
                      Promise!Register
  <2>3. ASSUME Return PROVE Promise!Return
    BY <2>3, Zenon DEF Return, Promise!Return, Returns, Promise!Returns, Batches,
                Promise!Batches
  <2>4. ASSUME RecordPending PROVE Promise!RecordPending
    BY <2>4, Zenon DEF RecordPending, Promise!RecordPending
  <2>5. ASSUME RunInitTask PROVE Promise!RunInitTask
    BY <2>5, Zenon DEF RunInitTask, Promise!RunInitTask
  <2>6. ASSUME NEW t, RunFinish(t) PROVE Promise!RunFinish(t)
    BY <1>u, <2>6, Zenon DEF RunFinish, Promise!RunFinish
  <2>7. ASSUME NEW t, RunLookup(t) PROVE Promise!RunLookup(t)
    BY <2>7, Zenon DEF RunLookup, Promise!RunLookup
  <2>8. ASSUME NEW r, RunCompute(r) PROVE Promise!RunCompute(r)
    BY <2>8, Zenon DEF RunCompute, Promise!RunCompute
  <2>9. ASSUME NEW r, TaskRequestRule(r) PROVE Promise!TaskRequestRule(r)
    BY <2>9, Zenon DEF TaskRequestRule, Promise!TaskRequestRule
  <2>10. ASSUME NEW b, RunRootInit(b) PROVE Promise!RunRootInit(b)
    BY <2>10, Zenon DEF RunRootInit, Promise!RunRootInit
  <2>11. ASSUME NEW b, RunRootRequest(b) PROVE Promise!RunRootRequest(b)
    BY <2>11, Zenon DEF RunRootRequest, Promise!RunRootRequest, SendResult,
                Promise!SendResult
  <2>12. ASSUME NEW b, RunRootResult(b) PROVE Promise!RunRootResult(b)
    BY <2>12, Zenon DEF RunRootResult, Promise!RunRootResult, SendResult,
                Promise!SendResult
  <2>13. ASSUME NEW a, TaskRequestArtifact(a) PROVE Promise!TaskRequestArtifact(a)
    BY <2>13, Zenon DEF TaskRequestArtifact, Promise!TaskRequestArtifact
  <2>14. ASSUME NEW p, RegisterRuleProvider(p) PROVE Promise!RegisterRuleProvider(p)
    BY <2>14, Zenon DEF RegisterRuleProvider, Promise!RegisterRuleProvider
  <2> QED
    BY <2>1, <2>2, <2>3, <2>4, <2>5, <2>6, <2>7, <2>8, <2>9, <2>10, <2>11,
       <2>12, <2>13, <2>14, Zenon
       DEF LaneStep, Promise!LaneStep
<1>4. SubmitAccepted => Promise!SubmitAccepted
  BY Zenon DEF SubmitAccepted, Promise!SubmitAccepted
<1>5. SubmitRejected => Promise!SubmitRejected
  BY Zenon DEF SubmitRejected, Promise!SubmitRejected
<1>6. ASSUME NEW x, TaskRequestAction(x) PROVE Promise!TaskRequestAction(x)
  BY <1>6, Zenon DEF TaskRequestAction, Promise!TaskRequestAction, BeginSubmit,
              Promise!BeginSubmit
<1>7. ASSUME NEW ask, TaskSpawnSubtask(ask) PROVE Promise!TaskSpawnSubtask(ask)
  BY <1>7, Zenon DEF TaskSpawnSubtask, Promise!TaskSpawnSubtask, BeginSubmit,
              Promise!BeginSubmit
<1>8. ASSUME NEW w, NEW val, NotifyComplete(w, val)
      PROVE  Promise!NotifyComplete(w, val)
  BY <1>u, <1>8, Zenon DEF NotifyComplete, Promise!NotifyComplete, Completed, Promise!Completed
<1>9. (UNCHANGED engineVars => UNCHANGED Promise!engineVars)
      /\ WorkIDs = Promise!WorkIDs
  BY Zenon DEF engineVars, Promise!engineVars
<1> QED
  BY <1>1, <1>2, <1>3, <1>4, <1>5, <1>6, <1>7, <1>8, <1>9, Zenon

\* The listener leaves when the engine's lane has ended.
Detached == ~listening => lane.pc = "exited"

\* No other step makes it leave, and none restarts the lane.
LEMMA DetachedKept ==
    ASSUME Detached, [Next]_vars
    PROVE  Detached'
<1>1. CASE Detach
  BY <1>1, Zenon DEF Detach, Detached, engineVars
<1>2. CASE ~Detach
  <2>1. listening' = listening
    <3>1. CASE UNCHANGED executorVars
      BY <3>1, Zenon DEF executorVars
    <3>2. CASE Submit
      BY <3>2, Zenon DEF Submit, SubmitAction, AnswerAtOnce,
          PrepareForLocalExecution, PrepareForRemoteExecution, SubmitSubtask
    <3>3. CASE Executor
      BY <3>3, Zenon DEF Executor, ExecutorStep, LocalSleep, LocalExit, LocalTake,
                  LocalFinish, AsyncSleep, AsyncExit, AsyncTake, AsyncStart,
                  AsyncRelease, AsyncCallback, RemotePrepared, RemoteDispatched,
                  RemoteResult, DestroyExecutor, JoinLocalLanes
    <3>4. CASE \E r \in reports : Notify(r)
      BY <3>4, Zenon DEF Notify, Reported
    <3> QED
      BY <1>2, <3>1, <3>2, <3>3, <3>4, Zenon DEF Next, System, Client, Lane, Refuse, vars
  <2>2. ASSUME lane.pc = "exited" PROVE lane' = lane
    BY <1>2, <2>2, StaysExited, Zenon
       DEF Next, System, Client, Lane, Refuse, Submit, Executor, Notify, vars
  <2> QED
    BY <2>1, <2>2, Zenon DEF Detached
<1> QED
  BY <1>1, <1>2, Zenon

\* A submission that is taken out and reported in one step stays in flight.
LEMMA InFlightStill ==
    ASSUME NEW w \in pending \ leaked, NEW val, NEW by,
           reports' = reports \cup {Calling(w, val, by)},
           \/ pending' = pending \ {w} /\ UNCHANGED leaked
           \/ leaked' = leaked \cup {w} /\ UNCHANGED pending
    PROVE  InFlight' = InFlight
<1>1. Calling(w, val, by).work = w
  BY Zenon DEF Calling
<1>2. {r.work : r \in reports'} = {r.work : r \in reports} \cup {w}
  BY <1>1, Zenon
<1>3. pending' \ leaked' = (pending \ leaked) \ {w}
  BY Zenon
<1> QED
  BY <1>2, <1>3, Zenon DEF InFlight

\* The executor's own steps neither begin nor end a submission's flight.
LEMMA FlightKept ==
    ASSUME ExecutorInv, NEW hasCache,
           \/ ExecutorStep(hasCache) \/ DestroyExecutor \/ JoinLocalLanes
           \/ DetachListener \/ UNCHANGED executorVars
    PROVE  InFlight' = InFlight
<1>1. CASE UNCHANGED <<pending, leaked, reports>>
  BY <1>1, Zenon DEF InFlight
<1>2. ASSUME NEW l \in Lanes, NEW val, LocalFinish(l, val, hasCache)
      PROVE  InFlight' = InFlight
  <2>1. PICK w : w = localLane[l].work
    BY Zenon
  <2>2. w \in Held /\ w \in Submissions
    BY <1>2, <2>1, LaneStates
       DEF LocalFinish, Held, ExecutorInv, ExecutorShaped, Resting
  <2>3. /\ reports' = reports \cup {Calling(w, val, "lane")}
        /\ \/ pending' = pending \ {w} /\ UNCHANGED leaked
           \/ leaked' = leaked \cup {w} /\ UNCHANGED pending
    BY <1>2, <2>1, Zenon DEF LocalFinish, ActionFinished, SubtaskFinished
  <2> QED
    BY <2>2, <2>3, StillPending, InFlightStill, Zenon
<1>3. ASSUME NEW w \in Submissions, NEW val, AsyncCallback(w, val)
      PROVE  InFlight' = InFlight
  BY <1>3, StillPending, InFlightStill, Zenon DEF AsyncCallback
<1>4. ASSUME NEW w \in Submissions, NEW val, CompleteAction(w, val),
             remoteCalls[w] # {}, UNCHANGED leaked
      PROVE  InFlight' = InFlight
  <2>1. CASE w \in pending
    BY <1>4, <2>1, StillPending, InFlightStill, Zenon DEF CompleteAction
  <2>2. CASE w \notin pending
    BY <1>4, <2>2, Zenon DEF CompleteAction, InFlight
  <2> QED
    BY <2>1, <2>2, Zenon
<1>5. ASSUME NEW w \in Submissions, NEW val,
             \/ RemotePrepared(w, val) \/ RemoteDispatched(w, val)
             \/ RemoteResult(w, val, hasCache)
      PROVE  InFlight' = InFlight
  <2>1. remoteCalls[w] # {} /\ UNCHANGED leaked
    BY <1>5, Zenon DEF RemotePrepared, RemoteDispatched, RemoteResult
  <2>2. \/ CompleteAction(w, val) \/ CompleteAction(w, "error")
        \/ UNCHANGED <<pending, reports>>
    BY <1>5, Zenon DEF RemotePrepared, RemoteDispatched, RemoteResult
  <2> QED
    BY <1>1, <1>4, <2>1, <2>2, Zenon
<1>6. CASE \/ \E l \in Lanes : LocalSleep(l) \/ LocalExit(l) \/ LocalTake(l)
           \/ AsyncSleep \/ AsyncExit \/ AsyncTake \/ AsyncStart
           \/ (\E w \in Submissions : AsyncRelease(w))
           \/ DestroyExecutor \/ JoinLocalLanes
           \/ DetachListener \/ UNCHANGED executorVars
  BY <1>1, <1>6, Zenon DEF LocalSleep, LocalExit, LocalTake, AsyncSleep, AsyncExit,
                    AsyncTake, AsyncStart, AsyncRelease, DestroyExecutor,
                    JoinLocalLanes, DetachListener, executorVars
<1> QED
  BY <1>2, <1>3, <1>5, <1>6, Zenon DEF ExecutorStep

\* submit begins the flight of the submission.
LEMMA FlightBegins ==
    ASSUME ExecutorInv, NEW w \in Submissions, Fresh(w),
           \/ \E act, hasCache, hasRemote : SubmitAction(w, act, hasCache, hasRemote)
           \/ \E kind : SubmitSubtask(w, kind)
    PROVE  InFlight' = InFlight \cup {w}
<1>1. \A val : Calling(w, val, "submit").work = w
  BY Zenon DEF Calling
<1>2. w \notin leaked
  BY Zenon DEF Fresh, ExecutorInv, Somewhere, Absent, Where
<1>3. leaked' = leaked
  BY Zenon DEF SubmitAction, AnswerAtOnce,
      PrepareForLocalExecution, PrepareForRemoteExecution, SubmitSubtask
<1>4. \/ pending' = pending \cup {w} /\ reports' = reports
      \/ /\ pending' = pending
         /\ \E val : reports' = reports \cup {Calling(w, val, "submit")}
  BY Zenon DEF SubmitAction, AnswerAtOnce,
      PrepareForLocalExecution, PrepareForRemoteExecution, SubmitSubtask
<1> QED
  BY <1>1, <1>2, <1>3, <1>4, Zenon DEF InFlight

\* The listener call ends it.
LEMMA FlightEnds ==
    ASSUME ExecutorInv, NEW r \in reports, Reported(r)
    PROVE  r.work \in InFlight /\ InFlight' = InFlight \ {r.work}
<1>1. ReportedOnce
  BY Zenon DEF ExecutorInv
<1>2. reports' = reports \ {r} /\ pending' = pending /\ leaked' = leaked
  BY Zenon DEF Reported
<1>3. r.work \notin pending \ leaked
  BY <1>1, Zenon DEF ReportedOnce
<1>4. {q.work : q \in reports'} = {q.work : q \in reports} \ {r.work}
  BY <1>1, <1>2, Zenon DEF ReportedOnce
<1> QED
  BY <1>2, <1>3, <1>4, Zenon DEF InFlight

\* Every step of the system is one of the promise, or invisible there.
LEMMA PromiseStep ==
    ASSUME SystemInv, Detached, [Next]_vars
    PROVE  Promise!Next \/ UNCHANGED Promise!vars
<1>1. CASE UNCHANGED vars
  <2>1. UNCHANGED engineVars /\ InFlight' = InFlight
    BY <1>1, Zenon DEF vars, executorVars, InFlight
  <2> QED
    BY <2>1, SameEngine, Zenon DEF Promise!vars
<1>2. CASE Next
  <2>1. ~terminated /\ Inv /\ ExecutorInv /\ NewToExecutor
    BY <1>2, Zenon DEF Next, Alive, SystemInv, IInv
  <2>2. CASE Client \/ Lane \/ Refuse
    <3>1. InFlight' = InFlight
      BY <2>1, <2>2, FlightKept, Zenon DEF Client, Lane, Refuse
    <3>2. \/ Promise!ClientStep \/ Promise!LaneStep \/ Promise!SubmitRejected
          \/ \E x \in Actions : Promise!TaskRequestAction(x)
          \/ \E t \in Rules : \E ask \in wants[t] : Promise!TaskSpawnSubtask(ask)
      BY <2>2, SameEngine, Zenon DEF Client, Lane, Refuse
    <3> QED
      BY <2>1, <3>1, <3>2, Zenon DEF Promise!Next
  <2>3. CASE Submit
    <3>1. SubmitAccepted
      BY <2>3, Zenon DEF Submit
    <3>2. lane.work \in WorkIDs /\ Fresh(lane.work)
      BY <2>1, <3>1, Zenon DEF SubmitAccepted, Inv, Submitting, NewToExecutor, Unused
    <3>3. InFlight' = InFlight \cup {lane.work}
      BY <2>1, <2>3, <3>2, FlightBegins, SameNumbers, Zenon DEF Submit
    <3> QED
      BY <2>1, <3>1, <3>3, SameEngine, Zenon DEF Promise!Next, Promise!Accept
  <2>4. CASE Detach \/ Executor
    <3>1. InFlight' = InFlight /\ UNCHANGED engineVars
      BY <2>1, <2>4, FlightKept, Zenon DEF Detach, Executor
    <3> QED
      BY <3>1, SameEngine, Zenon DEF Promise!vars
  <2>5. ASSUME NEW r \in reports, Notify(r) PROVE Promise!Next
    <3>1. r.work \in WorkIDs /\ r.val \in {"value", "error"}
      BY <2>1, SameNumbers, Zenon DEF ExecutorInv, ExecutorShaped, Reports
    <3>2. r.work \in InFlight /\ InFlight' = InFlight \ {r.work}
      BY <2>1, <2>5, FlightEnds, Zenon DEF Notify
    <3>3. CASE NotifyComplete(r.work, r.val)
      BY <2>1, <3>1, <3>2, <3>3, SameEngine, Zenon DEF Promise!Next, Promise!Report
    <3>4. CASE ~listening /\ UNCHANGED engineVars
      <4>1. lane.pc = "exited"
        BY <3>4, Zenon DEF Detached
      <4> QED
        BY <2>1, <3>1, <3>2, <3>4, <4>1, SameEngine, Zenon DEF Promise!Next, Promise!Drop
    <3> QED
      BY <2>5, <3>3, <3>4, Zenon DEF Notify
  <2> QED
    BY <1>2, <2>2, <2>3, <2>4, <2>5, Zenon DEF Next, System
<1> QED
  BY <1>1, <1>2, Zenon

\* The executor implements what the engine's own proofs assume of one:
\* whatever its lanes, its cache, its destructor and the callbacks of the
\* remote executor do, an accepted submission is reported to the listener
\* exactly once, or dropped once the engine's lane has ended.
THEOREM ExecutorKeepsPromiseHolds ==
    Spec => ExecutorKeepsPromise
<1>1. Init => Promise!Init
  <2>1. Init => InFlight = {}
    BY Zenon DEF Init, ExecutorInit, InFlight
  <2> QED
    BY <2>1, SameEngine, Zenon DEF Init, Promise!Init
<1>2. Init => Detached
  BY Zenon DEF Init, ExecutorInit, Detached
<1>3. Detached /\ [Next]_vars => Detached'
  BY DetachedKept, Zenon
<1>4. SystemInv /\ Detached /\ [Next]_vars => [Promise!Next]_(Promise!vars)
  BY PromiseStep, Zenon
<1> QED
  BY <1>1, <1>2, <1>3, <1>4, SystemInvariant, PTL
     DEF Spec, ExecutorKeepsPromise, Promise!Spec
==============================================================================
