--------------------------- MODULE TaskEngineProofs ---------------------------
(***************************************************************************)
(* No step of the builra3 engine loses a task or queues one twice, for any *)
(* rules, providers and clients, whatever its executor reports.            *)
(*                                                                         *)
(* The invariant the runs check, OneActivation, is not inductive.  That a  *)
(* blocked task leaves its wait exactly once needs to know that it will be *)
(* told (BlockedTasksAreTold), and that what it waits for cannot be taken  *)
(* from it: an entry of stableIDMap belongs to the task that made it.      *)
(***************************************************************************)
EXTENDS TaskEngine, TLAPS

-----------------------------------------------------------------------------
(***************************************************************************)
(* The inductive invariant.                                                *)
(***************************************************************************)
Jobs == [compute : Nat, lookup : Nat, finish : Nat]

LaneShaped ==
    /\ lane = [pc |-> lane.pc, task |-> lane.task, next |-> lane.next,
               work |-> lane.work, ask |-> lane.ask, asked |-> lane.asked,
               replay |-> lane.replay]
    /\ lane.task \in TaskIDs
    /\ lane.next.ids \in Seq(Sids)
    /\ lane.pc \in {"compute", "submit", "record"} => lane.task \in Rules

WorkRecords == [kind : {"none", "action", "subtask"}, task : TaskIDs,
                sid : Sids \cup {NoSid}, status : WorkStatus,
                val : {"none", "value", "error"}]

Shaped ==
    /\ taskInfos \subseteq TaskIDs
    /\ providers \subseteq Providers
    /\ stableIDMap \in [TaskIDs -> [Sids -> TaskIDs \cup WorkIDs \cup {NoID}]]
    /\ requestedBy \in [TaskIDs -> SUBSET TaskIDs]
    /\ waitingOn \in [TaskIDs -> SUBSET (TaskIDs \cup WorkIDs)]
    /\ nextState = [t \in TaskIDs |-> nextState[t]]
    /\ \A t \in TaskIDs : nextState[t].ids \in Seq(Sids)
    /\ nextWork \in 0 .. MaxWork
    /\ work \in [WorkIDs -> WorkRecords]
    /\ ready \in [TaskIDs -> Jobs]
    /\ held \in [Rules -> SUBSET Sids]
    /\ LaneShaped

\* The places a task can be in.
In(t, compute, lookup, run, wait, fin) ==
    /\ ready[t].compute = compute /\ ready[t].lookup = lookup
    /\ Running(t) <=> run
    /\ waitingOn[t] # {} <=> wait
    /\ Finished(nextState[t]) <=> fin

Nowhere(t) == In(t, 0, 0, FALSE, FALSE, FALSE)
ToCompute(t) == In(t, 1, 0, FALSE, FALSE, FALSE)
ToLookUp(t) == In(t, 0, 1, FALSE, FALSE, FALSE)
OnLane(t) == In(t, 0, 0, TRUE, FALSE, FALSE)
Blocked(t) == In(t, 0, 0, FALSE, TRUE, FALSE)
Over(t) == In(t, 0, 0, FALSE, FALSE, TRUE)

Placed(t) ==
    /\ t \in taskInfos => \/ ToCompute(t) \/ ToLookUp(t) \/ OnLane(t)
                          \/ Blocked(t) \/ Over(t)
    /\ t \notin taskInfos => Nowhere(t)
    /\ ready[t].finish = 0 \/ (ready[t].finish = 1 /\ Over(t))

Told(t, x) ==
    \/ /\ x \in taskInfos /\ t \in requestedBy[x]
       /\ Finished(nextState[x]) => ready[x].finish = 1
    \/ x \in WorkIDs /\ work[x].task = t /\ work[x].status = "pending"

\* An entry of stableIDMap leads to a task in flight, or to a submission of
\* the task that made the entry, which was recorded.
Owned(t, s) ==
    LET id == stableIDMap[t][s]
    IN  /\ id \in TaskIDs => id \in taskInfos
        /\ id \in WorkIDs => /\ work[id].task = t
                             /\ work[id].status \in {"pending", "done", "erased"}

\* The submission the lane is making is the lane's task's, and not recorded.
Submitting ==
    /\ lane.pc \in {"submit", "record"} =>
          /\ lane.work \in WorkIDs /\ lane.work <= nextWork
          /\ work[lane.work].task = lane.task
          /\ work[lane.work].sid \in Sids
    /\ lane.pc = "submit" => work[lane.work].status = "submitted"
    /\ \A w \in WorkIDs : w > nextWork => work[w].status = "unused"

Inv ==
    /\ Shaped
    /\ \A t \in TaskIDs : Placed(t)
    /\ \A t \in TaskIDs : \A x \in waitingOn[t] : Told(t, x)
    /\ \A t \in TaskIDs, s \in Sids : Owned(t, s)
    /\ Submitting

IInv == ~terminated => Inv

-----------------------------------------------------------------------------
(***************************************************************************)
(* Moving a task from one place to another.                                *)
(***************************************************************************)
\* The jobs, the wait, the finished state of a task, and whether it has been
\* inserted, stay as they are.
SameJobs(t) == /\ ready'[t].compute = ready[t].compute
               /\ ready'[t].lookup = ready[t].lookup
               /\ ready'[t].finish = ready[t].finish
SameWait(t) == (waitingOn[t] # {})' <=> waitingOn[t] # {}
SameState(t) == Finished(nextState[t])' <=> Finished(nextState[t])
SameInfo(t) == t \in taskInfos' <=> t \in taskInfos
SameRun(t) == Running(t)' <=> Running(t)

\* Nothing about the task changes.
LEMMA Elsewhere ==
    ASSUME NEW t, Placed(t),
           SameInfo(t), SameJobs(t), SameRun(t), SameWait(t), SameState(t)
    PROVE  Placed(t)'
  BY Zenon DEF Placed, In, Nowhere, ToCompute, ToLookUp, OnLane, Blocked, Over,
         SameInfo, SameJobs, SameRun, SameWait, SameState

\* insertTask: a task that was nowhere is queued.
LEMMA Inserting ==
    ASSUME NEW t, Placed(t), t \notin taskInfos, t \in taskInfos',
           ready'[t].compute = ready[t].compute + 1,
           ready'[t].lookup = ready[t].lookup,
           ready'[t].finish = ready[t].finish,
           SameRun(t), SameWait(t), SameState(t)
    PROVE  Placed(t)'
<1>1. Nowhere(t) /\ ready[t].finish = 0
  BY Zenon DEF Placed, Nowhere, Over, In
<1>2. ToCompute(t)'
  BY <1>1 DEF Nowhere, ToCompute, In, SameRun, SameWait, SameState
<1> QED
  BY <1>1, <1>2, Zenon DEF Placed

\* What a place says of the jobs that can be taken from it.
LEMMA Standing ==
    ASSUME NEW t, Placed(t), ready[t] \in Jobs
    PROVE  /\ ready[t].compute > 0 => t \in taskInfos /\ ToCompute(t)
           /\ ready[t].lookup > 0 => t \in taskInfos /\ ToLookUp(t)
           /\ Running(t) => t \in taskInfos /\ OnLane(t)
           /\ waitingOn[t] # {} => t \in taskInfos /\ Blocked(t)
           /\ ready[t].finish > 0 => /\ t \in taskInfos /\ Over(t)
                                     /\ ready[t].finish = 1
           /\ ~Finished(nextState[t]) => ready[t].finish = 0
  BY DEF Placed, Jobs, In, Nowhere, ToCompute, ToLookUp, OnLane, Blocked, Over

\* The idle lane takes a computation of the task, or a lookup that hits.
LEMMA PickingUp ==
    ASSUME NEW t, Placed(t), ready[t] \in Jobs, Running(t)',
           \/ /\ ready[t].compute > 0
              /\ ready'[t].compute = ready[t].compute - 1
              /\ ready'[t].lookup = ready[t].lookup
           \/ /\ ready[t].lookup > 0
              /\ ready'[t].lookup = ready[t].lookup - 1
              /\ ready'[t].compute = ready[t].compute,
           ready'[t].finish = ready[t].finish,
           SameInfo(t), SameWait(t), SameState(t)
    PROVE  Placed(t)'
<1>1. t \in taskInfos /\ (ToCompute(t) \/ ToLookUp(t)) /\ ready[t].finish = 0
  BY Standing, Zenon DEF ToCompute, ToLookUp, In
<1>2. OnLane(t)'
  BY <1>1 DEF ToCompute, ToLookUp, OnLane, In, SameWait, SameState
<1> QED
  BY <1>1, <1>2, Zenon DEF Placed, SameInfo

\* A lookup misses.
LEMMA Missing ==
    ASSUME NEW t, Placed(t), ready[t] \in Jobs, ready[t].lookup > 0,
           ready'[t].compute = ready[t].compute + 1,
           ready'[t].lookup = ready[t].lookup - 1,
           ready'[t].finish = ready[t].finish,
           SameInfo(t), SameRun(t), SameWait(t), SameState(t)
    PROVE  Placed(t)'
<1>1. t \in taskInfos /\ ToLookUp(t) /\ ready[t].finish = 0
  BY Standing, Zenon DEF ToLookUp, In
<1>2. ToCompute(t)'
  BY <1>1 DEF ToCompute, ToLookUp, In, SameRun, SameWait, SameState
<1> QED
  BY <1>1, <1>2, Zenon DEF Placed, SameInfo

\* The task is queued again: for computation, for a lookup, or to finish as
\* failed.
Requeued(t) ==
    \/ /\ ready'[t].compute = ready[t].compute + 1
       /\ ready'[t].lookup = ready[t].lookup
       /\ ready'[t].finish = ready[t].finish
       /\ SameState(t)
    \/ /\ ready'[t].lookup = ready[t].lookup + 1
       /\ ready'[t].compute = ready[t].compute
       /\ ready'[t].finish = ready[t].finish
       /\ SameState(t)
    \/ /\ ready'[t].finish = ready[t].finish + 1
       /\ ready'[t].compute = ready[t].compute
       /\ ready'[t].lookup = ready[t].lookup
       /\ Finished(nextState[t])'

\* A task that was on the lane or waited, and does so no longer, is where it
\* was queued.
LEMMA Queueing ==
    ASSUME NEW t, Placed(t), ready[t] \in Jobs, OnLane(t) \/ Blocked(t),
           t \in taskInfos, t \in taskInfos',
           ~Running(t)', waitingOn'[t] = {}, Requeued(t)
    PROVE  Placed(t)'
<1>1. ready[t].finish = 0 /\ ready[t].compute = 0 /\ ready[t].lookup = 0
      /\ ~Finished(nextState[t])
  BY Zenon DEF Placed, OnLane, Blocked, Over, In
<1>2. CASE /\ ready'[t].compute = 1 /\ ready'[t].lookup = 0
           /\ ready'[t].finish = 0 /\ SameState(t)
  BY <1>1, <1>2, Zenon DEF Placed, ToCompute, In, SameState
<1>3. CASE /\ ready'[t].compute = 0 /\ ready'[t].lookup = 1
           /\ ready'[t].finish = 0 /\ SameState(t)
  BY <1>1, <1>3, Zenon DEF Placed, ToLookUp, In, SameState
<1>4. CASE /\ ready'[t].compute = 0 /\ ready'[t].lookup = 0
           /\ ready'[t].finish = 1 /\ Finished(nextState[t])'
  BY <1>1, <1>4, Zenon DEF Placed, Over, In
<1> QED
  BY <1>1, <1>2, <1>3, <1>4 DEF Requeued

\* The lane lets its task wait.
LEMMA Blocking ==
    ASSUME NEW t, Placed(t), ready[t] \in Jobs, OnLane(t), t \in taskInfos,
           t \in taskInfos', ~Running(t)', waitingOn'[t] # {},
           SameJobs(t), SameState(t)
    PROVE  Placed(t)'
<1>1. Blocked(t)' /\ ready[t].finish = 0
  BY Zenon DEF Placed, OnLane, Blocked, Over, In, SameJobs, SameState
<1> QED
  BY <1>1, Zenon DEF Placed, SameJobs

\* The finish job has run.
LEMMA Finishing ==
    ASSUME NEW t, Placed(t), ready[t] \in Jobs, ready[t].finish > 0,
           ready'[t].finish = ready[t].finish - 1,
           ready'[t].compute = ready[t].compute,
           ready'[t].lookup = ready[t].lookup,
           SameInfo(t), SameRun(t), SameWait(t), SameState(t)
    PROVE  Placed(t)'
<1>1. t \in taskInfos /\ Over(t) /\ ready[t].finish = 1
  BY Standing, Zenon
<1>2. Over(t)' /\ ready'[t].finish = 0
  BY <1>1 DEF Over, In, SameRun, SameWait, SameState
<1> QED
  BY <1>1, <1>2, Zenon DEF Placed, SameInfo

-----------------------------------------------------------------------------
(***************************************************************************)
(* Steps that only queue jobs, insert tasks and move the lane.             *)
(***************************************************************************)
\* A step that leaves the waits and the submissions alone keeps the invariant
\* if it keeps every task in its place.
LEMMA JobStep ==
    ASSUME Inv, UNCHANGED <<waits, work, nextWork>>,
           taskInfos \subseteq taskInfos', taskInfos' \subseteq TaskIDs,
           providers' \subseteq Providers,
           ready' \in [TaskIDs -> Jobs],
           \A t \in TaskIDs : ready'[t].finish = ready[t].finish,
           stableIDMap' \in [TaskIDs -> [Sids -> TaskIDs \cup WorkIDs \cup {NoID}]],
           \A t \in TaskIDs, s \in Sids :
               \/ stableIDMap'[t][s] = stableIDMap[t][s]
               \/ stableIDMap'[t][s] \in taskInfos',
           held' \in [Rules -> SUBSET Sids],
           LaneShaped',
           lane' = lane \/ lane'.pc \notin {"submit", "record"},
           \A t \in TaskIDs : Placed(t)'
    PROVE  Inv'
<1>1. Shaped'
  BY Zenon DEF Inv, Shaped, waits
<1>2. ASSUME NEW t \in TaskIDs, NEW x \in waitingOn'[t]
      PROVE  Told(t, x)'
  <2>1. Told(t, x)
    BY <1>2, Zenon DEF Inv, waits
  <2>2. x \in taskInfos => x \in TaskIDs
    BY Zenon DEF Inv, Shaped
  <2> QED
    BY <2>1, <2>2, Zenon DEF Told, waits
<1>3. ASSUME NEW t \in TaskIDs, NEW s \in Sids
      PROVE  Owned(t, s)'
  <2>1. Owned(t, s)
    BY Zenon DEF Inv
  <2>2. \A x \in taskInfos' : x \notin WorkIDs
    BY TaskEngineAssumption DEF WorkIDs
  <2> QED
    BY <2>1, <2>2, Zenon DEF Owned
<1>4. Submitting'
  BY Zenon DEF Inv, Submitting
<1> QED
  BY <1>1, <1>2, <1>3, <1>4, Zenon DEF Inv

\* What the other steps know of a state that satisfies the invariant.
LEMMA Known ==
    ASSUME Inv
    PROVE  /\ taskInfos \subseteq TaskIDs /\ providers \subseteq Providers
           /\ stableIDMap \in [TaskIDs -> [Sids -> TaskIDs \cup WorkIDs \cup {NoID}]]
           /\ ready \in [TaskIDs -> Jobs]
           /\ held \in [Rules -> SUBSET Sids]
           /\ LaneShaped
           /\ \A t \in TaskIDs : Placed(t)
  BY Zenon DEF Inv, Shaped

\* Tasks and stable IDs are what TaskIDs and Sids list.
LEMMA Typed ==
    /\ Rules \subseteq TaskIDs /\ Builds \subseteq TaskIDs /\ InitTask \in TaskIDs
    /\ \A a \in Artifacts : ArtifactSid(a) \in Sids
    /\ \A r \in Rules : RuleSid(r) \in Sids /\ RawID(r) \in Sids
    /\ RuleSid(InitTask) \in Sids
    /\ \A x \in Actions : ActionSid(x) \in Sids
    /\ \A w \in WorkIDs : SubtaskSid(w) \in Sids
  BY Zenon DEF TaskIDs, Sids

\* insertTask, on jobs from which another task's may just have been popped.
LEMMA InsertedJobs ==
    ASSUME NEW J \in [TaskIDs -> Jobs], NEW r \in TaskIDs
    PROVE  /\ Inserted(J, r) \in [TaskIDs -> Jobs]
           /\ \A t \in TaskIDs \ {r} : Inserted(J, r)[t] = J[t]
           /\ Inserted(J, r)[r].compute = J[r].compute + 1
           /\ Inserted(J, r)[r].lookup = J[r].lookup
           /\ Inserted(J, r)[r].finish = J[r].finish
  BY DEF Inserted, Jobs

\* The lane takes one computation off the queue.
LEMMA PoppedJobs ==
    ASSUME ready \in [TaskIDs -> Jobs], NEW r \in TaskIDs, ready[r].compute > 0
    PROVE  /\ Popped(r) \in [TaskIDs -> Jobs]
           /\ \A t \in TaskIDs \ {r} : Popped(r)[t] = ready[t]
           /\ Popped(r)[r].compute = ready[r].compute - 1
           /\ Popped(r)[r].lookup = ready[r].lookup
           /\ Popped(r)[r].finish = ready[r].finish
  BY DEF Popped, Jobs

\* A task may be inserted; nothing else moves.
LEMMA InsertStep ==
    ASSUME Inv, UNCHANGED waits, \A t \in TaskIDs : SameRun(t),
           \/ UNCHANGED <<taskInfos, ready>>
           \/ \E r \in TaskIDs : InsertUnlessInFlight(r, ready)
    PROVE  /\ taskInfos \subseteq taskInfos' /\ taskInfos' \subseteq TaskIDs
           /\ ready' \in [TaskIDs -> Jobs]
           /\ \A t \in TaskIDs : ready'[t].finish = ready[t].finish
           /\ \A t \in TaskIDs : Placed(t)'
<1>. USE Known
<1>1. \A t \in TaskIDs : SameWait(t) /\ SameState(t)
  BY Zenon DEF waits, SameWait, SameState
<1>2. CASE UNCHANGED <<taskInfos, ready>>
  BY <1>1, <1>2, Elsewhere, Zenon DEF SameInfo, SameJobs
<1>3. ASSUME NEW r \in TaskIDs, InsertUnlessInFlight(r, ready), r \notin taskInfos
      PROVE  /\ taskInfos \subseteq taskInfos' /\ taskInfos' \subseteq TaskIDs
             /\ ready' \in [TaskIDs -> Jobs]
             /\ \A t \in TaskIDs : ready'[t].finish = ready[t].finish
             /\ \A t \in TaskIDs : Placed(t)'
  <2>1. taskInfos' = taskInfos \cup {r} /\ ready' = Inserted(ready, r)
    BY <1>3, Zenon DEF InsertUnlessInFlight
  <2>2. Placed(r)'
    <3>1. /\ ready'[r].compute = ready[r].compute + 1
          /\ ready'[r].lookup = ready[r].lookup
          /\ ready'[r].finish = ready[r].finish
          /\ r \in taskInfos'
      BY <2>1, InsertedJobs, Zenon
    <3> QED
      BY ONLY <3>1, <1>1, <1>3, Known, Inv, Inserting,
              \A t \in TaskIDs : SameRun(t), Zenon
  <2>3. ASSUME NEW t \in TaskIDs \ {r} PROVE Placed(t)'
    <3>1. SameInfo(t) /\ SameJobs(t)
      BY <2>1, InsertedJobs, Zenon DEF SameInfo, SameJobs
    <3> QED
      BY <3>1, <1>1, Elsewhere, Zenon
  <2>4. /\ ready' \in [TaskIDs -> Jobs]
        /\ \A t \in TaskIDs : ready'[t].finish = ready[t].finish
    <3>1. /\ ready' \in [TaskIDs -> Jobs]
          /\ \A t \in TaskIDs \ {r} : ready'[t] = ready[t]
          /\ ready'[r].finish = ready[r].finish
      BY <2>1, InsertedJobs, Zenon
    <3> QED
      BY ONLY <3>1, Zenon
  <2> QED
    BY <2>1, <2>2, <2>3, <2>4, Zenon
<1>4. ASSUME NEW r \in TaskIDs, InsertUnlessInFlight(r, ready), r \in taskInfos
      PROVE  UNCHANGED <<taskInfos, ready>>
  BY <1>4, Zenon DEF InsertUnlessInFlight
<1> QED
  BY <1>2, <1>3, <1>4, Zenon

\* The idle lane takes a computation of b, and may insert a task.
LEMMA PopStep ==
    ASSUME Inv, UNCHANGED waits, NEW b \in TaskIDs, ready[b].compute > 0,
           lane.pc = "idle", lane'.task = b,
           lane'.pc \in {"compute", "next", "hung"},
           \/ taskInfos' = taskInfos /\ ready' = Popped(b)
           \/ \E r \in TaskIDs : InsertUnlessInFlight(r, Popped(b))
    PROVE  /\ taskInfos \subseteq taskInfos' /\ taskInfos' \subseteq TaskIDs
           /\ ready' \in [TaskIDs -> Jobs]
           /\ \A t \in TaskIDs : ready'[t].finish = ready[t].finish
           /\ \A t \in TaskIDs : Placed(t)'
<1>. USE Known, PoppedJobs
<1>1. \A t \in TaskIDs : SameWait(t) /\ SameState(t)
  BY Zenon DEF waits, SameWait, SameState
<1>2. Running(b)' /\ ~Running(b) /\ \A t \in TaskIDs \ {b} : SameRun(t)
  BY Zenon DEF Running, SameRun
<1>3. b \in taskInfos
  BY Standing, Zenon
<1>4. ASSUME taskInfos' = taskInfos, ready' = Popped(b)
      PROVE  /\ ready' \in [TaskIDs -> Jobs]
             /\ \A t \in TaskIDs : ready'[t].finish = ready[t].finish
             /\ \A t \in TaskIDs : Placed(t)'
  <2>1. Placed(b)'
    BY <1>1, <1>2, <1>4, PickingUp, Zenon DEF SameInfo
  <2>2. ASSUME NEW t \in TaskIDs \ {b} PROVE Placed(t)'
    BY <1>1, <1>2, <1>4, Elsewhere, Zenon DEF SameInfo, SameJobs
  <2> QED
    BY <1>4, <2>1, <2>2, Zenon
<1>5. ASSUME NEW r \in TaskIDs, InsertUnlessInFlight(r, Popped(b)), r \notin taskInfos
      PROVE  /\ taskInfos \subseteq taskInfos' /\ taskInfos' \subseteq TaskIDs
             /\ ready' \in [TaskIDs -> Jobs]
             /\ \A t \in TaskIDs : ready'[t].finish = ready[t].finish
             /\ \A t \in TaskIDs : Placed(t)'
  <2>1. taskInfos' = taskInfos \cup {r} /\ ready' = Inserted(Popped(b), r)
    BY <1>5, Zenon DEF InsertUnlessInFlight
  <2>2. r # b
    BY <1>3, <1>5, Zenon
  <2>0. /\ ready' \in [TaskIDs -> Jobs]
        /\ \A t \in TaskIDs \ {b, r} : ready'[t] = ready[t]
        /\ ready'[r].compute = ready[r].compute + 1
        /\ ready'[r].lookup = ready[r].lookup
        /\ ready'[r].finish = ready[r].finish
        /\ ready'[b].compute = ready[b].compute - 1
        /\ ready'[b].lookup = ready[b].lookup
        /\ ready'[b].finish = ready[b].finish
    <3>1. Popped(b) \in [TaskIDs -> Jobs]
      BY Zenon
    <3>2. /\ ready' \in [TaskIDs -> Jobs]
          /\ \A t \in TaskIDs \ {r} : ready'[t] = Popped(b)[t]
          /\ ready'[r].compute = Popped(b)[r].compute + 1
          /\ ready'[r].lookup = Popped(b)[r].lookup
          /\ ready'[r].finish = Popped(b)[r].finish
      BY ONLY <2>1, <3>1, r \in TaskIDs, InsertedJobs, Zenon
    <3>3. Popped(b)[r] = ready[r] /\ ready'[b] = Popped(b)[b]
      BY <2>2, <3>2, Zenon
    <3>4. \A t \in TaskIDs \ {b, r} : ready'[t] = ready[t]
      BY <3>2
    <3> QED
      BY <3>2, <3>3, <3>4
  <2>3. Placed(r)'
    <3>1. Placed(r) /\ SameRun(r) /\ r \in taskInfos' /\ r \notin taskInfos
      BY <2>1, <2>2, <1>2, <1>5, Zenon
    <3> QED
      BY ONLY <2>0, <3>1, <1>1, Inserting, r \in TaskIDs, Zenon
  <2>4. Placed(b)'
    <3>1. Placed(b) /\ SameInfo(b) /\ ready[b] \in Jobs
      BY <2>1, <2>2, Zenon DEF SameInfo
    <3> QED
      BY ONLY <2>0, <3>1, <1>1, <1>2, PickingUp, b \in TaskIDs,
              ready[b].compute > 0, Zenon
  <2>5. ASSUME NEW t \in TaskIDs \ {b, r} PROVE Placed(t)'
    <3>1. Placed(t) /\ SameInfo(t) /\ SameJobs(t)
      BY <2>0, <2>1, Zenon DEF SameInfo, SameJobs
    <3> QED
      BY ONLY <3>1, <1>1, <1>2, Elsewhere, t \in TaskIDs \ {b, r}, Zenon
  <2>6. \A t \in TaskIDs : ready'[t].finish = ready[t].finish
    BY <2>0, Zenon
  <2> QED
    BY <2>0, <2>1, <2>3, <2>4, <2>5, <2>6, Zenon
<1>6. ASSUME NEW r \in TaskIDs, InsertUnlessInFlight(r, Popped(b)), r \in taskInfos
      PROVE  taskInfos' = taskInfos /\ ready' = Popped(b)
  BY <1>6, Zenon DEF InsertUnlessInFlight
<1> QED
  BY <1>4, <1>5, <1>6, Zenon

-----------------------------------------------------------------------------
(***************************************************************************)
(* The lane.                                                               *)
(***************************************************************************)
\* The states a computation may return, or the engine may set.
LEMMA StatesShaped ==
    /\ Unset.ids \in Seq(Sids) /\ Failure.ids \in Seq(Sids)
    /\ \A arts : Result(arts).ids \in Seq(Sids)
    /\ \A ids \in Seq(Sids) : \A ctx : Wait(ids, ctx).ids \in Seq(Sids)
    /\ Finished(Failure) /\ ~Finished(Unset)
    /\ \A ids, ctx : ~Finished(Wait(ids, ctx))
  BY DEF Unset, Failure, Result, Wait, Finished

\* The lane is done with its task.
LEMMA LaneIdle ==
    ASSUME lane' = Idle
    PROVE  LaneShaped' /\ lane'.pc = "idle" /\ \A t : ~Running(t)'
  BY StatesShaped, Typed, Zenon DEF LaneShaped, Idle, Running

\* The lane enters the client's code, for a computation or a replay.
LEMMA LaneComputes ==
    ASSUME NEW t \in TaskIDs, NEW p, NEW replay,
           p \in {"compute", "submit", "record"} => t \in Rules,
           lane' = [Idle EXCEPT !.pc = p, !.task = t, !.replay = replay]
    PROVE  LaneShaped' /\ lane'.pc = p /\ lane'.task = t
  BY StatesShaped, Zenon DEF LaneShaped, Idle

\* The lane takes up a task.
LEMMA LanePlain ==
    ASSUME NEW t \in TaskIDs, NEW p,
           p \in {"compute", "submit", "record"} => t \in Rules,
           lane' = [Idle EXCEPT !.pc = p, !.task = t]
    PROVE  LaneShaped' /\ lane'.pc = p /\ lane'.task = t
  BY StatesShaped, Zenon DEF LaneShaped, Idle

\* The lane has the state a computation returned.
LEMMA LaneReturns ==
    ASSUME NEW t \in TaskIDs, NEW next, next.ids \in Seq(Sids),
           lane' = [Idle EXCEPT !.pc = "next", !.task = t, !.next = next]
    PROVE  /\ LaneShaped' /\ lane'.pc = "next" /\ lane'.task = t
           /\ lane'.next = next
  BY Zenon DEF LaneShaped, Idle

\* Record keeps the map, or enters the task r.
LEMMA Recording ==
    ASSUME Inv, NEW t \in TaskIDs, NEW r \in TaskIDs, NEW sid, Record(t, r, sid)
    PROVE  /\ stableIDMap' \in [TaskIDs -> [Sids -> TaskIDs \cup WorkIDs \cup {NoID}]]
           /\ \A u \in TaskIDs, s \in Sids :
                 \/ stableIDMap'[u][s] = stableIDMap[u][s]
                 \/ stableIDMap'[u][s] = r
  BY Known, Zenon DEF Record

\* A task that was asked for is in flight.
LEMMA InFlightThen ==
    ASSUME NEW r, NEW J, InsertUnlessInFlight(r, J)
    PROVE  r \in taskInfos'
  BY Zenon DEF InsertUnlessInFlight

\* Engine::build inserts a root task.
LEMMA Building ==
    ASSUME Inv, NEW b \in Builds, Build(b)
    PROVE  Inv'
<1>1. InsertUnlessInFlight(b, ready)
  BY Zenon DEF Build, InsertUnlessInFlight
<1>2. UNCHANGED <<waits, work, nextWork, stableIDMap, held, lane, providers>>
  BY Zenon DEF Build, requests, client, engineState
<1>3. b \in TaskIDs /\ \A t \in TaskIDs : SameRun(t)
  BY <1>2, Typed, Zenon DEF SameRun, Running
<1>4. LaneShaped'
  BY <1>2, Known, Zenon DEF LaneShaped
<1> QED
  BY <1>1, <1>2, <1>3, <1>4, InsertStep, JobStep, Known, Zenon

\* Steps of the client and the lane that queue nothing.
LEMMA Bystanding ==
    ASSUME Inv, UNCHANGED <<taskInfos, waits, work, nextWork, ready,
                            stableIDMap, held>>,
           providers' \subseteq Providers,
           LaneShaped', \A t \in TaskIDs : SameRun(t),
           lane' = lane \/ lane'.pc \notin {"submit", "record"}
    PROVE  Inv'
  BY InsertStep, JobStep, Known, Zenon

\* build, addCompletionHandler and the destructor keep the invariant.
LEMMA ClientKeeps ==
    ASSUME Inv, ClientStep
    PROVE  Inv'
<1>1. CASE Shutdown
  <2>1. UNCHANGED <<taskInfos, waits, work, nextWork, ready, stableIDMap,
                    held, lane, providers>>
    BY <1>1, Zenon DEF Shutdown, requests, jobs, client
  <2>2. LaneShaped' /\ \A t \in TaskIDs : SameRun(t)
    BY <2>1, Known, Zenon DEF LaneShaped, SameRun, Running
  <2> QED
    BY <2>1, <2>2, Known, Bystanding, Zenon
<1>2. ASSUME NEW b \in Builds, Build(b) PROVE Inv'
  BY <1>2, Building, Zenon
<1>3. ASSUME NEW b \in Builds, NEW h \in Handlers, AddCompletionHandler(b, h)
      PROVE  Inv'
  <2>1. UNCHANGED <<taskInfos, waits, work, nextWork, ready, stableIDMap,
                    held, lane, providers>>
    BY <1>3, Zenon DEF AddCompletionHandler, requests, jobs, client, engineState
  <2>2. LaneShaped' /\ \A t \in TaskIDs : SameRun(t)
    BY <2>1, Known, Zenon DEF LaneShaped, SameRun, Running
  <2> QED
    BY <2>1, <2>2, Known, Bystanding, Zenon
<1> QED
  BY <1>1, <1>2, <1>3, Zenon DEF ClientStep

\* The end of executeLane moves no task.
LEMMA Leaving ==
    ASSUME Inv, LaneExits
    PROVE  Inv'
<1>1. UNCHANGED <<taskInfos, waits, work, nextWork, ready, stableIDMap, held,
                  providers>>
  BY Zenon DEF LaneExits, requests, jobs, client, engineState
<1>2. /\ LaneShaped' /\ lane'.pc = "exited"
      /\ \A t \in TaskIDs : SameRun(t)
  BY Known, Zenon DEF LaneExits, LaneShaped, SameRun, Running
<1> QED
  BY <1>1, <1>2, Known, Bystanding, Zenon

\* What a computation waits for was given to it.
LEMMA BatchesShaped ==
    ASSUME held \in [Rules -> SUBSET Sids], NEW t \in Rules, NEW ids \in Batches(t)
    PROVE  ids \in Seq(Sids)
<1>1. PICK n \in 1 .. MaxBatch : ids \in [1 .. n -> held[t]]
  BY Zenon DEF Batches
<1>2. n \in Nat /\ held[t] \subseteq Sids
  BY TaskEngineAssumption
<1>3. ids \in [1 .. n -> Sids]
  BY <1>1, <1>2, Zenon
<1> QED
  BY <1>2, <1>3

\* A computation returns: its task stays on the lane.
LEMMA Returning ==
    ASSUME Inv, Return
    PROVE  Inv'
<1>1. UNCHANGED <<taskInfos, waits, work, nextWork, ready, stableIDMap, held,
                  providers>>
  BY Zenon DEF Return, requests, jobs, client, engineState
<1>2. lane.task \in Rules /\ lane.task \in TaskIDs
  BY Known, Zenon DEF Return, LaneShaped
<1>3. ASSUME NEW next, Returns(next), next.ids \in Seq(Sids)
      PROVE  LaneShaped' /\ lane'.pc = "next" /\ lane'.task = lane.task
  BY <1>2, <1>3, LaneReturns, Zenon DEF Returns
<1>4. LaneShaped' /\ lane'.pc = "next" /\ lane'.task = lane.task
  BY <1>2, <1>3, Known, BatchesShaped, StatesShaped, Zenon DEF Return
<1>5. \A t \in TaskIDs : SameRun(t)
  BY <1>4, Zenon DEF SameRun, Running, Return
<1> QED
  BY <1>1, <1>4, <1>5, Known, Bystanding, Zenon

\* registerRuleProvider touches no task.
LEMMA Registering ==
    ASSUME Inv, NEW p \in Providers, RegisterRuleProvider(p)
    PROVE  Inv'
<1>1. UNCHANGED <<taskInfos, waits, work, nextWork, ready, stableIDMap, held,
                  lane>>
  BY Zenon DEF RegisterRuleProvider, requests, jobs
<1>2. LaneShaped' /\ \A t \in TaskIDs : SameRun(t)
  BY <1>1, Known, Zenon DEF LaneShaped, SameRun, Running
<1>3. providers' \subseteq Providers
  BY Known, Zenon DEF RegisterRuleProvider
<1> QED
  BY <1>1, <1>2, <1>3, Bystanding, Zenon

\* A request is answered with an ID: its task goes on.
LEMMA Answering ==
    ASSUME Inv, NEW ask, NEW id \in Sids, Answer(ask, id),
           lane.pc \in {"compute", "record"}
    PROVE  /\ LaneShaped' /\ lane'.pc = "compute"
           /\ held' \in [Rules -> SUBSET Sids]
           /\ \A t \in TaskIDs : SameRun(t)
<1>1. /\ LaneShaped' /\ lane'.pc = "compute" /\ lane'.task = lane.task
  <2>1. PICK asked : lane' = [lane EXCEPT !.pc = "compute", !.work = 0,
                                          !.asked = asked]
    BY Zenon DEF Answer
  <2> QED
    BY <2>1, Known, Zenon DEF LaneShaped
<1>2. held' \in [Rules -> SUBSET Sids]
  BY Known, Zenon DEF Answer
<1>3. \A t \in TaskIDs : SameRun(t)
  BY <1>1, Zenon DEF SameRun, Running
<1> QED
  BY <1>1, <1>2, <1>3, Zenon

\* A request fails: its task goes on, or the replay is given up and the task
\* queued.
LEMMA Failing ==
    ASSUME Inv, NEW ask, RequestFails(ask), UNCHANGED <<taskInfos, waits>>,
           lane.pc \in {"compute", "submit"}
    PROVE  /\ LaneShaped' /\ lane'.pc \in {"compute", "idle"}
           /\ held' = held
           /\ ready' \in [TaskIDs -> Jobs]
           /\ \A t \in TaskIDs : ready'[t].finish = ready[t].finish
           /\ \A t \in TaskIDs : Placed(t)'
<1>0. PICK u \in TaskIDs : u = lane.task
  BY Known, Zenon DEF LaneShaped
<1>1. Running(u)
  BY <1>0, Zenon DEF Running
<1>2. \A t \in TaskIDs : SameWait(t) /\ SameState(t) /\ SameInfo(t)
  BY Zenon DEF waits, SameWait, SameState, SameInfo
<1>3. CASE lane.replay
  <2>1. lane' = Idle /\ ready' = Inserted(ready, u) /\ held' = held
    BY <1>0, <1>3, Zenon DEF RequestFails
  <2>2. LaneShaped' /\ lane'.pc = "idle" /\ \A t : ~Running(t)'
    BY <2>1, LaneIdle, Zenon
  <2>3. /\ ready' \in [TaskIDs -> Jobs]
        /\ \A t \in TaskIDs \ {u} : ready'[t] = ready[t]
        /\ ready'[u].compute = ready[u].compute + 1
        /\ ready'[u].lookup = ready[u].lookup
        /\ ready'[u].finish = ready[u].finish
    BY <1>1, <2>1, Known, InsertedJobs, Zenon
  <2>4. Placed(u)'
    <3>1. /\ Placed(u) /\ ready[u] \in Jobs
          /\ u \in taskInfos /\ OnLane(u)
      BY <1>1, Known, Standing, Zenon
    <3>2. waitingOn'[u] = {} /\ u \in taskInfos'
      BY <1>1, <1>2, <3>1, Zenon DEF OnLane, In, SameWait
    <3>3. Requeued(u)
      BY <1>1, <1>2, <2>3, Zenon DEF Requeued
    <3> QED
      BY ONLY <2>2, <3>1, <3>2, <3>3, Queueing, Zenon
  <2>5. ASSUME NEW t \in TaskIDs \ {u} PROVE Placed(t)'
    <3>1. ~Running(t)
      BY <1>0, Zenon DEF Running
    <3>2. SameRun(t)
      BY <2>2, <3>1, Zenon DEF SameRun
    <3>3. SameJobs(t) /\ Placed(t)
      BY <2>3, Known, Zenon DEF SameJobs
    <3> QED
      BY ONLY <3>2, <3>3, <1>2, Elsewhere, t \in TaskIDs \ {u}, Zenon
  <2>6. \A t \in TaskIDs : ready'[t].finish = ready[t].finish
    BY <2>3, Zenon
  <2> QED
    BY <2>1, <2>2, <2>3, <2>4, <2>5, <2>6, Zenon
<1>4. CASE ~lane.replay
  <2>1. /\ lane' = [lane EXCEPT !.pc = "compute", !.work = 0]
        /\ UNCHANGED <<ready, held>>
    BY <1>4, Zenon DEF RequestFails
  <2>2. LaneShaped' /\ lane'.pc = "compute" /\ lane'.task = lane.task
    BY <2>1, Known, Zenon DEF LaneShaped
  <2>3. \A t \in TaskIDs : SameRun(t)
    BY <2>2, Zenon DEF SameRun, Running
  <2>4. UNCHANGED waits /\ UNCHANGED <<taskInfos, ready>>
    BY <2>1, Zenon
  <2> QED
    BY <2>1, <2>2, <2>3, <2>4, InsertStep, Zenon
<1> QED
  BY <1>3, <1>4, Zenon

\* A request that is answered with the task r, which is in flight then.
LEMMA Obtaining ==
    ASSUME Inv, NEW ask, NEW id \in Sids, NEW r \in TaskIDs,
           lane.pc = "compute",
           Record(lane.task, r, id), InsertUnlessInFlight(r, ready),
           Answer(ask, id), UNCHANGED <<work, nextWork, waits, providers>>
    PROVE  Inv'
<1>1. /\ LaneShaped' /\ lane'.pc = "compute"
      /\ held' \in [Rules -> SUBSET Sids]
      /\ \A t \in TaskIDs : SameRun(t)
  BY Answering, Zenon
<1>2. PICK u \in TaskIDs : u = lane.task
  BY Known, Zenon DEF LaneShaped
<1>3. Record(u, r, id)
  BY <1>2, Zenon
<1>4. /\ stableIDMap' \in [TaskIDs -> [Sids -> TaskIDs \cup WorkIDs \cup {NoID}]]
      /\ \A t \in TaskIDs, s \in Sids :
            \/ stableIDMap'[t][s] = stableIDMap[t][s]
            \/ stableIDMap'[t][s] = r
  BY <1>3, Recording, Zenon
<1>5. r \in taskInfos'
  BY InFlightThen, Zenon
<1>6. /\ taskInfos \subseteq taskInfos' /\ taskInfos' \subseteq TaskIDs
      /\ ready' \in [TaskIDs -> Jobs]
      /\ \A t \in TaskIDs : ready'[t].finish = ready[t].finish
      /\ \A t \in TaskIDs : Placed(t)'
  BY <1>1, InsertStep, Zenon
<1>7. providers' \subseteq Providers
  BY Known, Zenon
<1>8. \A t \in TaskIDs, s \in Sids : \/ stableIDMap'[t][s] = stableIDMap[t][s]
                                     \/ stableIDMap'[t][s] \in taskInfos'
  BY <1>4, <1>5, Zenon
<1> QED
  BY <1>1, <1>4, <1>6, <1>7, <1>8, JobStep, Zenon

\* A request that fails, and records nothing.
LEMMA Refusing ==
    ASSUME Inv, NEW ask, lane.pc = "compute", RequestFails(ask),
           UNCHANGED <<taskInfos, stableIDMap, work, nextWork, waits, providers>>
    PROVE  Inv'
  BY Failing, JobStep, Known, Zenon

\* taskRequestArtifact keeps the invariant.
LEMMA ArtifactRequest ==
    ASSUME Inv, NEW a \in Artifacts, TaskRequestArtifact(a)
    PROVE  Inv'
<1>1. /\ lane.pc = "compute" /\ ArtifactSid(a) \in Sids
      /\ UNCHANGED <<work, nextWork, waits, providers>>
  BY Typed, Zenon DEF TaskRequestArtifact, Asking, engineState
<1>2. ASSUME NEW r \in Rules, Record(lane.task, r, ArtifactSid(a)),
             InsertUnlessInFlight(r, ready), Answer(ArtifactSid(a), ArtifactSid(a))
      PROVE  Inv'
  BY <1>1, <1>2, Obtaining, Typed, Zenon
<1>3. CASE /\ RequestFails(ArtifactSid(a))
           /\ UNCHANGED <<taskInfos, stableIDMap, requestedTaskInputs>>
  BY <1>1, <1>3, Refusing, Zenon
<1> QED
  BY <1>2, <1>3, Zenon DEF TaskRequestArtifact

\* taskRequestRule keeps the invariant.
LEMMA RuleRequest ==
    ASSUME Inv, NEW r \in Rules, TaskRequestRule(r)
    PROVE  Inv'
<1>1. /\ lane.pc = "compute" /\ RuleSid(r) \in Sids /\ RawID(r) \in Sids
      /\ r \in TaskIDs /\ UNCHANGED <<work, nextWork, waits, providers>>
  BY Typed, Zenon DEF TaskRequestRule, Asking, engineState
<1>2. CASE /\ Answer(RuleSid(r), RawID(r))
           /\ UNCHANGED <<taskInfos, stableIDMap, requestedTaskInputs, ready>>
  <2>1. /\ LaneShaped' /\ lane'.pc = "compute"
        /\ held' \in [Rules -> SUBSET Sids]
        /\ \A t \in TaskIDs : SameRun(t)
    BY <1>1, <1>2, Answering, Zenon
  <2> QED
    BY <1>1, <1>2, <2>1, InsertStep, JobStep, Known, Zenon
<1>3. CASE /\ Record(lane.task, r, RuleSid(r)) /\ InsertUnlessInFlight(r, ready)
           /\ Answer(RuleSid(r), RuleSid(r))
  BY <1>1, <1>3, Obtaining, Zenon
<1>4. CASE /\ RequestFails(RuleSid(r))
           /\ UNCHANGED <<taskInfos, stableIDMap, requestedTaskInputs>>
  BY <1>1, <1>4, Refusing, Zenon
<1> QED
  BY <1>2, <1>3, <1>4, Zenon DEF TaskRequestRule

-----------------------------------------------------------------------------
(***************************************************************************)
(* Jobs of the lane.                                                       *)
(***************************************************************************)
\* The lane takes a computation of b, and may record and insert the task r.
LEMMA Taking ==
    ASSUME Inv, NEW b \in TaskIDs, ready[b].compute > 0, lane.pc = "idle",
           LaneShaped', lane'.task = b, lane'.pc \in {"compute", "next", "hung"},
           UNCHANGED <<waits, work, nextWork, held, providers>>,
           \/ UNCHANGED <<taskInfos, stableIDMap>> /\ ready' = Popped(b)
           \/ \E r \in TaskIDs, sid \in Sids :
                 Record(b, r, sid) /\ InsertUnlessInFlight(r, Popped(b))
    PROVE  Inv'
<1>1. /\ taskInfos \subseteq taskInfos' /\ taskInfos' \subseteq TaskIDs
      /\ ready' \in [TaskIDs -> Jobs]
      /\ \A t \in TaskIDs : ready'[t].finish = ready[t].finish
      /\ \A t \in TaskIDs : Placed(t)'
  <2>1. \/ taskInfos' = taskInfos /\ ready' = Popped(b)
        \/ \E r \in TaskIDs : InsertUnlessInFlight(r, Popped(b))
    BY Zenon
  <2> QED
    BY <2>1, PopStep, Zenon
<1>2. /\ stableIDMap' \in [TaskIDs -> [Sids -> TaskIDs \cup WorkIDs \cup {NoID}]]
      /\ \A t \in TaskIDs, s \in Sids :
            \/ stableIDMap'[t][s] = stableIDMap[t][s]
            \/ stableIDMap'[t][s] \in taskInfos'
  <2>1. CASE UNCHANGED stableIDMap
    BY <2>1, Known, Zenon
  <2>2. ASSUME NEW r \in TaskIDs, NEW sid \in Sids, Record(b, r, sid),
               InsertUnlessInFlight(r, Popped(b))
        PROVE  /\ stableIDMap' \in
                      [TaskIDs -> [Sids -> TaskIDs \cup WorkIDs \cup {NoID}]]
               /\ \A t \in TaskIDs, s \in Sids :
                     \/ stableIDMap'[t][s] = stableIDMap[t][s]
                     \/ stableIDMap'[t][s] \in taskInfos'
    <3>1. r \in taskInfos'
      BY <2>2, InFlightThen, Zenon
    <3>2. /\ stableIDMap' \in
                 [TaskIDs -> [Sids -> TaskIDs \cup WorkIDs \cup {NoID}]]
          /\ \A t \in TaskIDs, s \in Sids :
                \/ stableIDMap'[t][s] = stableIDMap[t][s]
                \/ stableIDMap'[t][s] = r
      BY <2>2, Recording, Zenon
    <3> QED
      BY <3>1, <3>2, Zenon
  <2> QED
    BY <2>1, <2>2, Zenon
<1> QED
  BY <1>1, <1>2, JobStep, Known, Zenon

\* The lane starts to compute a rule's task.
LEMMA Computing ==
    ASSUME Inv, NEW r \in Rules, RunCompute(r)
    PROVE  Inv'
<1>1. /\ ready[r].compute > 0 /\ lane.pc = "idle" /\ ready' = Popped(r)
      /\ r \in TaskIDs
      /\ UNCHANGED <<waits, work, nextWork, held, providers, taskInfos,
                     stableIDMap>>
  BY Typed, Zenon DEF RunCompute, Popped, requests, engineState, client
<1>2. LaneShaped' /\ lane'.pc = "compute" /\ lane'.task = r
  BY <1>1, LanePlain, Zenon DEF RunCompute
<1> QED
  BY <1>1, <1>2, Taking, Zenon

\* The next state an internal task returns.
LEMMA Handing ==
    ASSUME NEW t \in TaskIDs, NEW next, Computed(t, next), next.ids \in Seq(Sids)
    PROVE  LaneShaped' /\ lane'.pc = "next" /\ lane'.task = t
  BY LaneReturns, Zenon DEF Computed

\* The engine's own tasks wait for one ID.
LEMMA Single ==
    ASSUME NEW s \in Sids, NEW ctx
    PROVE  Wait(<<s>>, ctx).ids \in Seq(Sids)
<1>1. <<s>> \in Seq(Sids)
  OBVIOUS
<1> QED
  BY <1>1, StatesShaped, Zenon

\* InitTask::compute keeps the invariant.
LEMMA Initializing ==
    ASSUME Inv, RunInitTask
    PROVE  Inv'
<1>1. /\ ready[InitTask].compute > 0 /\ lane.pc = "idle" /\ InitTask \in TaskIDs
      /\ UNCHANGED <<waits, work, nextWork, held, providers>>
  BY Typed, Zenon DEF RunInitTask, client
<1>2. ASSUME NEW next, next.ids \in Seq(Sids), Computed(InitTask, next),
             ready' = Popped(InitTask), UNCHANGED <<taskInfos, stableIDMap>>
      PROVE  Inv'
  BY <1>1, <1>2, Handing, Taking, Zenon
<1>3. ASSUME NEW r, Constructible(r),
             Record(InitTask, r, RuleSid(r)),
             InsertUnlessInFlight(r, Popped(InitTask)),
             Computed(InitTask, Wait(<<RuleSid(r)>>, 1))
      PROVE  Inv'
  <2>1. r \in Rules
    <3>1. PICK p \in Providers : r \in RulesOf[p]
      BY <1>3, Known, Zenon DEF Constructible, Provided
    <3> QED
      BY <3>1, TaskEngineAssumption, Zenon
  <2>2. r \in TaskIDs /\ RuleSid(r) \in Sids
    BY <2>1, Typed, Zenon
  <2>3. LaneShaped' /\ lane'.pc = "next" /\ lane'.task = InitTask
    BY <1>1, <1>3, <2>2, Single, Handing, Zenon
  <2> QED
    BY <1>1, <1>3, <2>2, <2>3, Taking, Zenon
<1>4. /\ Failure.ids \in Seq(Sids) /\ Result({}).ids \in Seq(Sids)
      /\ \A c : (IF c THEN Failure ELSE Result({})).ids \in Seq(Sids)
  BY StatesShaped, Zenon
<1>5. CASE /\ \E c : Computed(InitTask, IF c THEN Failure ELSE Result({}))
           /\ ready' = Popped(InitTask) /\ UNCHANGED <<taskInfos, stableIDMap>>
  BY <1>2, <1>4, <1>5, Zenon
<1>6. CASE /\ Computed(InitTask, Failure)
           /\ ready' = Popped(InitTask) /\ UNCHANGED <<taskInfos, stableIDMap>>
  BY <1>2, <1>4, <1>6, Zenon
<1> QED
  BY <1>3, <1>5, <1>6, Zenon DEF RunInitTask

\* RootTask::performInit keeps the invariant.
LEMMA RootInitializing ==
    ASSUME Inv, NEW b \in Builds, RunRootInit(b)
    PROVE  Inv'
<1>1. /\ ready[b].compute > 0 /\ lane.pc = "idle"
      /\ b \in TaskIDs /\ InitTask \in TaskIDs /\ RuleSid(InitTask) \in Sids
      /\ UNCHANGED <<waits, work, nextWork, held, providers>>
  BY Typed, Zenon DEF RunRootInit, client, engineState
<1>2. LaneShaped' /\ lane'.pc = "next" /\ lane'.task = b
  BY <1>1, Single, Handing, Zenon DEF RunRootInit
<1>3. /\ Record(b, InitTask, RuleSid(InitTask))
      /\ InsertUnlessInFlight(InitTask, Popped(b))
  BY Zenon DEF RunRootInit
<1> QED
  BY <1>1, <1>2, <1>3, Taking, Zenon

\* RootTask::requestArtifact keeps the invariant, even if it hangs.
LEMMA RootRequesting ==
    ASSUME Inv, NEW b \in Builds, RunRootRequest(b)
    PROVE  Inv'
<1>1. /\ ready[b].compute > 0 /\ lane.pc = "idle" /\ b \in TaskIDs
      /\ ArtifactSid(Target[b]) \in Sids
      /\ UNCHANGED <<waits, work, nextWork, held, providers>>
  BY Typed, TaskEngineAssumption, Zenon DEF RunRootRequest, client, engineState
<1>2. ASSUME NEW r \in Rules, Record(b, r, ArtifactSid(Target[b])),
             InsertUnlessInFlight(r, Popped(b)),
             Computed(b, Wait(<<ArtifactSid(Target[b])>>, 2))
      PROVE  Inv'
  <2>1. LaneShaped' /\ lane'.pc = "next" /\ lane'.task = b
    BY <1>1, <1>2, Single, Handing, Zenon
  <2> QED
    BY <1>1, <1>2, <2>1, Typed, Taking, Zenon
<1>3. CASE /\ Computed(b, Result({})) /\ ready' = Popped(b)
           /\ UNCHANGED <<taskInfos, stableIDMap>>
  <2>1. LaneShaped' /\ lane'.pc = "next" /\ lane'.task = b
    BY <1>1, <1>3, StatesShaped, Handing, Zenon
  <2> QED
    BY <1>1, <1>3, <2>1, Taking, Zenon
<1>4. CASE /\ lane' = [Idle EXCEPT !.pc = "hung", !.task = b]
           /\ ready' = Popped(b) /\ UNCHANGED <<taskInfos, stableIDMap>>
  <2>1. LaneShaped' /\ lane'.pc = "hung" /\ lane'.task = b
    BY <1>1, <1>4, LanePlain, Zenon
  <2> QED
    BY <1>1, <1>4, <2>1, Taking, Zenon
<1> QED
  BY <1>2, <1>3, <1>4, Zenon DEF RunRootRequest

\* RootTask::processArtifact keeps the invariant.
LEMMA RootResulting ==
    ASSUME Inv, NEW b \in Builds, RunRootResult(b)
    PROVE  Inv'
<1>1. /\ ready[b].compute > 0 /\ lane.pc = "idle" /\ b \in TaskIDs
      /\ ready' = Popped(b)
      /\ UNCHANGED <<waits, work, nextWork, held, providers, taskInfos,
                     stableIDMap>>
  BY Typed, Zenon DEF RunRootResult, client, engineState, requests
<1>2. LaneShaped' /\ lane'.pc = "next" /\ lane'.task = b
  BY <1>1, StatesShaped, Handing, Zenon DEF RunRootResult
<1> QED
  BY <1>1, <1>2, Taking, Zenon

\* The job of checkTaskCacheForReadyTask.
LEMMA LookingUp ==
    ASSUME Inv, NEW b \in TaskIDs, RunLookup(b)
    PROVE  Inv'
<1>1. /\ ready[b].lookup > 0 /\ lane.pc = "idle"
      /\ UNCHANGED <<waits, work, nextWork, held, providers, taskInfos,
                     stableIDMap>>
  BY Zenon DEF RunLookup, requests, engineState, client
<1>2. \A t \in TaskIDs : SameWait(t) /\ SameState(t) /\ SameInfo(t)
  BY <1>1, Zenon DEF waits, SameWait, SameState, SameInfo
<1>3. ready[b] \in Jobs /\ Placed(b) /\ ready \in [TaskIDs -> Jobs]
  BY Known, Zenon
<1>4. CASE /\ ready' = [ready EXCEPT ![b].lookup = @ - 1, ![b].compute = @ + 1]
           /\ lane' = lane
  <2>1. /\ ready' \in [TaskIDs -> Jobs]
        /\ \A t \in TaskIDs \ {b} : ready'[t] = ready[t]
        /\ ready'[b].compute = ready[b].compute + 1
        /\ ready'[b].lookup = ready[b].lookup - 1
        /\ ready'[b].finish = ready[b].finish
    BY ONLY <1>1, <1>3, <1>4, b \in TaskIDs DEF Jobs
  <2>2. LaneShaped' /\ \A t \in TaskIDs : SameRun(t)
    BY <1>4, Known, Zenon DEF LaneShaped, SameRun, Running
  <2>3. Placed(b)'
    BY ONLY <1>1, <1>2, <1>3, <2>1, <2>2, Missing, b \in TaskIDs, Zenon
  <2>4. ASSUME NEW t \in TaskIDs \ {b} PROVE Placed(t)'
    <3>1. SameJobs(t) /\ Placed(t)
      BY <2>1, Known, Zenon DEF SameJobs
    <3> QED
      BY ONLY <3>1, <1>2, <2>2, Elsewhere, t \in TaskIDs \ {b}, Zenon
  <2>5. \A t \in TaskIDs : ready'[t].finish = ready[t].finish
    BY <2>1, Zenon
  <2> QED
    BY <1>1, <1>4, <2>1, <2>2, <2>3, <2>4, <2>5, JobStep, Known, Zenon
<1>5. CASE /\ b \in Cacheable
           /\ ready' = [ready EXCEPT ![b].lookup = @ - 1]
           /\ lane' = [Idle EXCEPT !.pc = "compute", !.task = b, !.replay = TRUE]
  <2>1. /\ ready' \in [TaskIDs -> Jobs]
        /\ \A t \in TaskIDs \ {b} : ready'[t] = ready[t]
        /\ ready'[b].compute = ready[b].compute
        /\ ready'[b].lookup = ready[b].lookup - 1
        /\ ready'[b].finish = ready[b].finish
    BY ONLY <1>1, <1>3, <1>5, b \in TaskIDs DEF Jobs
  <2>2. LaneShaped' /\ lane'.pc = "compute" /\ lane'.task = b
    BY <1>5, TaskEngineAssumption, LaneComputes, Zenon
  <2>3. Running(b)' /\ \A t \in TaskIDs \ {b} : SameRun(t)
    BY <1>1, <2>2, Zenon DEF SameRun, Running
  <2>4. Placed(b)'
    BY ONLY <1>1, <1>2, <1>3, <2>1, <2>3, PickingUp, b \in TaskIDs, Zenon
  <2>5. ASSUME NEW t \in TaskIDs \ {b} PROVE Placed(t)'
    <3>1. SameJobs(t) /\ Placed(t)
      BY <2>1, Known, Zenon DEF SameJobs
    <3> QED
      BY ONLY <3>1, <1>2, <2>3, Elsewhere, t \in TaskIDs \ {b}, Zenon
  <2>6. \A t \in TaskIDs : ready'[t].finish = ready[t].finish
    BY <2>1, Zenon
  <2> QED
    BY <1>1, <2>1, <2>2, <2>4, <2>5, <2>6, JobStep, Known, Zenon
<1> QED
  BY <1>4, <1>5, Zenon DEF RunLookup

-----------------------------------------------------------------------------
(***************************************************************************)
(* Submissions.                                                            *)
(***************************************************************************)
Recorded == {"pending", "done", "erased"}

\* A step that keeps the recorded submissions, and may record another one for
\* the task that made it.
LEMMA WorkStep ==
    ASSUME Inv, UNCHANGED <<waits, taskInfos, providers>>,
           ready' \in [TaskIDs -> Jobs],
           \A t \in TaskIDs : ready'[t].finish = ready[t].finish,
           held' \in [Rules -> SUBSET Sids],
           LaneShaped', \A t \in TaskIDs : Placed(t)',
           work' \in [WorkIDs -> WorkRecords], nextWork' \in 0 .. MaxWork,
           stableIDMap' \in [TaskIDs -> [Sids -> TaskIDs \cup WorkIDs \cup {NoID}]],
           \A w \in WorkIDs : work[w].status \in Recorded =>
               /\ work'[w].task = work[w].task
               /\ work'[w].status \in Recorded
               /\ work[w].status = "pending" => work'[w].status = "pending",
           \A t \in TaskIDs, s \in Sids :
               \/ stableIDMap'[t][s] = stableIDMap[t][s]
               \/ \E w \in WorkIDs : /\ stableIDMap'[t][s] = w
                                     /\ work'[w].task = t
                                     /\ work'[w].status \in Recorded,
           Submitting'
    PROVE  Inv'
<1>1. Shaped'
  BY Zenon DEF Inv, Shaped, waits
<1>2. ASSUME NEW t \in TaskIDs, NEW x \in waitingOn'[t]
      PROVE  Told(t, x)'
  <2>1. Told(t, x)
    BY <1>2, Zenon DEF Inv, waits
  <2>2. x \in taskInfos => x \in TaskIDs
    BY Zenon DEF Inv, Shaped
  <2> QED
    BY <2>1, <2>2, Zenon DEF Told, waits, Recorded
<1>3. ASSUME NEW t \in TaskIDs, NEW s \in Sids
      PROVE  Owned(t, s)'
  <2>1. Owned(t, s)
    BY Zenon DEF Inv
  <2>2. \A x \in TaskIDs : x \notin WorkIDs
    BY TaskEngineAssumption DEF WorkIDs
  <2> QED
    BY <2>1, <2>2 DEF Owned, Recorded
<1> QED
  BY <1>1, <1>2, <1>3, Zenon DEF Inv

\* One submission changes its status.
LEMMA NewStatus ==
    ASSUME NEW W \in [WorkIDs -> WorkRecords], NEW w \in WorkIDs,
           NEW st \in WorkStatus, NEW V, V = [W EXCEPT ![w].status = st]
    PROVE  /\ V \in [WorkIDs -> WorkRecords]
           /\ V[w].status = st /\ V[w].task = W[w].task
           /\ \A v \in WorkIDs \ {w} : V[v] = W[v]
  BY Zenon DEF WorkRecords

\* A number is drawn, and the submission entered under it.
LEMMA Drawing ==
    ASSUME Inv, NEW ask, NEW kind \in {"action", "subtask"}, NEW sid \in Sids,
           BeginSubmit(ask, kind, sid)
    PROVE  Inv'
<1>1. /\ UNCHANGED <<waits, taskInfos, providers, ready, held, stableIDMap>>
      /\ lane.pc = "compute" /\ nextWork < MaxWork /\ nextWork' = nextWork + 1
      /\ lane' = [lane EXCEPT !.pc = "submit", !.work = nextWork + 1, !.ask = ask]
  BY Zenon DEF BeginSubmit, Asking, jobs, engineState, client
<1>2. LaneShaped' /\ lane'.pc = "submit" /\ lane'.task = lane.task
      /\ lane'.work = nextWork + 1 /\ lane.task \in TaskIDs
  BY <1>1, Known, Zenon DEF LaneShaped
<1>3. \A t \in TaskIDs : SameRun(t)
  BY <1>1, <1>2, Zenon DEF SameRun, Running
<1>4. \A t \in TaskIDs : Placed(t)'
  BY <1>1, <1>3, InsertStep, Zenon
<1>5. PICK w \in WorkIDs : w = nextWork + 1 /\ w > nextWork
  BY <1>1, TaskEngineAssumption DEF Inv, Shaped, WorkIDs
<1>6. nextWork' \in 0 .. MaxWork /\ \A v \in WorkIDs : v > nextWork' => v > nextWork /\ v # w
  BY <1>1, <1>5, TaskEngineAssumption DEF Inv, Shaped, WorkIDs
<1>7. /\ work \in [WorkIDs -> WorkRecords] /\ work[w].status = "unused"
      /\ \A v \in WorkIDs : v > nextWork => work[v].status = "unused"
  BY <1>5, Zenon DEF Inv, Shaped, Submitting
<1>8. work' = [work EXCEPT ![w] = [kind |-> kind, task |-> lane.task, sid |-> sid,
                                   status |-> "submitted", val |-> "none"]]
  BY <1>5, Zenon DEF BeginSubmit
<1>9. /\ work' \in [WorkIDs -> WorkRecords]
      /\ work'[w].task = lane.task /\ work'[w].sid = sid
      /\ work'[w].status = "submitted"
      /\ \A v \in WorkIDs \ {w} : work'[v] = work[v]
  BY ONLY <1>2, <1>7, <1>8, w \in WorkIDs, kind \in {"action", "subtask"},
          sid \in Sids, Zenon DEF WorkRecords, WorkStatus
<1>10. Submitting'
  <2>1. lane'.work = w /\ w <= nextWork'
    BY <1>1, <1>2, <1>5 DEF WorkIDs
  <2> QED
    BY <2>1, <1>2, <1>5, <1>6, <1>7, <1>9, Zenon DEF Submitting
<1>11. \A v \in WorkIDs : work[v].status \in Recorded => work'[v] = work[v]
  BY <1>7, <1>9, Zenon DEF Recorded
<1> QED
  BY <1>1, <1>2, <1>4, <1>6, <1>9, <1>10, <1>11, Known, WorkStep, Zenon

\* taskRequestAction, up to its call of submit.
LEMMA ActionRequest ==
    ASSUME Inv, NEW x \in Actions, TaskRequestAction(x)
    PROVE  Inv'
  BY Typed, Drawing, Zenon DEF TaskRequestAction

\* taskSpawnSubtask, up to its call of submit.
LEMMA Spawning ==
    ASSUME Inv, NEW ask, TaskSpawnSubtask(ask)
    PROVE  Inv'
<1>1. nextWork + 1 \in WorkIDs
  BY TaskEngineAssumption DEF TaskSpawnSubtask, BeginSubmit, Inv, Shaped, WorkIDs
<1> QED
  BY <1>1, Typed, Drawing, Zenon DEF TaskSpawnSubtask

\* submit takes the request.
LEMMA Accepting ==
    ASSUME Inv, SubmitAccepted
    PROVE  Inv'
<1>1. /\ UNCHANGED <<waits, taskInfos, providers, ready, held, stableIDMap, work,
                     nextWork>>
      /\ lane.pc = "submit" /\ lane' = [lane EXCEPT !.pc = "record"]
  BY Zenon DEF SubmitAccepted, requests, jobs, engineState, client
<1>2. /\ LaneShaped' /\ lane'.pc = "record" /\ lane'.task = lane.task
      /\ lane'.work = lane.work
  BY <1>1, Known, Zenon DEF LaneShaped
<1>3. \A t \in TaskIDs : SameRun(t)
  BY <1>1, <1>2, Zenon DEF SameRun, Running
<1>4. \A t \in TaskIDs : Placed(t)'
  BY <1>1, <1>3, InsertStep, Zenon
<1>5. Submitting'
  BY <1>1, <1>2, Zenon DEF Inv, Submitting
<1>6. work \in [WorkIDs -> WorkRecords] /\ nextWork \in 0 .. MaxWork
  BY Zenon DEF Inv, Shaped
<1> QED
  BY <1>1, <1>2, <1>4, <1>5, <1>6, Known, WorkStep, Zenon

\* submit refuses the request, and the number is given up.
LEMMA Rejecting ==
    ASSUME Inv, SubmitRejected
    PROVE  Inv'
<1>1. /\ UNCHANGED <<waits, taskInfos, providers, stableIDMap, nextWork>>
      /\ lane.pc = "submit" /\ RequestFails(lane.ask)
  BY Zenon DEF SubmitRejected, engineState
<1>2. /\ LaneShaped' /\ lane'.pc \in {"compute", "idle"}
      /\ held' = held
      /\ ready' \in [TaskIDs -> Jobs]
      /\ \A t \in TaskIDs : ready'[t].finish = ready[t].finish
      /\ \A t \in TaskIDs : Placed(t)'
  BY <1>1, Failing, Zenon
<1>3. PICK w \in WorkIDs : w = lane.work /\ work[w].status = "submitted"
  BY <1>1, Zenon DEF Inv, Submitting
<1>4. /\ work \in [WorkIDs -> WorkRecords] /\ nextWork \in 0 .. MaxWork
      /\ \A v \in WorkIDs : v > nextWork => work[v].status = "unused"
  BY Zenon DEF Inv, Shaped, Submitting
<1>5. work' = [work EXCEPT ![w].status = "unused"]
  BY <1>3, Zenon DEF SubmitRejected
<1>6. /\ work' \in [WorkIDs -> WorkRecords]
      /\ work'[w].status = "unused"
      /\ \A v \in WorkIDs \ {w} : work'[v] = work[v]
  <2>1. "unused" \in WorkStatus
    BY Zenon DEF WorkStatus
  <2> QED
    BY ONLY <1>4, <1>5, <2>1, w \in WorkIDs, NewStatus
<1>7. Submitting'
  BY <1>1, <1>2, <1>4, <1>6, Zenon DEF Submitting
<1>8. \A v \in WorkIDs : work[v].status \in Recorded => work'[v] = work[v]
  BY <1>3, <1>6, Zenon DEF Recorded
<1> QED
  BY <1>1, <1>2, <1>4, <1>6, <1>7, <1>8, Known, WorkStep, Zenon

\* The submission is recorded as pending, for the task that made it.
LEMMA PendingRecorded ==
    ASSUME Inv, RecordPending
    PROVE  Inv'
<1>1. /\ UNCHANGED <<waits, taskInfos, providers, ready, nextWork>>
      /\ lane.pc = "record"
  BY Zenon DEF RecordPending, engineState, jobs
<1>2. PICK w \in WorkIDs, u \in TaskIDs, s \in Sids :
          w = lane.work /\ u = lane.task /\ s = work[w].sid /\ work[w].task = u
  BY <1>1, Known, Zenon DEF Inv, Submitting, LaneShaped
<1>3. /\ LaneShaped' /\ lane'.pc = "compute"
      /\ held' \in [Rules -> SUBSET Sids]
      /\ \A t \in TaskIDs : SameRun(t)
  BY <1>1, <1>2, Answering, Zenon DEF RecordPending
<1>4. \A t \in TaskIDs : Placed(t)'
  BY <1>1, <1>3, InsertStep, Zenon
<1>5. /\ work \in [WorkIDs -> WorkRecords] /\ nextWork \in 0 .. MaxWork
      /\ \A v \in WorkIDs : v > nextWork => work[v].status = "unused"
  BY Zenon DEF Inv, Shaped, Submitting
<1>6. work' = [work EXCEPT ![w].status = "pending"]
  BY <1>2, Zenon DEF RecordPending
<1>7. /\ work' \in [WorkIDs -> WorkRecords]
      /\ work'[w].status = "pending" /\ work'[w].task = u
      /\ \A v \in WorkIDs \ {w} : work'[v] = work[v]
  <2>1. "pending" \in WorkStatus
    BY Zenon DEF WorkStatus
  <2> QED
    BY ONLY <1>2, <1>5, <1>6, <2>1, w \in WorkIDs, NewStatus
<1>8. stableIDMap' = [stableIDMap EXCEPT ![u][s] = IF @ = NoID THEN w ELSE @]
  BY <1>2, Zenon DEF RecordPending
<1>9. /\ stableIDMap' \in [TaskIDs -> [Sids -> TaskIDs \cup WorkIDs \cup {NoID}]]
      /\ \A t \in TaskIDs, r \in Sids :
            \/ stableIDMap'[t][r] = stableIDMap[t][r]
            \/ t = u /\ stableIDMap'[t][r] = w
  BY <1>8, Known, Zenon
<1>10. Submitting'
  <2>1. w <= nextWork
    BY <1>1, <1>2, Zenon DEF Inv, Submitting
  <2> QED
    BY <1>1, <1>3, <1>5, <1>7, <2>1 DEF Submitting, WorkIDs
<1>11. \A v \in WorkIDs : work[v].status \in Recorded =>
           /\ work'[v].task = work[v].task
           /\ work'[v].status \in Recorded
           /\ work[v].status = "pending" => work'[v].status = "pending"
  BY <1>2, <1>7, Zenon DEF Recorded
<1>12. \A t \in TaskIDs, r \in Sids :
           \/ stableIDMap'[t][r] = stableIDMap[t][r]
           \/ \E v \in WorkIDs : /\ stableIDMap'[t][r] = v
                                 /\ work'[v].task = t
                                 /\ work'[v].status \in Recorded
  BY <1>7, <1>9, Zenon DEF Recorded
<1> QED
  BY <1>1, <1>3, <1>4, <1>5, <1>7, <1>9, <1>10, <1>11, <1>12, Known, WorkStep, Zenon

-----------------------------------------------------------------------------
(***************************************************************************)
(* Unblocking.                                                             *)
(***************************************************************************)
\* The task is queued by the unblocking, from the jobs it had before.
Released(t, state, jobsNow) ==
    \/ /\ nextState'[t] = state
       /\ ready'[t].compute = jobsNow[t].compute + 1
       /\ ready'[t].lookup = jobsNow[t].lookup
       /\ ready'[t].finish = jobsNow[t].finish
    \/ /\ nextState'[t] = state
       /\ ready'[t].compute = jobsNow[t].compute
       /\ ready'[t].lookup = jobsNow[t].lookup + 1
       /\ ready'[t].finish = jobsNow[t].finish
    \/ /\ Finished(nextState'[t])
       /\ ready'[t].compute = jobsNow[t].compute
       /\ ready'[t].lookup = jobsNow[t].lookup
       /\ ready'[t].finish = jobsNow[t].finish + 1

\* What UnblockTasks does, as far as the invariant can tell.  The submissions
\* it erases are behind IDs of the tasks it unblocks.
Unblocked(W, states, jobsNow, workNow) ==
    /\ stableIDMap' \in [TaskIDs -> [Sids -> TaskIDs \cup WorkIDs \cup {NoID}]]
    /\ \A t \in TaskIDs, s \in Sids : \/ stableIDMap'[t][s] = stableIDMap[t][s]
                                      \/ stableIDMap'[t][s] = NoID
    /\ work' \in [WorkIDs -> WorkRecords]
    /\ \A w \in WorkIDs :
          /\ work'[w].task = workNow[w].task /\ work'[w].sid = workNow[w].sid
          /\ \/ work'[w].status = workNow[w].status
             \/ /\ work'[w].status = "erased"
                /\ \E t \in W, s \in Sids : stableIDMap[t][s] = w
    /\ nextState' = [t \in TaskIDs |-> nextState'[t]]
    /\ \A t \in TaskIDs : nextState'[t].ids \in Seq(Sids)
    /\ ready' \in [TaskIDs -> Jobs]
    /\ \A t \in TaskIDs \ W : ready'[t] = jobsNow[t] /\ nextState'[t] = states[t]
    /\ \A t \in W : Released(t, states[t], jobsNow)

\* unblockTask hands over IDs of the wait only.
LEMMA TakenAreRequested ==
    ASSUME NEW t \in TaskIDs, NEW ids \in Seq(Sids)
    PROVE  TakenSids(t, ids) \subseteq Sids
  BY DEF TakenSids

\* A job more of one kind.
LEMMA OneMore ==
    ASSUME NEW j \in Jobs
    PROVE  /\ [j EXCEPT !.compute = @ + 1] \in Jobs
           /\ [j EXCEPT !.compute = @ + 1].compute = j.compute + 1
           /\ [j EXCEPT !.compute = @ + 1].lookup = j.lookup
           /\ [j EXCEPT !.compute = @ + 1].finish = j.finish
           /\ [j EXCEPT !.lookup = @ + 1] \in Jobs
           /\ [j EXCEPT !.lookup = @ + 1].compute = j.compute
           /\ [j EXCEPT !.lookup = @ + 1].lookup = j.lookup + 1
           /\ [j EXCEPT !.lookup = @ + 1].finish = j.finish
           /\ [j EXCEPT !.finish = @ + 1] \in Jobs
           /\ [j EXCEPT !.finish = @ + 1].compute = j.compute
           /\ [j EXCEPT !.finish = @ + 1].lookup = j.lookup
           /\ [j EXCEPT !.finish = @ + 1].finish = j.finish + 1
  BY DEF Jobs

\* UnblockTasks does what Unblocked says, if no at() throws.
LEMMA Unblocking ==
    ASSUME stableIDMap \in [TaskIDs -> [Sids -> TaskIDs \cup WorkIDs \cup {NoID}]],
           NEW W \in SUBSET TaskIDs, NEW states,
           \A t \in TaskIDs : states[t].ids \in Seq(Sids),
           NEW jobsNow \in [TaskIDs -> Jobs],
           NEW workNow \in [WorkIDs -> WorkRecords],
           UnblockTasks(W, states, jobsNow, workNow), ~terminated'
    PROVE  Unblocked(W, states, jobsNow, workNow)
<1>0. \A t \in TaskIDs : TakenSids(t, states[t].ids) \subseteq Sids
  BY TakenAreRequested, Zenon
<1>1. /\ stableIDMap' \in [TaskIDs -> [Sids -> TaskIDs \cup WorkIDs \cup {NoID}]]
      /\ \A t \in TaskIDs, s \in Sids : \/ stableIDMap'[t][s] = stableIDMap[t][s]
                                        \/ stableIDMap'[t][s] = NoID
  BY Zenon DEF UnblockTasks
<1>2. ASSUME NEW w \in WorkIDs
      PROVE  \/ work'[w] = workNow[w]
             \/ /\ work'[w] = [workNow[w] EXCEPT !.status = "erased"]
                /\ \E t \in W, s \in Sids : stableIDMap[t][s] = w
  <2>1. CASE \E t \in W : \E s \in TakenSids(t, states[t].ids) :
                 stableIDMap[t][s] = w
    BY <1>0, <2>1, Zenon DEF UnblockTasks
  <2>2. CASE ~\E t \in W : \E s \in TakenSids(t, states[t].ids) :
                 stableIDMap[t][s] = w
    BY <2>2, Zenon DEF UnblockTasks
  <2> QED
    BY <2>1, <2>2, Zenon
<1>3. \A w \in WorkIDs :
          /\ work'[w] \in WorkRecords
          /\ work'[w].task = workNow[w].task /\ work'[w].sid = workNow[w].sid
          /\ \/ work'[w].status = workNow[w].status
             \/ /\ work'[w].status = "erased"
                /\ \E t \in W, s \in Sids : stableIDMap[t][s] = w
  <2>1. ASSUME NEW v \in WorkRecords
        PROVE  /\ [v EXCEPT !.status = "erased"] \in WorkRecords
               /\ [v EXCEPT !.status = "erased"].task = v.task
               /\ [v EXCEPT !.status = "erased"].sid = v.sid
               /\ [v EXCEPT !.status = "erased"].status = "erased"
    BY Zenon DEF WorkRecords, WorkStatus
  <2>2. TAKE w \in WorkIDs
  <2>3. workNow[w] \in WorkRecords
    BY Zenon
  <2>4. CASE work'[w] = workNow[w]
    BY ONLY <2>3, <2>4, Zenon
  <2>5. CASE /\ work'[w] = [workNow[w] EXCEPT !.status = "erased"]
             /\ \E t \in W, s \in Sids : stableIDMap[t][s] = w
    BY ONLY <2>1, <2>3, <2>5, Zenon
  <2> QED
    BY <1>2, <2>4, <2>5, Zenon
<1>4. work' \in [WorkIDs -> WorkRecords]
  <2>1. work' = [w \in WorkIDs |-> work'[w]]
    BY Zenon DEF UnblockTasks
  <2> QED
    BY <1>3, <2>1, Zenon
<1>5. /\ nextState' = [t \in TaskIDs |-> nextState'[t]]
      /\ \A t \in TaskIDs : nextState'[t] = states[t] \/ nextState'[t] = Failure
      /\ \A t \in TaskIDs \ W : nextState'[t] = states[t]
      /\ \A t \in W : nextState'[t] = IF NotFound(t, states[t].ids)
                                      THEN Failure ELSE states[t]
  BY Zenon DEF UnblockTasks
<1>6. \A t \in TaskIDs : nextState'[t].ids \in Seq(Sids)
  BY <1>5, StatesShaped, Zenon
<1>7. ASSUME NEW t \in TaskIDs \ W
      PROVE  ready'[t] = jobsNow[t]
  BY Zenon DEF UnblockTasks
<1>8. ASSUME NEW t \in W
      PROVE  ready'[t] \in Jobs /\ Released(t, states[t], jobsNow)
  <2>1. t \in TaskIDs /\ ~Throws(t, states[t].ids) /\ jobsNow[t] \in Jobs
    BY Zenon DEF UnblockTasks
  <2>2. CASE NotFound(t, states[t].ids)
    <3>1. ready'[t] = [jobsNow[t] EXCEPT !.finish = @ + 1]
      BY <2>1, <2>2, Zenon DEF UnblockTasks
    <3>2. Finished(nextState'[t])
      BY <1>5, <2>2, StatesShaped, Zenon
    <3> QED
      BY ONLY <2>1, <3>1, <3>2, OneMore, ZenonT(60) DEF Released
  <2>3. CASE ~NotFound(t, states[t].ids)
    <3>1. \/ ready'[t] = [jobsNow[t] EXCEPT !.compute = @ + 1]
          \/ ready'[t] = [jobsNow[t] EXCEPT !.lookup = @ + 1]
      <4>1. ready'[t] =
                IF ~config.actionCache
                      \/ SubtasksLeft(t, TakenSids(t, states[t].ids))
                THEN [jobsNow[t] EXCEPT !.compute = @ + 1]
                ELSE [jobsNow[t] EXCEPT !.lookup = @ + 1]
        BY <2>1, <2>3, Zenon DEF UnblockTasks
      <4> QED
        BY <4>1, Zenon
    <3>2. nextState'[t] = states[t]
      BY <1>5, <2>3, Zenon
    <3>3. CASE ready'[t] = [jobsNow[t] EXCEPT !.compute = @ + 1]
      <4>1. /\ ready'[t] \in Jobs
            /\ ready'[t].compute = jobsNow[t].compute + 1
            /\ ready'[t].lookup = jobsNow[t].lookup
            /\ ready'[t].finish = jobsNow[t].finish
        BY ONLY <2>1, <3>3, OneMore, ZenonT(60)
      <4> QED
        BY ONLY <3>2, <4>1, Zenon DEF Released
    <3>4. CASE ready'[t] = [jobsNow[t] EXCEPT !.lookup = @ + 1]
      <4>1. /\ ready'[t] \in Jobs
            /\ ready'[t].compute = jobsNow[t].compute
            /\ ready'[t].lookup = jobsNow[t].lookup + 1
            /\ ready'[t].finish = jobsNow[t].finish
        BY ONLY <2>1, <3>4, OneMore, ZenonT(60)
      <4> QED
        BY ONLY <3>2, <4>1, Zenon DEF Released
    <3> QED
      BY <3>1, <3>3, <3>4, Zenon
  <2> QED
    BY <2>2, <2>3, Zenon
<1>9. ready' \in [TaskIDs -> Jobs]
  <2>1. ready' = [t \in TaskIDs |-> ready'[t]]
    BY Zenon DEF UnblockTasks
  <2> QED
    BY <1>7, <1>8, <2>1, Zenon
<1> QED
  BY <1>1, <1>3, <1>4, <1>5, <1>6, <1>7, <1>8, <1>9, Zenon DEF Unblocked

\* What a step has done before it unblocks the tasks in W.  They are on the
\* lane or wait, and will no longer; the finish job of a task nobody waits for
\* any more is gone, or a submission nobody waits for any more is done.
Prepared(W, states, jobsNow, workNow) ==
    /\ requestedBy' \in [TaskIDs -> SUBSET TaskIDs]
    /\ waitingOn' \in [TaskIDs -> SUBSET (TaskIDs \cup WorkIDs)]
    /\ \A t \in TaskIDs : /\ requestedBy[t] \subseteq requestedBy'[t]
                          /\ waitingOn'[t] \subseteq waitingOn[t]
    /\ \A t \in TaskIDs \ W :
          /\ states[t] = nextState[t]
          /\ SameRun(t) /\ SameWait(t)
          /\ \/ jobsNow[t] = ready[t]
             \/ /\ ready[t].finish > 0
                /\ jobsNow[t].finish = ready[t].finish - 1
                /\ jobsNow[t].compute = ready[t].compute
                /\ jobsNow[t].lookup = ready[t].lookup
                /\ \A u \in TaskIDs : t \notin waitingOn'[u]
    /\ \A t \in W : /\ ~Finished(states[t])
                    /\ jobsNow[t] = ready[t] /\ waitingOn'[t] = {}
                    /\ Running(t) \/ waitingOn[t] # {}
                    /\ ~Running(t)'
    /\ \A w \in WorkIDs :
          /\ workNow[w].task = work[w].task /\ workNow[w].sid = work[w].sid
          /\ \/ workNow[w].status = work[w].status
             \/ /\ work[w].status \in {"pending", "done"}
                /\ workNow[w].status = "done"
                /\ w \notin waitingOn'[work[w].task]

\* A step that unblocks tasks keeps the invariant.
LEMMA UnblockStep ==
    ASSUME Inv, taskInfos' = taskInfos, nextWork' = nextWork,
           providers' = providers, held' = held,
           LaneShaped', lane' = lane \/ lane'.pc = "idle",
           NEW W \in SUBSET TaskIDs, NEW states, NEW jobsNow, NEW workNow,
           Unblocked(W, states, jobsNow, workNow),
           Prepared(W, states, jobsNow, workNow)
    PROVE  Inv'
<1>0. /\ requestedBy' \in [TaskIDs -> SUBSET TaskIDs]
      /\ waitingOn' \in [TaskIDs -> SUBSET (TaskIDs \cup WorkIDs)]
      /\ \A t \in TaskIDs : /\ requestedBy[t] \subseteq requestedBy'[t]
                            /\ waitingOn'[t] \subseteq waitingOn[t]
      /\ \A t \in TaskIDs \ W :
            /\ states[t] = nextState[t]
            /\ SameRun(t) /\ SameWait(t)
            /\ \/ jobsNow[t] = ready[t]
               \/ /\ ready[t].finish > 0
                  /\ jobsNow[t].finish = ready[t].finish - 1
                  /\ jobsNow[t].compute = ready[t].compute
                  /\ jobsNow[t].lookup = ready[t].lookup
                  /\ \A u \in TaskIDs : t \notin waitingOn'[u]
      /\ \A t \in W : /\ ~Finished(states[t])
                      /\ jobsNow[t] = ready[t] /\ waitingOn'[t] = {}
                      /\ Running(t) \/ waitingOn[t] # {}
                      /\ ~Running(t)'
      /\ \A w \in WorkIDs :
            /\ workNow[w].task = work[w].task /\ workNow[w].sid = work[w].sid
            /\ \/ workNow[w].status = work[w].status
               \/ /\ work[w].status \in {"pending", "done"}
                  /\ workNow[w].status = "done"
                  /\ w \notin waitingOn'[work[w].task]
  BY Zenon DEF Prepared
<1>. USE <1>0
<1>1. Shaped'
  BY Zenon DEF Inv, Shaped, Unblocked
<1>2. ASSUME NEW w \in WorkIDs, NEW t \in W, NEW s \in Sids, stableIDMap[t][s] = w
      PROVE  work[w].task = t /\ work[w].status \in Recorded
  BY <1>2, Zenon DEF Inv, Owned, Recorded
<1>3. ASSUME NEW w \in WorkIDs
      PROVE  /\ work'[w].task = work[w].task /\ work'[w].sid = work[w].sid
             /\ work[w].status \notin Recorded => work'[w].status = work[w].status
             /\ work[w].status \in Recorded => work'[w].status \in Recorded
             /\ \/ work[w].task \in W
                \/ work'[w].status = work[w].status
                \/ w \notin waitingOn'[work[w].task]
  BY <1>2 DEF Unblocked, Recorded
<1>4. ASSUME NEW t \in W
      PROVE  /\ t \in taskInfos /\ ready[t].finish = 0 /\ Requeued(t)
             /\ Placed(t)'
             /\ Finished(nextState'[t]) => ready'[t].finish = 1
  <2>1. /\ t \in TaskIDs /\ Placed(t) /\ ready[t] \in Jobs
        /\ t \in taskInfos /\ (OnLane(t) \/ Blocked(t))
    BY Known, Standing, Zenon
  <2>2. ~Finished(nextState[t]) /\ ready[t].finish = 0
    BY <2>1, Zenon DEF OnLane, Blocked, In, Placed, Over
  <2>3. Released(t, states[t], jobsNow) /\ jobsNow[t] = ready[t]
        /\ ~Finished(states[t])
    BY Zenon DEF Unblocked
  <2>4. Requeued(t)
    BY <2>2, <2>3, StatesShaped, Zenon DEF Requeued, Released, SameState
  <2>5. Finished(nextState'[t]) => ready'[t].finish = 1
    BY <2>2, <2>3 DEF Released
  <2>6. Placed(t)'
    BY <2>1, <2>4, Queueing, Zenon
  <2> QED
    BY <2>1, <2>2, <2>4, <2>5, <2>6, Zenon
<1>5. ASSUME NEW t \in TaskIDs \ W
      PROVE  nextState'[t] = nextState[t] /\ ready'[t] = jobsNow[t]
  BY DEF Unblocked
<1>6. ASSUME NEW t \in TaskIDs PROVE Placed(t)'
  <2>1. CASE t \in W
    BY <1>4, <2>1, Zenon
  <2>2. CASE t \notin W
    <3>1. /\ SameRun(t) /\ SameWait(t) /\ SameState(t) /\ SameInfo(t)
          /\ Placed(t) /\ ready[t] \in Jobs
      BY <1>5, <2>2, Known DEF SameState, SameInfo
    <3>2. CASE jobsNow[t] = ready[t]
      BY <1>5, <2>2, <3>1, <3>2, Elsewhere DEF SameJobs
    <3>3. CASE /\ ready[t].finish > 0
               /\ jobsNow[t].finish = ready[t].finish - 1
               /\ jobsNow[t].compute = ready[t].compute
               /\ jobsNow[t].lookup = ready[t].lookup
      BY <1>5, <2>2, <3>1, <3>3, Finishing
    <3> QED
      BY <2>2, <3>2, <3>3, Zenon
  <2> QED
    BY <2>1, <2>2, Zenon
<1>7. ASSUME NEW t \in TaskIDs, NEW x \in waitingOn'[t]
      PROVE  Told(t, x)'
  <2>1. t \notin W /\ Told(t, x) /\ x \in waitingOn[t]
    BY <1>7, Zenon DEF Inv
  <2>2. CASE x \in taskInfos /\ t \in requestedBy[x]
             /\ (Finished(nextState[x]) => ready[x].finish = 1)
    <3>1. x \in TaskIDs /\ t \in requestedBy'[x] /\ x \in taskInfos'
      BY <2>2, Known, Zenon
    <3>2. Finished(nextState'[x]) => ready'[x].finish = 1
      <4>1. CASE x \in W
        BY <1>4, <4>1, Zenon
      <4>2. CASE x \notin W
        BY <1>5, <1>7, <2>2, <3>1, <4>2
      <4> QED
        BY <4>1, <4>2, Zenon
    <3> QED
      BY <3>1, <3>2, Zenon DEF Told
  <2>3. CASE x \in WorkIDs /\ work[x].task = t /\ work[x].status = "pending"
    BY <1>3, <1>7, <2>1, <2>3, Zenon DEF Told
  <2> QED
    BY <2>1, <2>2, <2>3, Zenon DEF Told
<1>8. ASSUME NEW t \in TaskIDs, NEW s \in Sids PROVE Owned(t, s)'
  <2>1. Owned(t, s) /\ NoID \notin TaskIDs /\ NoID \notin WorkIDs
    <3>1. Owned(t, s)
      BY <1>8, Zenon DEF Inv
    <3>2. NoID \notin TaskIDs /\ NoID \notin WorkIDs
      BY ONLY TaskEngineAssumption DEF NoID, WorkIDs
    <3> QED
      BY <3>1, <3>2, Zenon
  <2>2. stableIDMap'[t][s] = stableIDMap[t][s] \/ stableIDMap'[t][s] = NoID
    BY ONLY <1>8, Unblocked(W, states, jobsNow, workNow) DEF Unblocked
  <2> QED
    BY <1>3, <2>1, <2>2 DEF Owned, Recorded
<1>9. Submitting'
  BY ONLY Inv, <1>3, nextWork' = nextWork, lane' = lane \/ lane'.pc = "idle"
     DEF Inv, Submitting, Recorded
<1> QED
  BY <1>1, <1>6, <1>7, <1>8, <1>9, Zenon DEF Inv

\* The task that returned is on the lane, and in no other place.
LEMMA OnTheLane ==
    ASSUME Inv, lane.pc = "next", NEW u \in TaskIDs, u = lane.task
    PROVE  /\ u \in taskInfos /\ OnLane(u) /\ waitingOn[u] = {} /\ Running(u)
           /\ ~Finished(nextState[u])
           /\ \A t \in TaskIDs \ {u} : ~Running(t)
           /\ lane.next.ids \in Seq(Sids)
<1>1. Running(u) /\ \A t \in TaskIDs \ {u} : ~Running(t)
  BY Zenon DEF Running
<1>2. u \in taskInfos /\ OnLane(u)
  BY <1>1, Known, Standing, Zenon
<1> QED
  BY <1>1, <1>2, Known, Zenon DEF OnLane, In, LaneShaped

\* Where an ID that was requested leads to.
LEMMA Waitable ==
    ASSUME Inv, NEW t \in TaskIDs, NEW ids \in Seq(Sids),
           NEW x \in Unresolved(t, Sound(t, ids))
    PROVE  \/ x \in taskInfos /\ ~Finished(nextState[x])
           \/ x \in WorkIDs /\ work[x].task = t /\ work[x].status = "pending"
<1>1. Sound(t, ids) \subseteq Sids
  BY DEF Sound
<1>2. PICK s \in Sids : x = stableIDMap[t][s]
  BY <1>1, Zenon DEF Unresolved
<1>3. Owned(t, s)
  BY Zenon DEF Inv
<1> QED
  BY <1>2, <1>3, Zenon DEF Owned, Unresolved

\* A task is only ever added to requestedBy.
LEMMA Registered ==
    ASSUME Inv, NEW t \in TaskIDs, NEW X
    PROVE  /\ Register(t, X) \in [TaskIDs -> SUBSET TaskIDs]
           /\ \A u \in TaskIDs : requestedBy[u] \subseteq Register(t, X)[u]
           /\ \A u \in TaskIDs \cap X : t \in Register(t, X)[u]
  BY Zenon DEF Inv, Shaped, Register

\* The task is entered in waitingOn.
LEMMA BlockStep ==
    ASSUME Inv, lane.pc = "next", lane' = Idle,
           NEW u \in TaskIDs, u = lane.task,
           NEW next, next.ids \in Seq(Sids), ~Finished(next),
           NEW X, X = Unresolved(u, Sound(u, next.ids)), X # {},
           requestedBy' = Register(u, X),
           nextState' = [nextState EXCEPT ![u] = next],
           waitingOn' = [waitingOn EXCEPT ![u] = X],
           UNCHANGED <<taskInfos, stableIDMap, work, nextWork, ready, providers,
                       held>>
    PROVE  Inv'
<1>1. LaneShaped' /\ lane'.pc = "idle" /\ \A t : ~Running(t)'
  BY LaneIdle, Zenon
<1>2. X \subseteq TaskIDs \cup WorkIDs
  BY Zenon DEF Unresolved
<1>3. /\ nextState' = [t \in TaskIDs |-> nextState'[t]]
      /\ nextState'[u] = next
      /\ \A t \in TaskIDs \ {u} : nextState'[t] = nextState[t]
      /\ waitingOn' \in [TaskIDs -> SUBSET (TaskIDs \cup WorkIDs)]
      /\ waitingOn'[u] = X
      /\ \A t \in TaskIDs \ {u} : waitingOn'[t] = waitingOn[t]
  BY <1>2, Zenon DEF Inv, Shaped
<1>4. Shaped'
  BY <1>1, <1>3, Registered DEF Inv, Shaped
<1>5. Placed(u)'
  <2>1. /\ Placed(u) /\ ready[u] \in Jobs /\ OnLane(u) /\ u \in taskInfos
        /\ ~Finished(nextState[u])
    BY Known, OnTheLane, Zenon
  <2>2. waitingOn'[u] # {} /\ SameJobs(u) /\ SameState(u) /\ u \in taskInfos'
    BY <1>3, <2>1, Zenon DEF SameJobs, SameState
  <2> QED
    BY <1>1, <2>1, <2>2, Blocking, Zenon
<1>6. ASSUME NEW t \in TaskIDs \ {u} PROVE Placed(t)'
  <2>1. /\ Placed(t) /\ SameRun(t) /\ SameInfo(t) /\ SameJobs(t) /\ SameWait(t)
        /\ SameState(t)
    BY <1>1, <1>3, Known, OnTheLane, Zenon
       DEF SameRun, SameInfo, SameJobs, SameWait, SameState
  <2> QED
    BY ONLY <2>1, Elsewhere, t \in TaskIDs \ {u}, Zenon
<1>7. \A x \in TaskIDs : Finished(nextState'[x]) => Finished(nextState[x])
  BY <1>3
<1>8. ASSUME NEW x \in X PROVE Told(u, x)'
  BY <1>7, Waitable, Registered, Known DEF Told
<1>9. ASSUME NEW t \in TaskIDs \ {u}, NEW x \in waitingOn[t] PROVE Told(t, x)'
  <2>1. Told(t, x)
    BY <1>9, Zenon DEF Inv
  <2> QED
    BY <1>7, <2>1, Registered, Known, Zenon DEF Told
<1>10. \A t \in TaskIDs : \A x \in waitingOn'[t] : Told(t, x)'
  BY <1>3, <1>8, <1>9
<1>11. Submitting'
  BY <1>1, Zenon DEF Inv, Submitting
<1>12. \A t \in TaskIDs, s \in Sids : Owned(t, s)'
  BY Zenon DEF Inv, Owned
<1> QED
  BY <1>4, <1>5, <1>6, <1>10, <1>11, <1>12, Zenon DEF Inv

\* processTaskNextState: the task waits, leaves its wait at once or finishes.
LEMMA Processing ==
    ASSUME Inv, ProcessTaskNextState, ~terminated'
    PROVE  Inv'
<1>0. PICK u \in TaskIDs : u = lane.task
  BY Known, Zenon DEF LaneShaped
<1>w. PICK workNow : workNow = work
  BY Zenon
<1>1. /\ lane.pc = "next" /\ lane' = Idle
      /\ UNCHANGED <<taskInfos, nextWork, providers, held>>
  BY Zenon DEF ProcessTaskNextState, engineState, client
<1>2. LaneShaped' /\ lane'.pc = "idle" /\ \A t : ~Running(t)'
  BY <1>1, LaneIdle, Zenon
<1>3. /\ u \in taskInfos /\ OnLane(u) /\ waitingOn[u] = {} /\ Running(u)
      /\ ~Finished(nextState[u])
      /\ \A t \in TaskIDs \ {u} : ~Running(t)
      /\ lane.next.ids \in Seq(Sids)
  BY <1>0, <1>1, OnTheLane, Zenon
<1>4. PICK X : X = Unresolved(u, Sound(u, lane.next.ids))
  BY Zenon
<1>5. PICK next : next = lane.next
  BY Zenon
<1>6. requestedBy' = Register(u, X) \/ requestedBy' = requestedBy
  BY <1>0, <1>4, Zenon DEF ProcessTaskNextState
<1>7. /\ requestedBy' \in [TaskIDs -> SUBSET TaskIDs]
      /\ \A t \in TaskIDs : requestedBy[t] \subseteq requestedBy'[t]
  BY <1>6, Registered DEF Inv, Shaped
<1>8. /\ work \in [WorkIDs -> WorkRecords]
      /\ waitingOn \in [TaskIDs -> SUBSET (TaskIDs \cup WorkIDs)]
      /\ nextState = [t \in TaskIDs |-> nextState[t]]
      /\ \A t \in TaskIDs : nextState[t].ids \in Seq(Sids)
  BY Zenon DEF Inv, Shaped
<1>9. ASSUME UNCHANGED waitingOn, NEW states,
             Unblocked({u}, states, ready, workNow), ~Finished(states[u]),
             \A t \in TaskIDs \ {u} : states[t] = nextState[t]
      PROVE  Inv'
  <2>1. \A t \in TaskIDs \ {u} : SameRun(t) /\ SameWait(t)
    BY <1>2, <1>3, <1>9, Zenon DEF SameRun, SameWait
  <2>2. Prepared({u}, states, ready, workNow)
    BY <1>2, <1>3, <1>7, <1>8, <1>9, <1>w, <2>1, Zenon DEF Prepared
  <2>3. {u} \in SUBSET TaskIDs
    BY Zenon
  <2>4. /\ taskInfos' = taskInfos /\ nextWork' = nextWork
        /\ providers' = providers /\ held' = held
    BY <1>1, Zenon
  <2> QED
    BY ONLY Inv, <1>2, <1>9, <2>2, <2>3, <2>4, UnblockStep, Zenon
<1>10. CASE /\ next.kind = "wait" /\ waitingOn' = waitingOn
            /\ UnblockTasks({u}, [nextState EXCEPT ![u] = next], ready, work)
  <2>1. PICK states : states = [nextState EXCEPT ![u] = next]
    BY Zenon
  <2>2. /\ states[u] = next /\ \A t \in TaskIDs \ {u} : states[t] = nextState[t]
        /\ \A t \in TaskIDs : states[t].ids \in Seq(Sids)
    BY <1>3, <1>5, <1>8, <2>1, Zenon
  <2>3. ~Finished(states[u])
    BY <1>10, <2>2, Zenon DEF Finished
  <2>4. Unblocked({u}, states, ready, workNow)
    BY <1>8, <1>10, <2>1, <2>2, <1>w, Known, Unblocking, Zenon
  <2> QED
    BY <1>9, <1>10, <2>2, <2>3, <2>4, Zenon
<1>11. CASE /\ next.kind = "wait" /\ X # {}
            /\ requestedBy' = Register(u, X)
            /\ nextState' = [nextState EXCEPT ![u] = next]
            /\ waitingOn' = [waitingOn EXCEPT ![u] = X]
            /\ UNCHANGED <<stableIDMap, work, ready>>
  <2>1. ~Finished(next) /\ next.ids \in Seq(Sids)
        /\ X = Unresolved(u, Sound(u, next.ids))
    BY <1>3, <1>4, <1>5, <1>11, Zenon DEF Finished
  <2> QED
    BY <1>0, <1>1, <1>11, <2>1, BlockStep, Zenon
<1>12. CASE /\ nextState' = [nextState EXCEPT ![u] =
                   IF Finished(next) THEN next ELSE Failure]
            /\ ready' = [ready EXCEPT ![u].finish = @ + 1]
            /\ UNCHANGED <<stableIDMap, work, waitingOn>>
  <2>1. /\ nextState' = [t \in TaskIDs |-> nextState'[t]]
        /\ \A t \in TaskIDs \ {u} : nextState'[t] = nextState[t]
        /\ (nextState'[u] = next /\ Finished(next)) \/ nextState'[u] = Failure
    BY <1>8, <1>12, Zenon
  <2>2. Finished(nextState'[u]) /\ \A t \in TaskIDs : nextState'[t].ids \in Seq(Sids)
    BY <1>3, <1>5, <1>8, <2>1, StatesShaped, Zenon
  <2>3. /\ ready' \in [TaskIDs -> Jobs]
        /\ \A t \in TaskIDs \ {u} : ready'[t] = ready[t]
        /\ ready'[u].compute = ready[u].compute
        /\ ready'[u].lookup = ready[u].lookup
        /\ ready'[u].finish = ready[u].finish + 1
    <3>1. ready \in [TaskIDs -> Jobs]
      BY Known, Zenon
    <3> QED
      BY ONLY <3>1, <1>12, u \in TaskIDs DEF Jobs
  <2>4. Released(u, nextState[u], ready)
    BY <2>2, <2>3, Zenon DEF Released
  <2>5. Unblocked({u}, nextState, ready, workNow)
    BY <1>8, <1>12, <2>1, <2>2, <2>3, <2>4, <1>w, Known, Zenon DEF Unblocked
  <2> QED
    BY <1>3, <1>9, <1>12, <2>5, Zenon
<1> QED
  BY <1>0, <1>4, <1>5, <1>10, <1>11, <1>12, Zenon DEF ProcessTaskNextState, jobs

\* The finish job: nobody is left waiting for the task.
LEMMA FinishRuns ==
    ASSUME Inv, NEW b \in TaskIDs, RunFinish(b), ~terminated'
    PROVE  Inv'
<1>w. PICK workNow : workNow = work
  BY Zenon
<1>1. /\ ready[b].finish > 0
      /\ UNCHANGED <<taskInfos, nextWork, providers, held, requestedBy, lane>>
  BY Zenon DEF RunFinish, engineState, client
<1>2. LaneShaped' /\ \A t \in TaskIDs : SameRun(t)
  BY <1>1, Known, Zenon DEF LaneShaped, SameRun, Running
<1>3. PICK W : W = {u \in requestedBy[b] : waitingOn[u] = {b}}
  BY Zenon
<1>4. PICK jobsNow : jobsNow = [ready EXCEPT ![b].finish = @ - 1]
  BY Zenon
<1>5. UnblockTasks(W, nextState, jobsNow, work)
  BY <1>3, <1>4, Zenon DEF RunFinish
<1>6. /\ requestedBy \in [TaskIDs -> SUBSET TaskIDs]
      /\ waitingOn \in [TaskIDs -> SUBSET (TaskIDs \cup WorkIDs)]
      /\ work \in [WorkIDs -> WorkRecords]
      /\ \A t \in TaskIDs : nextState[t].ids \in Seq(Sids)
  BY Zenon DEF Inv, Shaped
<1>7. W \in SUBSET TaskIDs
  BY <1>3, <1>6, Zenon
<1>8. b \notin W
  <2>1. Over(b)
    BY <1>1, Known, Standing, Zenon
  <2> QED
    BY <2>1, <1>3, Zenon DEF Over, In
<1>9. /\ jobsNow \in [TaskIDs -> Jobs]
      /\ \A t \in TaskIDs \ {b} : jobsNow[t] = ready[t]
      /\ jobsNow[b].finish = ready[b].finish - 1
      /\ jobsNow[b].compute = ready[b].compute
      /\ jobsNow[b].lookup = ready[b].lookup
  <2>1. ready \in [TaskIDs -> Jobs]
    BY Known, Zenon
  <2> QED
    BY ONLY <1>1, <1>4, <2>1, b \in TaskIDs DEF Jobs
<1>10. Unblocked(W, nextState, jobsNow, workNow)
  BY <1>5, <1>6, <1>7, <1>9, <1>w, Known, Unblocking, Zenon
<1>11. /\ waitingOn' = [u \in TaskIDs |-> waitingOn'[u]]
       /\ \A u \in requestedBy[b] : waitingOn'[u] = waitingOn[u] \ {b}
       /\ \A u \in TaskIDs \ requestedBy[b] : waitingOn'[u] = waitingOn[u]
  BY <1>6, Zenon DEF RunFinish
<1>12. /\ waitingOn' \in [TaskIDs -> SUBSET (TaskIDs \cup WorkIDs)]
       /\ \A u \in TaskIDs : waitingOn'[u] \subseteq waitingOn[u]
  BY <1>6, <1>11, Zenon
<1>13. \A u \in TaskIDs : b \notin waitingOn'[u]
  <2>1. b \notin WorkIDs
    BY TaskEngineAssumption DEF WorkIDs
  <2>2. \A u \in TaskIDs : b \in waitingOn[u] => u \in requestedBy[b]
    BY <2>1, Zenon DEF Inv, Told
  <2> QED
    BY <1>11, <2>2, Zenon
<1>14. \A u \in TaskIDs \ W : SameWait(u)
  BY <1>3, <1>11 DEF SameWait
<1>15. ASSUME NEW t \in W
       PROVE  /\ ~Finished(nextState[t])
              /\ jobsNow[t] = ready[t] /\ waitingOn'[t] = {}
              /\ waitingOn[t] # {}
              /\ ~Running(t)'
  <2>1. t \in TaskIDs /\ t # b /\ waitingOn[t] = {b} /\ t \in requestedBy[b]
    BY <1>3, <1>7, <1>8, Zenon
  <2>2. Blocked(t)
    BY <2>1, Known, Standing, Zenon
  <2>3. ~Finished(nextState[t]) /\ ~Running(t)
    BY <2>1, <2>2, Zenon DEF Blocked, In
  <2> QED
    BY <1>2, <1>9, <1>11, <2>1, <2>3, Zenon DEF SameRun
<1>16. Prepared(W, nextState, jobsNow, workNow)
  BY <1>1, <1>2, <1>6, <1>9, <1>12, <1>13, <1>14, <1>15, <1>w, Zenon DEF Prepared
<1>17. /\ taskInfos' = taskInfos /\ nextWork' = nextWork
       /\ providers' = providers /\ held' = held /\ lane' = lane
  BY <1>1, Zenon
<1> QED
  BY ONLY Inv, <1>2, <1>7, <1>10, <1>16, <1>17, UnblockStep, Zenon

\* notifyActionComplete and notifySubtaskComplete.
LEMMA Notified ==
    ASSUME Inv, NEW w \in WorkIDs, NEW val \in {"value", "error"},
           NotifyComplete(w, val), ~terminated'
    PROVE  Inv'
<1>1. PICK u : u = work[w].task
  BY Zenon
<1>2. PICK told : told = [work EXCEPT ![w].status = "done", ![w].val = val]
  BY Zenon
<1>3. PICK W : W = Completed(u, w)
  BY Zenon
<1>4. /\ work[w].status \in {"pending", "done"}
      /\ waitingOn' = [waitingOn EXCEPT ![u] = @ \ {w}]
      /\ IF W = {}
         THEN work' = told /\ UNCHANGED <<stableIDMap, nextState, ready>>
         ELSE UnblockTasks(W, nextState, ready, told)
      /\ UNCHANGED <<taskInfos, nextWork, providers, held, requestedBy, lane>>
  BY <1>1, <1>2, <1>3, Zenon DEF NotifyComplete, engineState, client, jobs
<1>5. LaneShaped' /\ \A t \in TaskIDs : SameRun(t)
  BY <1>4, Known, Zenon DEF LaneShaped, SameRun, Running
<1>6. /\ requestedBy \in [TaskIDs -> SUBSET TaskIDs]
      /\ waitingOn \in [TaskIDs -> SUBSET (TaskIDs \cup WorkIDs)]
      /\ work \in [WorkIDs -> WorkRecords]
      /\ nextState = [t \in TaskIDs |-> nextState[t]]
      /\ \A t \in TaskIDs : nextState[t].ids \in Seq(Sids)
      /\ ready \in [TaskIDs -> Jobs]
      /\ stableIDMap \in [TaskIDs -> [Sids -> TaskIDs \cup WorkIDs \cup {NoID}]]
  BY Zenon DEF Inv, Shaped
<1>7. u \in TaskIDs
  BY <1>1, <1>6, Zenon DEF WorkRecords
<1>8. /\ told \in [WorkIDs -> WorkRecords]
      /\ \A v \in WorkIDs \ {w} : told[v] = work[v]
      /\ told[w].task = work[w].task /\ told[w].sid = work[w].sid
      /\ told[w].status = "done"
  <2>1. work[w] \in WorkRecords
    BY <1>6, Zenon
  <2> QED
    BY ONLY <1>2, <1>6, <2>1, w \in WorkIDs, val \in {"value", "error"}, Zenon
       DEF WorkRecords, WorkStatus
<1>9. /\ W = {} \/ (W = {u} /\ waitingOn[u] = {w})
      /\ waitingOn[u] = {w} => W = {u}
      /\ W \in SUBSET TaskIDs
  <2>1. \A t : t \in W <=> t = u /\ waitingOn[t] = {w}
    BY <1>3, Zenon DEF Completed
  <2>0. W \in SUBSET TaskIDs
    BY <1>7, <2>1, Zenon
  <2>2. CASE waitingOn[u] = {w}
    <3>1. \A t : t \in W <=> t = u
      BY <2>1, <2>2, Zenon
    <3>2. W = {u}
      BY ONLY <3>1, Zenon
    <3> QED
      BY <2>2, <2>0, <3>2, Zenon
  <2>3. CASE waitingOn[u] # {w}
    <3>1. \A t : t \notin W
      BY <2>1, <2>3, Zenon
    <3>2. W = {}
      BY ONLY <3>1, Zenon
    <3> QED
      BY ONLY <2>3, <2>0, <3>2, Zenon
  <2> QED
    BY <2>2, <2>3, Zenon
<1>10. Unblocked(W, nextState, ready, told)
  <2>1. CASE W = {}
    BY <1>4, <1>6, <1>8, <2>1, Zenon DEF Unblocked
  <2>2. CASE W # {}
    BY <1>4, <1>6, <1>8, <1>9, <2>2, Unblocking, Zenon
  <2> QED
    BY <2>1, <2>2, Zenon
<1>11. /\ waitingOn' \in [TaskIDs -> SUBSET (TaskIDs \cup WorkIDs)]
       /\ waitingOn'[u] = waitingOn[u] \ {w}
       /\ \A t \in TaskIDs \ {u} : waitingOn'[t] = waitingOn[t]
       /\ \A t \in TaskIDs : waitingOn'[t] \subseteq waitingOn[t]
  BY <1>4, <1>6, <1>7, Zenon
<1>12. \A t \in TaskIDs \ W : SameWait(t)
  BY <1>9, <1>11, Zenon DEF SameWait
<1>13. ASSUME NEW t \in W
       PROVE  /\ ~Finished(nextState[t])
              /\ waitingOn'[t] = {} /\ waitingOn[t] # {}
              /\ ~Running(t)'
  <2>1. t = u /\ waitingOn[t] = {w} /\ t \in TaskIDs
    BY <1>7, <1>9, Zenon
  <2>2. Blocked(t)
    BY <2>1, Known, Standing, Zenon
  <2>3. ~Finished(nextState[t]) /\ ~Running(t)
    BY <2>1, <2>2, Zenon DEF Blocked, In
  <2> QED
    BY <1>5, <1>11, <2>1, <2>3, Zenon DEF SameRun
<1>14. \A v \in WorkIDs :
           /\ told[v].task = work[v].task /\ told[v].sid = work[v].sid
           /\ \/ told[v].status = work[v].status
              \/ /\ work[v].status \in {"pending", "done"}
                 /\ told[v].status = "done"
                 /\ v \notin waitingOn'[work[v].task]
  BY <1>1, <1>4, <1>8, <1>11, Zenon
<1>15. Prepared(W, nextState, ready, told)
  BY <1>4, <1>5, <1>6, <1>11, <1>12, <1>13, <1>14, Zenon DEF Prepared
<1> QED
  BY <1>4, <1>5, <1>9, <1>10, <1>15, UnblockStep, Zenon

-----------------------------------------------------------------------------
(***************************************************************************)
(* The whole engine.                                                       *)
(***************************************************************************)
\* The engine is constructed with no task.
LEMMA Initially ==
    EngineInit => IInv
<1>. SUFFICES ASSUME EngineInit PROVE Inv
  BY Zenon DEF IInv
<1>1. /\ taskInfos = {} /\ providers = {BaseProvider}
      /\ stableIDMap = [t \in TaskIDs |-> [s \in Sids |-> NoID]]
      /\ requestedBy = [t \in TaskIDs |-> {}]
      /\ waitingOn = [t \in TaskIDs |-> {}]
      /\ nextState = [t \in TaskIDs |-> Unset]
      /\ work = [w \in WorkIDs |-> NoWork] /\ nextWork = 0
      /\ ready = [t \in TaskIDs |-> NoJobs]
      /\ held = [r \in Rules |-> {}] /\ lane = Idle
  BY Zenon DEF EngineInit
<1>2. NoWork \in WorkRecords /\ NoJobs \in Jobs
  BY Typed, Zenon DEF NoWork, WorkRecords, WorkStatus, NoJobs, Jobs
<1>3. LaneShaped /\ lane.pc = "idle" /\ \A t : ~Running(t)
  BY <1>1, StatesShaped, Typed, Zenon DEF LaneShaped, Idle, Running
<1>4. Shaped
  BY <1>1, <1>2, <1>3, StatesShaped, TaskEngineAssumption DEF Shaped
<1>5. ASSUME NEW t \in TaskIDs PROVE Placed(t)
  <2>1. ready[t] = NoJobs /\ waitingOn[t] = {} /\ ~Finished(nextState[t])
    BY <1>1, StatesShaped, Zenon
  <2> QED
    BY <1>1, <1>3, <2>1, Zenon DEF Placed, Nowhere, In, NoJobs
<1>6. \A t \in TaskIDs, s \in Sids : Owned(t, s)
  BY <1>1, TaskEngineAssumption DEF Owned, NoID, WorkIDs
<1>7. Submitting
  BY <1>1, <1>3, Zenon DEF Submitting, NoWork
<1>8. \A t \in TaskIDs : waitingOn[t] = {}
  BY <1>1, Zenon
<1> QED
  BY <1>4, <1>5, <1>6, <1>7, <1>8, Zenon DEF Inv

\* Every job of executeLane, and every request made inside one.
LEMMA LaneKeeps ==
    ASSUME Inv, LaneStep, ~terminated'
    PROVE  Inv'
  BY Leaving, Processing, Returning, PendingRecorded, Initializing, FinishRuns,
     LookingUp, Computing, RuleRequest, RootInitializing, RootRequesting,
     RootResulting, ArtifactRequest, Registering, Zenon
     DEF LaneStep

\* A step of the engine, whoever takes it: the client, the lane, or the
\* executor with its answer to submit or with a report.
EngineStep ==
    \/ ClientStep \/ LaneStep \/ SubmitAccepted \/ SubmitRejected
    \/ \E x \in Actions : TaskRequestAction(x)
    \/ \E t \in Rules : \E ask \in wants[t] : TaskSpawnSubtask(ask)
    \/ \E w \in WorkIDs, val \in {"value", "error"} : NotifyComplete(w, val)

\* Only a step that lets an exception escape breaks the invariant.
LEMMA StepKeeps ==
    ASSUME IInv, \/ ~terminated /\ EngineStep
                 \/ UNCHANGED engineVars
    PROVE  IInv'
<1>. SUFFICES ASSUME ~terminated' PROVE Inv'
  BY Zenon DEF IInv
<1>1. CASE UNCHANGED engineVars
  <2>1. UNCHANGED <<taskInfos, waits, work, nextWork, ready, stableIDMap, held,
                    lane, providers, terminated>>
    BY <1>1, Zenon DEF engineVars, requests, jobs, client, engineState
  <2>2. Inv
    BY <2>1, Zenon DEF IInv
  <2>3. LaneShaped' /\ \A t \in TaskIDs : SameRun(t)
    BY <2>1, <2>2, Known, Zenon DEF LaneShaped, SameRun, Running
  <2> QED
    BY <2>1, <2>2, <2>3, Known, Bystanding, Zenon
<1>2. CASE ~terminated /\ EngineStep
  <2>1. Inv
    BY <1>2, Zenon DEF IInv
  <2> QED
    BY <1>2, <2>1, ClientKeeps, LaneKeeps, Accepting, Rejecting, ActionRequest,
       Spawning, Notified, Zenon
       DEF EngineStep
<1> QED
  BY <1>1, <1>2, Zenon

\* The places are exclusive, so a task in one of them has one activation.
LEMMA OnePlace ==
    ASSUME Inv, NEW t \in taskInfos
    PROVE  Activations(t) = 1
<1>1. t \in TaskIDs /\ Placed(t)
  BY Known, Zenon
<1>2. CASE ToCompute(t)
  BY <1>2 DEF ToCompute, In, Activations, Count
<1>3. CASE ToLookUp(t)
  BY <1>3 DEF ToLookUp, In, Activations, Count
<1>4. CASE OnLane(t)
  BY <1>4 DEF OnLane, In, Activations, Count
<1>5. CASE Blocked(t)
  BY <1>5 DEF Blocked, In, Activations, Count
<1>6. CASE Over(t)
  BY <1>6 DEF Over, In, Activations, Count
<1> QED
  BY <1>1, <1>2, <1>3, <1>4, <1>5, <1>6, Zenon DEF Placed

\* What the invariant says of a task in flight and of one that waits.
LEMMA Consequences ==
    IInv => OneActivation /\ BlockedTasksAreTold
<1>1. IInv => OneActivation
  BY OnePlace, Zenon DEF IInv, OneActivation
<1>2. IInv => BlockedTasksAreTold
  BY Zenon DEF IInv, Inv, Told, BlockedTasksAreTold
<1> QED
  BY <1>1, <1>2, Zenon

-----------------------------------------------------------------------------
\* No number is drawn, and the lane does not come to submit.
DrawsNothing == nextWork' = nextWork /\ (lane' = lane \/ lane'.pc # "submit")

\* Only BeginSubmit draws a number.
LEMMA LaneDraws ==
    ASSUME Inv, \/ LaneStep \/ ClientStep \/ SubmitAccepted \/ SubmitRejected
                \/ (\E w \in WorkIDs, val \in {"value", "error"} :
                       NotifyComplete(w, val))
                \/ UNCHANGED engineVars
    PROVE  DrawsNothing
<1>1. LaneShaped
  BY Zenon DEF Inv, Shaped
<1>2. lane' = Idle => lane'.pc # "submit"
  BY DEF Idle
<1>3. CASE ClientStep \/ UNCHANGED engineVars
  BY <1>3, Zenon DEF ClientStep, Shutdown, Build, AddCompletionHandler, DrawsNothing,
              engineVars, requests
<1>4. CASE SubmitAccepted
  BY <1>1, <1>4, Zenon DEF SubmitAccepted, DrawsNothing, requests, LaneShaped
<1>5. ASSUME NEW ask, RequestFails(ask) PROVE lane'.pc # "submit"
  <2>1. lane' = Idle \/ lane' = [lane EXCEPT !.pc = "compute", !.work = 0]
    BY <1>5, Zenon DEF RequestFails
  <2>2. ASSUME lane' = [lane EXCEPT !.pc = "compute", !.work = 0]
        PROVE  lane'.pc # "submit"
    BY <1>1, <2>2, Zenon DEF LaneShaped
  <2> QED
    BY <1>2, <2>1, <2>2, Zenon
<1>6. ASSUME NEW ask, NEW id, Answer(ask, id) PROVE lane'.pc # "submit"
  BY <1>1, <1>6, Zenon DEF Answer, LaneShaped
<1>7. ASSUME NEW t, NEW next, Computed(t, next) PROVE lane'.pc # "submit"
  BY <1>7, Zenon DEF Computed, Idle
<1>8. CASE SubmitRejected \/ RecordPending
  BY <1>5, <1>6, <1>8, Zenon DEF SubmitRejected, RecordPending, DrawsNothing
<1>9. CASE \E w \in WorkIDs, val \in {"value", "error"} : NotifyComplete(w, val)
  BY <1>9, Zenon DEF NotifyComplete, DrawsNothing, requests
<1>10. CASE LaneExits
  BY <1>1, <1>10, Zenon DEF LaneExits, DrawsNothing, requests, LaneShaped
<1>11. CASE ProcessTaskNextState
  BY <1>2, <1>11, Zenon DEF ProcessTaskNextState, DrawsNothing
<1>12. CASE Return
  <2>0. ASSUME NEW next, Returns(next) PROVE lane'.pc # "submit"
    BY <2>0, Zenon DEF Returns, Idle
  <2>1. \E next : Returns(next)
    BY <1>12, Zenon DEF Return
  <2>2. nextWork' = nextWork
    BY <1>12, Zenon DEF Return, requests
  <2> QED
    BY <2>0, <2>1, <2>2, Zenon DEF DrawsNothing
<1>13. CASE RunInitTask
  BY <1>7, <1>13, Zenon DEF RunInitTask, DrawsNothing
<1>14. CASE \E t \in TaskIDs : RunFinish(t) \/ RunLookup(t)
  <2>1. nextWork' = nextWork
    BY <1>14, Zenon DEF RunFinish, RunLookup, requests
  <2>2. lane' = lane \/ lane'.pc # "submit"
    <3>1. ASSUME NEW t, RunFinish(t) PROVE lane' = lane
      BY <3>1, Zenon DEF RunFinish
    <3>2. ASSUME NEW t, RunLookup(t), lane' # lane PROVE lane'.pc # "submit"
      <4>1. lane' = [Idle EXCEPT !.pc = "compute", !.task = t, !.replay = TRUE]
        BY <3>2, Zenon DEF RunLookup
      <4> QED
        BY <4>1, Zenon DEF Idle
    <3> QED
      BY <1>14, <3>1, <3>2, Zenon
  <2> QED
    BY <2>1, <2>2, Zenon DEF DrawsNothing
<1>15. CASE \E r \in Rules : RunCompute(r) \/ TaskRequestRule(r)
  <2>1. nextWork' = nextWork
    BY <1>15, Zenon DEF RunCompute, TaskRequestRule, requests
  <2>2. lane'.pc # "submit"
    <3>1. ASSUME NEW r, RunCompute(r) PROVE lane'.pc # "submit"
      BY <3>1, Zenon DEF RunCompute, Idle
    <3>2. ASSUME NEW r, TaskRequestRule(r) PROVE lane'.pc # "submit"
      BY <1>5, <1>6, <3>2, Zenon DEF TaskRequestRule
    <3> QED
      BY <1>15, <3>1, <3>2, Zenon
  <2> QED
    BY <2>1, <2>2, Zenon DEF DrawsNothing
<1>16. CASE \E b \in Builds : RunRootInit(b) \/ RunRootRequest(b) \/ RunRootResult(b)
  <2>1. nextWork' = nextWork
    BY <1>16, Zenon DEF RunRootInit, RunRootRequest, RunRootResult, requests
  <2>2. lane'.pc # "submit"
    <3>1. ASSUME NEW b, RunRootInit(b) \/ RunRootResult(b)
          PROVE  lane'.pc # "submit"
      BY <1>7, <3>1, Zenon DEF RunRootInit, RunRootResult
    <3>2. ASSUME NEW b, RunRootRequest(b) PROVE lane'.pc # "submit"
      <4>1. CASE lane' = [Idle EXCEPT !.pc = "hung", !.task = b]
        BY <4>1, Zenon DEF Idle
      <4>2. CASE lane' # [Idle EXCEPT !.pc = "hung", !.task = b]
        BY <1>7, <3>2, <4>2, Zenon DEF RunRootRequest
      <4> QED
        BY <4>1, <4>2, Zenon
    <3> QED
      BY <1>16, <3>1, <3>2, Zenon
  <2> QED
    BY <2>1, <2>2, Zenon DEF DrawsNothing
<1>17. CASE \E a \in Artifacts : TaskRequestArtifact(a)
  BY <1>5, <1>6, <1>17, Zenon DEF TaskRequestArtifact, DrawsNothing
<1>18. CASE \E p \in Providers : RegisterRuleProvider(p)
  BY <1>18, Zenon DEF RegisterRuleProvider, DrawsNothing, requests
<1> QED
  BY <1>3, <1>4, <1>8, <1>9, <1>10, <1>11, <1>12, <1>13, <1>14, <1>15, <1>16,
     <1>17, <1>18, Zenon DEF LaneStep

\* Once the engine's lane has ended it stays so.
LEMMA StaysExited ==
    ASSUME lane.pc = "exited",
           \/ ClientStep \/ LaneStep \/ SubmitAccepted \/ SubmitRejected
           \/ \E x \in Actions : TaskRequestAction(x)
           \/ \E t \in Rules : \E ask \in wants[t] : TaskSpawnSubtask(ask)
           \/ \E w, val : NotifyComplete(w, val)
           \/ UNCHANGED engineVars
    PROVE  lane' = lane
<1>1. ~(LaneExits \/ ProcessTaskNextState \/ Return \/ RecordPending \/ RunInitTask)
  BY Zenon DEF LaneExits, ProcessTaskNextState, Return, RecordPending, RunInitTask
<1>2. \A t : ~(RunFinish(t) \/ RunLookup(t) \/ RunCompute(t) \/ RunRootInit(t)
               \/ RunRootRequest(t) \/ RunRootResult(t))
  BY Zenon DEF RunFinish, RunLookup, RunCompute, RunRootInit, RunRootRequest, RunRootResult
<1>3. \A x : ~(TaskRequestRule(x) \/ TaskRequestArtifact(x) \/ RegisterRuleProvider(x)
               \/ TaskRequestAction(x) \/ TaskSpawnSubtask(x))
  BY Zenon DEF TaskRequestRule, TaskRequestArtifact, RegisterRuleProvider,
         TaskRequestAction, TaskSpawnSubtask, BeginSubmit, Asking
<1>4. ~SubmitAccepted /\ ~SubmitRejected /\ ~LaneStep
  BY <1>1, <1>2, <1>3, Zenon DEF SubmitAccepted, SubmitRejected, LaneStep
<1>5. ClientStep \/ UNCHANGED engineVars => lane' = lane
  BY Zenon DEF ClientStep, Shutdown, Build, AddCompletionHandler, engineVars
<1>6. \A w, val : NotifyComplete(w, val) => lane' = lane
  BY Zenon DEF NotifyComplete
<1> QED
  BY <1>3, <1>4, <1>5, <1>6, Zenon

-----------------------------------------------------------------------------
(***************************************************************************)
(* The engine over any executor: one that takes or refuses what it likes,  *)
(* and reports any number at any time.                                     *)
(***************************************************************************)
OverAnyExecutor == EngineInit /\ [][~terminated /\ EngineStep]_engineVars

\* The engine's invariant asks nothing of its executor.
LEMMA InvariantOverAny ==
    OverAnyExecutor => []IInv
<1>1. EngineInit => IInv
  BY Initially, Zenon
<1>2. IInv /\ [~terminated /\ EngineStep]_engineVars => IInv'
  BY StepKeeps, Zenon
<1> QED
  BY <1>1, <1>2, PTL DEF OverAnyExecutor

\* A task inserted by insertTask is always in exactly one place until an
\* exception ends the process: queued, looked up, computed, waiting or
\* finished.  This holds for every set of rules, providers and builds, whatever
\* the tasks request and return, and whatever the executor's threads report.
THEOREM OneActivationHolds ==
    OverAnyExecutor => []OneActivation
<1>1. IInv => OneActivation
  BY Consequences, Zenon
<1> QED
  BY <1>1, InvariantOverAny, PTL

\* Whatever processTaskNextState makes a task wait for will tell it: a task
\* that has yet to run its finish job and has the waiting task in requestedBy,
\* or an action or subtask of its own that is still pending.
THEOREM BlockedTasksAreToldHolds ==
    OverAnyExecutor => []BlockedTasksAreTold
<1>1. IInv => BlockedTasksAreTold
  BY Consequences, Zenon
<1> QED
  BY <1>1, InvariantOverAny, PTL
==============================================================================
