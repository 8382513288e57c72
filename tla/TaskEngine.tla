------------------------------ MODULE TaskEngine ------------------------------
(***************************************************************************)
(* The builra3 engine (src/builra3/Engine.cpp): tasks that are computed on *)
(* the engine's one lane, the artifacts, rules, actions and subtasks they  *)
(* request and wait for, the builds a client asks for and the handlers it  *)
(* hangs on them.                                                          *)
(*                                                                         *)
(* A rule configures at most one task, which stays in taskInfos for good,  *)
(* so a rule names its task, and a build its root task.  Actions and       *)
(* subtasks have numbers.  A stable ID is the thing it is the hash of.     *)
(* Task::compute is the client's: it makes any of the requests in wants,   *)
(* each once, and returns any next state made of the IDs it was given.     *)
(*                                                                         *)
(* There is one lane (numLanes = 1), and all requests are made on it.  The *)
(* other threads only insert root tasks, add handlers and report actions   *)
(* and subtasks, so a step of the lane is a whole request or a whole call  *)
(* of processTaskNextState, and a submission is cut where the executor may *)
(* answer before the engine has recorded what it submitted.                *)
(***************************************************************************)
EXTENDS Integers, Sequences, FiniteSets

CONSTANTS
    Rules, Artifacts, Actions, Builds, Handlers, Providers,
    InitTask,            \* the task named __init__
    NoRule,
    Produces,            \* the artifacts of each rule
    InitProps,           \* rules whose task has props.init
    Cacheable,           \* rules whose task has props.cacheable
    Broken,              \* rules whose provider or configureTask gives nothing
    RulesOf,             \* the rules each provider has
    BaseProvider,        \* the provider the engine is constructed with
    Target,              \* the artifact each build asks for
    Scenarios,           \* EngineConfig::initRule or NoRule, whether there
                         \* is an action cache and a remote executor, the
                         \* requests each rule's task may make, the builds
                         \* and handlers of the client, and whether it
                         \* destroys the engine
    MaxBatch,            \* bound on the IDs in one wait
    MaxWork              \* bound on submissions

TaskIDs == Rules \cup Builds \cup {InitTask}
WorkIDs == 1 .. MaxWork
NoID == 0

ArtifactSid(a) == <<"artifact", a>>
RuleSid(r) == <<"rule", r>>
ActionSid(x) == <<"action", x>>
SubtaskSid(w) == <<"subtask", w>>
\* What taskRequestRule gives for a task in flight: its ID, not a stable ID.
RawID(r) == <<"raw", r>>

Sids == {ArtifactSid(a) : a \in Artifacts}
            \cup {RuleSid(r) : r \in Rules \cup {InitTask}}
            \cup {ActionSid(x) : x \in Actions}
            \cup {SubtaskSid(w) : w \in WorkIDs}
            \cup {RawID(r) : r \in Rules}
NoSid == <<"none", NoRule>>

ASSUME TaskEngineAssumption ==
    /\ MaxWork \in Nat /\ MaxBatch \in Nat \ {0}
    /\ \A t \in TaskIDs : t \notin Int /\ t # NoRule
    /\ Rules \cap Builds = {} /\ InitTask \notin Rules \cup Builds
    /\ Produces \in [Rules -> SUBSET Artifacts]
    /\ \A r, q \in Rules : r # q => Produces[r] \cap Produces[q] = {}
    /\ RulesOf \in [Providers -> SUBSET Rules] /\ BaseProvider \in Providers
    /\ Target \in [Builds -> Artifacts]
    /\ \A s \in Scenarios : s.initRule \in Rules \cup {NoRule}
    /\ InitProps \subseteq Rules /\ Cacheable \subseteq Rules
    /\ Broken \subseteq Rules

VARIABLES
    taskInfos,           \* the tasks inserted so far
    stableIDMap, requestedTaskInputs, requestedBy, waitingOn, nextState,
    work,                \* actionTaskMap, pendingActions and their subtask
                         \* counterparts, by the number of the submission
    nextWork,            \* submissions so far
    ready,               \* readyJobs: how many of each kind for each task
    batch,               \* what the task's queued computation is given
    providers,           \* the registered rule providers
    config,              \* the scenario; fixed
    initialized, shutdown,
    lane,                \* what the lane's thread is doing
    buildResult, handlers,
    wants, held,         \* the client's: requests to make, IDs received
    terminated           \* an exception has escaped a thread

requests == <<stableIDMap, requestedTaskInputs, work, nextWork>>
waits == <<requestedBy, waitingOn, nextState>>
jobs == <<ready, batch>>
builds == <<buildResult, handlers>>
client == <<wants, held>>
engineState == <<providers, config, initialized, shutdown>>
engineVars == <<taskInfos, requests, waits, jobs, engineState, lane, builds,
                client, terminated>>

-----------------------------------------------------------------------------
Unset == [kind |-> "unset", ids |-> <<>>, ctx |-> 0, arts |-> {}]
Wait(ids, ctx) == [kind |-> "wait", ids |-> ids, ctx |-> ctx, arts |-> {}]
Result(arts) == [kind |-> "result", ids |-> <<>>, ctx |-> 0, arts |-> arts]
Failure == [kind |-> "error", ids |-> <<>>, ctx |-> 0, arts |-> {}]

Finished(state) == state.kind \in {"result", "error"}

Idle == [pc |-> "idle", task |-> InitTask, next |-> Unset, work |-> 0,
         ask |-> NoSid, asked |-> {}, replay |-> FALSE]
NoWork == [kind |-> "none", task |-> InitTask, sid |-> NoSid,
           status |-> "unused", val |-> "none"]

NoJobs == [compute |-> 0, lookup |-> 0, finish |-> 0]
Start == [ctx |-> 0, inputs |-> <<>>]

EngineInit ==
    /\ taskInfos = {}
    /\ stableIDMap = [t \in TaskIDs |-> [s \in Sids |-> NoID]]
    /\ requestedTaskInputs = [t \in TaskIDs |-> [u \in TaskIDs |-> NoSid]]
    /\ requestedBy = [t \in TaskIDs |-> {}]
    /\ waitingOn = [t \in TaskIDs |-> {}]
    /\ nextState = [t \in TaskIDs |-> Unset]
    /\ work = [w \in WorkIDs |-> NoWork]
    /\ nextWork = 0
    /\ ready = [t \in TaskIDs |-> NoJobs]
    /\ batch = [t \in TaskIDs |-> Start]
    /\ providers = {BaseProvider}
    /\ config \in Scenarios
    /\ wants = config.wants
    /\ initialized = FALSE
    /\ shutdown = FALSE
    /\ lane = Idle
    /\ buildResult = [b \in Builds |-> "none"]
    /\ handlers = [b \in Builds |-> [h \in Handlers |-> "none"]]
    /\ held = [r \in Rules |-> {}]
    /\ terminated = FALSE

\* insertTask: the new task's first computation is queued at once, without a
\* look at the task cache.
Inserted(jobsNow, t) == [jobsNow EXCEPT ![t].compute = @ + 1]

-----------------------------------------------------------------------------
(***************************************************************************)
(* The client's threads.                                                   *)
(***************************************************************************)
Build(b) ==
    /\ b \in config.builds \ taskInfos
    /\ ~shutdown
    /\ taskInfos' = taskInfos \cup {b}
    /\ ready' = Inserted(ready, b)
    /\ UNCHANGED <<requests, waits, batch, engineState, lane, builds, client,
                   terminated>>

\* Mutant of AddCompletionHandler: the handler is queued without a look at the result.
AddHandlerUnlooked(b, h) ==
    /\ b \in taskInfos /\ h \in config.handlers
    /\ handlers[b][h] = "none"
    /\ handlers' = [handlers EXCEPT ![b][h] = "waiting"]
    /\ UNCHANGED <<taskInfos, requests, waits, jobs, engineState, lane,
                   buildResult, client, terminated>>

\* A handler added after the result is called at once, with that result.
AddCompletionHandler(b, h) ==
    /\ b \in taskInfos /\ h \in config.handlers
    /\ handlers[b][h] = "none"
    /\ handlers' = [handlers EXCEPT ![b][h] =
           IF buildResult[b] = "none" THEN "waiting" ELSE buildResult[b]]
    /\ UNCHANGED <<taskInfos, requests, waits, jobs, engineState, lane,
                   buildResult, client, terminated>>

\* The destructor of the engine, up to the join of its lane.
Shutdown ==
    /\ config.destroys
    /\ ~shutdown
    /\ shutdown' = TRUE
    /\ UNCHANGED <<taskInfos, requests, waits, jobs, providers, config,
                   initialized, lane, builds, client, terminated>>

LaneExits ==
    /\ shutdown
    /\ lane.pc = "idle"
    /\ \A t \in TaskIDs : ready[t] = NoJobs
    /\ lane' = [lane EXCEPT !.pc = "exited"]
    /\ UNCHANGED <<taskInfos, requests, waits, jobs, engineState, builds,
                   client, terminated>>

-----------------------------------------------------------------------------
(***************************************************************************)
(* Unblocking.  unblockTask takes the IDs of the wait one by one: it       *)
(* erases each from stableIDMap, then hands over the finished task, the    *)
(* action or the subtask behind it and erases that too.  An ID that comes  *)
(* twice is not found the second time.  A second ID of the same task finds *)
(* requestedTaskInputs already emptied, and at() throws.                   *)
(***************************************************************************)
Repeated(ids, k) == \E j \in 1 .. (k - 1) : ids[j] = ids[k]

Reused(t, ids, k) ==
    /\ stableIDMap[t][ids[k]] \in TaskIDs
    /\ \E j \in 1 .. (k - 1) : stableIDMap[t][ids[j]] = stableIDMap[t][ids[k]]

\* The first k IDs are handed over.
Handed(t, ids, k) ==
    \A j \in 1 .. k : ~Repeated(ids, j) /\ ~Reused(t, ids, j)

NotFound(t, ids) ==
    \E k \in 1 .. Len(ids) : Handed(t, ids, k - 1) /\ Repeated(ids, k)
Throws(t, ids) ==
    \E k \in 1 .. Len(ids) : /\ Handed(t, ids, k - 1)
                             /\ ~Repeated(ids, k) /\ Reused(t, ids, k)

TakenSids(t, ids) ==
    {ids[k] : k \in {i \in 1 .. Len(ids) : Handed(t, ids, i)}}

\* Mutant of PrepareInput: the kind of the finished state is not looked at.
PrepareAnyInput(state, req) == [id |-> req, val |-> "value"]

\* prepareInput: req is what requestedTaskInputs has for the task.
PrepareInput(state, req) ==
    [id |-> req,
     val |-> IF /\ state.kind = "result"
                /\ req[1] = "artifact" => req[2] \in state.arts
             THEN "value" ELSE "error"]

Input(t, sid, states, workNow) ==
    LET id == stableIDMap[t][sid]
    IN  IF id \in TaskIDs
        THEN PrepareInput(states[id], requestedTaskInputs[t][id])
        ELSE [id |-> sid, val |-> workNow[id].val]

\* pendingSubtasks is not empty once the IDs are taken.
SubtasksLeft(t, sids) ==
    \E w \in WorkIDs : /\ work[w].task = t /\ work[w].kind = "subtask"
                       /\ work[w].status \in {"pending", "done"}
                       /\ work[w].sid \notin sids

\* The tasks in W leave their waits, given what this step has already made of
\* the states of the tasks, the jobs and the submissions.
UnblockTasks(W, states, jobsNow, workNow) ==
    LET ids(t) == states[t].ids
        sids(t) == TakenSids(t, ids(t))
        whole(t) == Handed(t, ids(t), Len(ids(t)))
    IN  /\ stableIDMap' = [t \in TaskIDs |-> [s \in Sids |->
               IF t \in W /\ s \in sids(t) THEN NoID ELSE stableIDMap[t][s]]]
        /\ requestedTaskInputs' = [t \in TaskIDs |-> [u \in TaskIDs |->
               IF t \in W /\ \E s \in sids(t) : stableIDMap[t][s] = u
               THEN NoSid ELSE requestedTaskInputs[t][u]]]
        /\ work' = [w \in WorkIDs |->
               IF \E t \in W : \E s \in sids(t) : stableIDMap[t][s] = w
               THEN [workNow[w] EXCEPT !.status = "erased"] ELSE workNow[w]]
        /\ batch' = [t \in TaskIDs |->
               IF t \in W /\ whole(t)
               THEN [ctx |-> states[t].ctx,
                     inputs |-> [k \in 1 .. Len(ids(t)) |->
                                     Input(t, ids(t)[k], states, workNow)]]
               ELSE batch[t]]
        /\ nextState' = [t \in TaskIDs |->
               IF t \in W /\ NotFound(t, ids(t)) THEN Failure ELSE states[t]]
        /\ ready' = [t \in TaskIDs |->
               IF t \notin W \/ Throws(t, ids(t)) THEN jobsNow[t]
               ELSE IF NotFound(t, ids(t))
               THEN [jobsNow[t] EXCEPT !.finish = @ + 1]
               ELSE IF ~config.actionCache \/ SubtasksLeft(t, sids(t))
               THEN [jobsNow[t] EXCEPT !.compute = @ + 1]
               ELSE [jobsNow[t] EXCEPT !.lookup = @ + 1]]
        /\ terminated' = (terminated \/ \E t \in W : Throws(t, ids(t)))

(***************************************************************************)
(* processTaskNextState, on the state the computation returned.            *)
(***************************************************************************)
\* The IDs before the first one that was never requested, or was already
\* handed over.
Requested(t, sid) ==
    LET id == stableIDMap[t][sid]
    IN  \/ id \in TaskIDs /\ requestedTaskInputs[t][id] # NoSid
        \/ id \in WorkIDs /\ work[id].status \in {"pending", "done"}

Sound(t, ids) ==
    {ids[k] : k \in {i \in 1 .. Len(ids) :
                        \A j \in 1 .. i : Requested(t, ids[j])}}

Unresolved(t, sids) ==
    {id \in {stableIDMap[t][s] : s \in sids} :
        \/ id \in TaskIDs /\ ~Finished(nextState[id])
        \/ id \in WorkIDs /\ work[id].status = "pending"}

\* Mutant of Register: the last task to wait is the only one remembered.
RegisterLast(t, unresolved) ==
    [u \in TaskIDs |-> IF u \in unresolved THEN {t} ELSE requestedBy[u]]

\* The task that waits is entered at those it waits for.
Register(t, unresolved) ==
    [u \in TaskIDs |-> IF u \in unresolved THEN requestedBy[u] \cup {t}
                       ELSE requestedBy[u]]

ProcessTaskNextState ==
    LET t == lane.task
        next == lane.next
        unresolved == Unresolved(t, Sound(t, next.ids))
        bad == \E k \in 1 .. Len(next.ids) : ~Requested(t, next.ids[k])
        asks == next.kind = "wait"
    IN  /\ lane.pc = "next"
        /\ lane' = Idle
        /\ requestedBy' = IF asks THEN Register(t, unresolved) ELSE requestedBy
        /\ \/ /\ asks /\ ~bad /\ unresolved = {}
              /\ UnblockTasks({t}, [nextState EXCEPT ![t] = next], ready, work)
              /\ UNCHANGED waitingOn
           \/ /\ asks /\ ~bad /\ unresolved # {}
              /\ nextState' = [nextState EXCEPT ![t] = next]
              /\ waitingOn' = [waitingOn EXCEPT ![t] = unresolved]
              /\ UNCHANGED <<stableIDMap, requestedTaskInputs, work, jobs,
                             terminated>>
           \/ /\ ~asks \/ bad
              /\ nextState' = [nextState EXCEPT ![t] =
                     IF Finished(next) THEN next ELSE Failure]
              /\ ready' = [ready EXCEPT ![t].finish = @ + 1]
              /\ UNCHANGED <<stableIDMap, requestedTaskInputs, work, waitingOn,
                             batch, terminated>>
        /\ UNCHANGED <<taskInfos, nextWork, engineState, builds, client>>

\* The job processFinishedTask queues: every task that waits for t is told,
\* and those for which t was the last one are unblocked.
RunFinish(t) ==
    LET last == {u \in requestedBy[t] : waitingOn[u] = {t}}
    IN  /\ lane.pc = "idle"
        /\ ready[t].finish > 0
        /\ waitingOn' = [u \in TaskIDs |->
               IF u \in requestedBy[t] THEN waitingOn[u] \ {t}
               ELSE waitingOn[u]]
        /\ UnblockTasks(last, nextState, [ready EXCEPT ![t].finish = @ - 1],
                        work)
        /\ UNCHANGED <<taskInfos, nextWork, requestedBy, engineState, lane,
                       builds, client>>

\* The job of checkTaskCacheForReadyTask.  A miss queues the computation; a
\* hit replays a transition that a computation of the same task returned
\* earlier, in this engine or in one that shared the cache.
RunLookup(t) ==
    /\ lane.pc = "idle"
    /\ ready[t].lookup > 0
    /\ \/ /\ ready' = [ready EXCEPT ![t].lookup = @ - 1, ![t].compute = @ + 1]
          /\ UNCHANGED lane
       \/ /\ t \in Cacheable
          /\ ready' = [ready EXCEPT ![t].lookup = @ - 1]
          /\ lane' = [Idle EXCEPT !.pc = "compute", !.task = t,
                                  !.replay = TRUE]
    /\ UNCHANGED <<taskInfos, requests, waits, batch, engineState, builds,
                   client, terminated>>

-----------------------------------------------------------------------------
(***************************************************************************)
(* Requests.  An artifact or a rule is looked up among the tasks in        *)
(* flight, then its rule is found, with the help of a provider, and its    *)
(* task constructed and inserted.                                          *)
(***************************************************************************)
Provided == UNION {RulesOf[p] : p \in providers}

Constructible(r) ==
    /\ r \in Provided \ Broken
    /\ r \in InitProps => ~initialized

Available(r) == r \in taskInfos \/ Constructible(r)

\* The task r becomes an input of task t, under the stable ID sid; a task not
\* in flight is inserted.  Neither insert() replaces an entry.
Record(t, r, sid) ==
    /\ stableIDMap' = [stableIDMap EXCEPT ![t][sid] = IF @ = NoID THEN r ELSE @]
    /\ requestedTaskInputs' = [requestedTaskInputs EXCEPT ![t][r] =
           IF @ = NoSid THEN sid ELSE @]

InsertUnlessInFlight(r, jobsNow) ==
    /\ taskInfos' = taskInfos \cup {r}
    /\ ready' = IF r \in taskInfos THEN jobsNow ELSE Inserted(jobsNow, r)

\* A rule's task is computed: the lane enters the client's code.
RunCompute(r) ==
    /\ lane.pc = "idle"
    /\ ready[r].compute > 0
    /\ ready' = [ready EXCEPT ![r].compute = @ - 1]
    /\ lane' = [Idle EXCEPT !.pc = "compute", !.task = r]
    /\ UNCHANGED <<taskInfos, requests, waits, batch, engineState, builds,
                   client, terminated>>

\* The task asks for something on its list.
Asking(ask) == lane.pc = "compute" /\ ask \in wants[lane.task]

\* It is given an ID.
Answer(ask, id) ==
    /\ wants' = [wants EXCEPT ![lane.task] = @ \ {ask}]
    /\ held' = [held EXCEPT ![lane.task] = @ \cup {id}]
    /\ lane' = [lane EXCEPT !.pc = "compute", !.work = 0,
                    !.asked = IF lane.replay THEN @ \cup {ask} ELSE {}]

\* It is given an error.  A replay is given up instead, and the task computed
\* after all, which may ask again for what the replay asked for.
RequestFails(ask) ==
    /\ IF lane.replay
       THEN /\ lane' = Idle
            /\ ready' = Inserted(ready, lane.task)
            /\ wants' = [wants EXCEPT ![lane.task] = @ \cup lane.asked]
       ELSE /\ lane' = [lane EXCEPT !.pc = "compute", !.work = 0]
            /\ wants' = [wants EXCEPT ![lane.task] = @ \ {ask}]
            /\ UNCHANGED ready
    /\ UNCHANGED held

TaskRequestArtifact(a) ==
    /\ Asking(ArtifactSid(a))
    /\ \/ \E r \in Rules :
            /\ a \in Produces[r]
            /\ Available(r)
            /\ Record(lane.task, r, ArtifactSid(a))
            /\ InsertUnlessInFlight(r, ready)
            /\ Answer(ArtifactSid(a), ArtifactSid(a))
       \/ /\ ~\E r \in Rules : a \in Produces[r] /\ Available(r)
          /\ RequestFails(ArtifactSid(a))
          /\ UNCHANGED <<taskInfos, stableIDMap, requestedTaskInputs>>
    /\ UNCHANGED <<work, nextWork, waits, batch, engineState, builds,
                   terminated>>

\* A rule whose task is in flight answers with the task's ID, and nothing is
\* recorded.
TaskRequestRule(r) ==
    /\ Asking(RuleSid(r))
    /\ \/ /\ r \in taskInfos
          /\ Answer(RuleSid(r), RawID(r))
          /\ UNCHANGED <<taskInfos, stableIDMap, requestedTaskInputs, ready>>
       \/ /\ r \notin taskInfos
          /\ Constructible(r)
          /\ Record(lane.task, r, RuleSid(r))
          /\ InsertUnlessInFlight(r, ready)
          /\ Answer(RuleSid(r), RuleSid(r))
       \/ /\ ~Available(r)
          /\ RequestFails(RuleSid(r))
          /\ UNCHANGED <<taskInfos, stableIDMap, requestedTaskInputs>>
    /\ UNCHANGED <<work, nextWork, waits, batch, engineState, builds,
                   terminated>>

\* Only a task with props.init may register a provider, and only one whose
\* prefixes are new.
RegisterRuleProvider(p) ==
    /\ Asking(<<"provider", p>>)
    /\ ~lane.replay
    /\ wants' = [wants EXCEPT ![lane.task] = @ \ {<<"provider", p>>}]
    /\ providers' = IF /\ lane.task \in InitProps
                       /\ RulesOf[p] \cap Provided = {}
                    THEN providers \cup {p} ELSE providers
    /\ UNCHANGED <<taskInfos, requests, waits, jobs, config, initialized,
                   shutdown, lane, builds, held, terminated>>

(***************************************************************************)
(* Actions and subtasks.  A number is drawn and mapped to the task, the    *)
(* request is submitted to the executor, and only then is it recorded as   *)
(* pending.                                                                *)
(***************************************************************************)
BeginSubmit(ask, kind, sid) ==
    /\ Asking(ask)
    /\ nextWork < MaxWork
    /\ nextWork' = nextWork + 1
    /\ work' = [work EXCEPT ![nextWork + 1] =
           [kind |-> kind, task |-> lane.task, sid |-> sid,
            status |-> "submitted", val |-> "none"]]
    /\ lane' = [lane EXCEPT !.pc = "submit", !.work = nextWork + 1,
                            !.ask = ask]
    /\ UNCHANGED <<taskInfos, stableIDMap, requestedTaskInputs, waits, jobs,
                   engineState, builds, client, terminated>>

TaskRequestAction(x) == BeginSubmit(ActionSid(x), "action", ActionSid(x))

\* A cached transition has no subtasks.
TaskSpawnSubtask(ask) ==
    /\ ask[1] \in {"subtask", "async"}
    /\ ~lane.replay
    /\ BeginSubmit(ask, "subtask", SubtaskSid(nextWork + 1))

SubmitAccepted ==
    /\ lane.pc = "submit"
    /\ lane' = [lane EXCEPT !.pc = "record"]
    /\ UNCHANGED <<taskInfos, requests, waits, jobs, engineState, builds,
                   client, terminated>>

SubmitRejected ==
    /\ lane.pc = "submit"
    /\ work' = [work EXCEPT ![lane.work].status = "unused"]
    /\ RequestFails(lane.ask)
    /\ UNCHANGED <<taskInfos, stableIDMap, requestedTaskInputs, nextWork,
                   waits, batch, engineState, builds, terminated>>

RecordPending ==
    LET w == lane.work
    IN  /\ lane.pc = "record"
        /\ work' = [work EXCEPT ![w].status = "pending"]
        /\ stableIDMap' = [stableIDMap EXCEPT ![lane.task][work[w].sid] =
               IF @ = NoID THEN w ELSE @]
        /\ Answer(lane.ask, work[w].sid)
        /\ UNCHANGED <<taskInfos, requestedTaskInputs, nextWork, waits, jobs,
                       engineState, builds, terminated>>

\* Mutant of Completed: wasBlocked is not looked at.
CompletedUnblocked(t, w) == {u \in {t} : waitingOn[u] \ {w} = {}}

\* The task, if w was the last thing it waited for.
Completed(t, w) == {u \in {t} : waitingOn[u] = {w}}

\* notifyActionComplete and notifySubtaskComplete, on a thread of the
\* executor or inside submit: at() throws when the number is not recorded as
\* pending, or no longer.
NotifyComplete(w, val) ==
    LET t == work[w].task
        last == Completed(t, w)
        told == [work EXCEPT ![w].status = "done", ![w].val = val]
    IN  \/ /\ work[w].status \in {"pending", "done"}
           /\ waitingOn' = [waitingOn EXCEPT ![t] = @ \ {w}]
           /\ IF last = {}
              THEN /\ work' = told
                   /\ UNCHANGED <<stableIDMap, requestedTaskInputs, nextState,
                                  jobs, terminated>>
              ELSE UnblockTasks(last, nextState, ready, told)
           /\ UNCHANGED <<taskInfos, nextWork, requestedBy, engineState, lane,
                          builds, client>>
        \/ /\ work[w].status \in {"submitted", "erased"}
           /\ terminated' = TRUE
           /\ UNCHANGED <<taskInfos, requests, waits, jobs, engineState, lane,
                          builds, client>>

-----------------------------------------------------------------------------
(***************************************************************************)
(* What computations return.  updateTaskCache comes between the return and *)
(* processTaskNextState; it writes to the cache, not to the engine.        *)
(***************************************************************************)
Batches(t) == UNION {[1 .. n -> held[t]] : n \in 1 .. MaxBatch}

Returns(next) == lane' = [Idle EXCEPT !.pc = "next", !.task = lane.task,
                                      !.next = next]

Return ==
    /\ lane.pc = "compute"
    /\ \/ \E ids \in Batches(lane.task) : Returns(Wait(ids, 0))
       \/ \E arts \in {{}, Produces[lane.task]} : Returns(Result(arts))
       \/ Returns(Failure)
       \/ Returns(Unset)
    /\ UNCHANGED <<taskInfos, requests, waits, jobs, engineState, builds,
                   client, terminated>>

\* The lane computes an internal task, which returns next.
Computed(t, next) ==
    lane' = [Idle EXCEPT !.pc = "next", !.task = t, !.next = next]

Popped(t) == [ready EXCEPT ![t].compute = @ - 1]

\* InitTask::compute.
RunInitTask ==
    LET r == config.initRule
    IN  /\ lane.pc = "idle"
        /\ ready[InitTask].compute > 0
        /\ \/ /\ batch[InitTask].ctx = 1 \/ r = NoRule
              /\ initialized' = TRUE
              /\ Computed(InitTask,
                     IF batch[InitTask].ctx = 1
                        /\ batch[InitTask].inputs[1].val = "error"
                     THEN Failure ELSE Result({}))
              /\ ready' = Popped(InitTask)
              /\ UNCHANGED <<taskInfos, stableIDMap, requestedTaskInputs>>
           \/ /\ batch[InitTask].ctx = 0
              /\ r # NoRule /\ Constructible(r) /\ r \notin taskInfos
              /\ Record(InitTask, r, RuleSid(r))
              /\ InsertUnlessInFlight(r, Popped(InitTask))
              /\ Computed(InitTask, Wait(<<RuleSid(r)>>, 1))
              /\ UNCHANGED initialized
           \/ /\ batch[InitTask].ctx = 0
              /\ r # NoRule /\ ~Constructible(r)
              /\ Computed(InitTask, Failure)
              /\ ready' = Popped(InitTask)
              /\ UNCHANGED <<taskInfos, stableIDMap, requestedTaskInputs,
                             initialized>>
        /\ UNCHANGED <<work, nextWork, waits, batch, providers, config,
                       shutdown, builds, client, terminated>>

\* RootTask::sendResult.
SendResult(b, val) ==
    /\ buildResult' = [buildResult EXCEPT ![b] = val]
    /\ handlers' = [handlers EXCEPT ![b] = [h \in Handlers |->
           IF @[h] = "waiting" THEN val ELSE @[h]]]

\* RootTask::performInit before the engine is initialized.
RunRootInit(b) ==
    /\ lane.pc = "idle"
    /\ ready[b].compute > 0
    /\ batch[b].ctx = 0
    /\ ~initialized
    /\ Record(b, InitTask, RuleSid(InitTask))
    /\ InsertUnlessInFlight(InitTask, Popped(b))
    /\ Computed(b, Wait(<<RuleSid(InitTask)>>, 1))
    /\ UNCHANGED <<work, nextWork, waits, batch, engineState, builds, client,
                   terminated>>

\* RootTask::requestArtifact, after performInit or checkInit.  performInit
\* holds engineStateMutex, which constructTask takes again for a task with
\* props.init.
RunRootRequest(b) ==
    LET a == Target[b]
        mayAsk == \/ batch[b].ctx = 0 /\ initialized
                  \/ batch[b].ctx = 1 /\ batch[b].inputs[1].val = "value"
        locked(r) == /\ batch[b].ctx = 0
                     /\ r \in (Provided \cap InitProps) \ (Broken \cup taskInfos)
    IN  /\ lane.pc = "idle"
        /\ ready[b].compute > 0
        /\ mayAsk
        /\ \/ \E r \in Rules :
                /\ a \in Produces[r] /\ Available(r)
                /\ Record(b, r, ArtifactSid(a))
                /\ InsertUnlessInFlight(r, Popped(b))
                /\ Computed(b, Wait(<<ArtifactSid(a)>>, 2))
                /\ UNCHANGED builds
           \/ /\ ~\E r \in Rules :
                     a \in Produces[r] /\ (Available(r) \/ locked(r))
              /\ SendResult(b, "error")
              /\ Computed(b, Result({}))
              /\ ready' = Popped(b)
              /\ UNCHANGED <<taskInfos, stableIDMap, requestedTaskInputs>>
           \/ /\ \E r \in Rules : a \in Produces[r] /\ locked(r)
              /\ lane' = [Idle EXCEPT !.pc = "hung", !.task = b]
              /\ ready' = Popped(b)
              /\ UNCHANGED <<taskInfos, stableIDMap, requestedTaskInputs,
                             builds>>
        /\ UNCHANGED <<work, nextWork, waits, batch, engineState, client,
                       terminated>>

\* RootTask::checkInit when the initialization failed, and processArtifact.
RunRootResult(b) ==
    /\ lane.pc = "idle"
    /\ ready[b].compute > 0
    /\ \/ batch[b].ctx = 1 /\ batch[b].inputs[1].val = "error"
       \/ batch[b].ctx = 2
    /\ SendResult(b, batch[b].inputs[1].val)
    /\ Computed(b, Result({}))
    /\ ready' = Popped(b)
    /\ UNCHANGED <<taskInfos, requests, waits, batch, engineState, client,
                   terminated>>

LaneStep ==
    \/ LaneExits
    \/ ProcessTaskNextState
    \/ Return
    \/ RecordPending
    \/ RunInitTask
    \/ \E t \in TaskIDs : RunFinish(t) \/ RunLookup(t)
    \/ \E r \in Rules : RunCompute(r) \/ TaskRequestRule(r)
    \/ \E b \in Builds : RunRootInit(b) \/ RunRootRequest(b) \/ RunRootResult(b)
    \/ \E a \in Artifacts : TaskRequestArtifact(a)
    \/ \E p \in Providers : RegisterRuleProvider(p)

ClientStep ==
    \/ Shutdown
    \/ \E b \in Builds : Build(b)
    \/ \E b \in Builds, h \in Handlers : AddCompletionHandler(b, h)

-----------------------------------------------------------------------------
(***************************************************************************)
(* Properties.  Once terminated, the process is going down and nothing is  *)
(* asked of its state.                                                     *)
(***************************************************************************)
WorkStatus == {"unused", "submitted", "pending", "done", "erased"}
NextStates == [kind : {"unset", "wait", "result", "error"}, ids : Seq(Sids),
               ctx : 0 .. 2, arts : SUBSET Artifacts]

\* The kinds of values each variable of the engine holds.
EngineTypeOK ==
    /\ taskInfos \subseteq TaskIDs
    /\ stableIDMap \in [TaskIDs -> [Sids -> TaskIDs \cup WorkIDs \cup {NoID}]]
    /\ requestedTaskInputs \in [TaskIDs -> [TaskIDs -> Sids \cup {NoSid}]]
    /\ requestedBy \in [TaskIDs -> SUBSET TaskIDs]
    /\ waitingOn \in [TaskIDs -> SUBSET (TaskIDs \cup WorkIDs)]
    /\ nextState \in [TaskIDs -> NextStates]
    /\ nextWork \in 0 .. MaxWork
    /\ \A w \in WorkIDs : /\ work[w].task \in TaskIDs
                          /\ work[w].sid \in Sids \cup {NoSid}
                          /\ work[w].status \in WorkStatus
    /\ ready \in [TaskIDs -> [compute : Nat, lookup : Nat, finish : Nat]]
    /\ lane.task \in TaskIDs
    /\ buildResult \in [Builds -> {"none", "value", "error"}]

Count(P) == IF P THEN 1 ELSE 0

Running(t) == lane.pc \in {"compute", "submit", "record", "next", "hung"}
                 /\ lane.task = t

\* What keeps a task going, counted.
Activations(t) ==
    ready[t].compute + ready[t].lookup + Count(Running(t))
        + Count(waitingOn[t] # {}) + Count(Finished(nextState[t]))

\* A task in flight is always in exactly one place: its computation or its
\* cache lookup is queued, or it is on the lane, or it waits for something,
\* or it has finished.  No order of results, finished inputs and returned
\* states loses a task (it would never be computed again) or queues it twice
\* (two computations would share its TaskInfo).
OneActivation ==
    ~terminated => \A t \in taskInfos : Activations(t) = 1

\* A task that waits will be told.  Whatever it waits for has not finished, or
\* its finish job is still queued, and has the task among its requestedBy; an
\* action or subtask it waits for is its own and has no result yet.  The
\* registration in processTaskNextState and the notifications of
\* processFinishedTask and of the executor's threads miss nobody.
BlockedTasksAreTold ==
    ~terminated => \A t \in TaskIDs : \A x \in waitingOn[t] :
        \/ /\ x \in taskInfos /\ t \in requestedBy[x]
           /\ Finished(nextState[x]) => ready[x].finish = 1
        \/ x \in WorkIDs /\ work[x].task = t /\ work[x].status = "pending"

\* The task whose result an ID stands for.
Producer(sid, r) ==
    \/ sid[1] = "artifact" /\ sid[2] \in Produces[r]
    \/ sid = RuleSid(r)

\* The client was given two IDs that stand for one task's result.
SharesProducer(t) ==
    t \in Rules /\ \E r \in Rules, s1, s2 \in held[t] :
        s1 # s2 /\ Producer(s1, r) /\ Producer(s2, r)

\* What a queued computation is given is what it waited for, in that order,
\* and every value comes from a task that finished with it.  Two IDs of one
\* producing task are the exception: requestedTaskInputs has room for one, so
\* a wait for the second is answered with the first.
InputsAreThoseWaitedFor ==
    ~terminated => \A t \in taskInfos :
        /\ ready[t].compute + ready[t].lookup > 0
        /\ nextState[t].kind = "wait"
        => LET ids == nextState[t].ids
               inputs == batch[t].inputs
           IN  /\ Len(inputs) = Len(ids)
               /\ batch[t].ctx = nextState[t].ctx
               /\ \A k \in 1 .. Len(ids) :
                     /\ inputs[k].id = ids[k] \/ SharesProducer(t)
                     /\ inputs[k].val = "value" =>
                           \A r \in Rules : Producer(inputs[k].id, r) =>
                               nextState[r].kind = "result"

\* A build that is answered with its artifact was answered by the rule that
\* produces it, after the engine was initialized; handlers are called with
\* the build's result, and none is left waiting once there is one, however
\* adding a handler and sendResult interleave.
BuildAnswersTrue ==
    \A b \in Builds :
        /\ buildResult[b] = "value" =>
              /\ initialized
              /\ \E r \in Rules : /\ Target[b] \in Produces[r]
                                  /\ Target[b] \in nextState[r].arts
        /\ buildResult[b] # "none" =>
              \A h \in Handlers : handlers[b][h] \in {"none", buildResult[b]}

\* The only exceptions that escape a thread: a report that overtakes the
\* record of its own submission, and a wait for two IDs of one task.
TerminatesOnlyIf ==
    terminated =>
        \/ lane.pc = "record" /\ work[lane.work].status = "submitted"
        \/ \E t \in Rules : SharesProducer(t)
==============================================================================
