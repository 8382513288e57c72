---------------------------- MODULE ActionExecutor ----------------------------
(***************************************************************************)
(* The executor builra3 engines submit actions and subtasks to             *)
(* (src/builra3/ActionExecutor.cpp): the pending items, the local lanes    *)
(* that run actions and synchronous subtasks, the async lane that starts   *)
(* asynchronous subtasks, the callbacks of the remote executor, and the    *)
(* action cache.                                                           *)
(*                                                                         *)
(* A submission has the number its engine drew for it.  A thread that has  *)
(* taken an item out of pending and is about to call the listener is an    *)
(* element of reports.  Whether there is an action cache and a remote      *)
(* executor are parameters of submit, fixed by the client.  The states     *)
(* Preparing, Queued, Running and Incompatible of an item are never read   *)
(* and are left out.                                                       *)
(***************************************************************************)
EXTENDS Integers, Sequences, FiniteSets

CONSTANTS
    Submissions,         \* the numbers a submission may have
    Lanes,               \* the local lanes
    NoSubmission,
    ActionKinds,         \* the actions that may be submitted
    Refused,             \* actions submit answers with an error
    LocalCompatible,     \* actions whose platform is the executor's
    Volatile,            \* actions with is_volatile
    MaxAsyncConcurrency  \* 0 if there is no limit

ASSUME ExecutorAssumption ==
    /\ MaxAsyncConcurrency \in Nat
    /\ IsFiniteSet(Submissions) /\ NoSubmission \notin Submissions

VARIABLES
    request,             \* what each submission asks for
    pending,             \* the items in the map
    leaked,              \* items reported and left in the map
    localActions, localLane,
    asyncActions, asyncLane, inflightAsyncActions,
    asyncCalls,          \* asynchronous subtasks that have not called back
    asyncReturns,        \* callbacks between their report and the decrement
    remoteCalls,         \* the callbacks the remote executor still holds
    executableCached, cachedActions,
    reports,             \* listener calls about to be made
    listening, shouldShutdown

localVars == <<localActions, localLane>>
asyncVars == <<asyncActions, asyncLane, inflightAsyncActions, asyncCalls,
               asyncReturns>>
remoteVars == <<remoteCalls, executableCached>>
executorVars == <<request, pending, leaked, localVars, asyncVars, remoteVars,
                  cachedActions, reports, listening, shouldShutdown>>

At(pc, w) == [pc |-> pc, work |-> w]
Looking == At("looking", NoSubmission)
Asleep == At("asleep", NoSubmission)
Exited == At("exited", NoSubmission)

\* The lanes have started and wait.
ExecutorInit ==
    /\ request = [w \in Submissions |-> [kind |-> "none", act |-> "none"]]
    /\ pending = {} /\ leaked = {}
    /\ localActions = {}
    /\ localLane = [l \in Lanes |-> Asleep]
    /\ asyncActions = {}
    /\ asyncLane = Asleep
    /\ inflightAsyncActions = 0
    /\ asyncCalls = {} /\ asyncReturns = {}
    /\ remoteCalls = [w \in Submissions |-> {}]
    \* by earlier engines
    /\ executableCached \in BOOLEAN
    /\ cachedActions \in SUBSET (ActionKinds \ Volatile)
    /\ reports = {}
    /\ listening = TRUE
    /\ shouldShutdown = FALSE

-----------------------------------------------------------------------------
\* localActionsCondition.notify_one(): one sleeping lane, if any, wakes up.
NotifyLocal ==
    \/ /\ \A l \in Lanes : localLane[l] # Asleep
       /\ UNCHANGED localLane
    \/ \E l \in Lanes : /\ localLane[l] = Asleep
                        /\ localLane' = [localLane EXCEPT ![l] = Looking]

\* asyncActionsCondition.notify_one()
NotifyAsync == asyncLane' = IF asyncLane = Asleep THEN Looking ELSE asyncLane

Calling(w, val, by) == [work |-> w, val |-> val, by |-> by]

(***************************************************************************)
(* submit, for an action: an answer from the cache, or that there is no    *)
(* remote executor, reaches the listener before submit returns.            *)
(***************************************************************************)
\* checkCache
CacheHit(act, hasCache) == hasCache /\ act \notin Volatile /\ act \in cachedActions

AnswerAtOnce(w, val) ==
    /\ reports' = reports \cup {Calling(w, val, "submit")}
    /\ UNCHANGED <<pending, localVars, remoteVars>>

PrepareForLocalExecution(w) ==
    /\ pending' = pending \cup {w}
    /\ localActions' = localActions \cup {w}
    /\ NotifyLocal
    /\ UNCHANGED <<remoteVars, reports>>

\* What prepare() of the remote executor gives is kept, and the next action
\* goes to execute() at once.
PrepareForRemoteExecution(w) ==
    /\ pending' = pending \cup {w}
    /\ remoteCalls' = [remoteCalls EXCEPT ![w] =
           IF executableCached THEN {"dispatch", "result"} ELSE {"prepare"}]
    /\ UNCHANGED <<localVars, executableCached, reports>>

\* A cached result that cannot be read is a miss.
SubmitAction(w, act, hasCache, hasRemote) ==
    LET local == act \in LocalCompatible
    IN  /\ act \notin Refused
        /\ request' = [request EXCEPT ![w] = [kind |-> "action", act |-> act]]
        /\ \/ CacheHit(act, hasCache) /\ AnswerAtOnce(w, "value")
           \/ local /\ PrepareForLocalExecution(w)
           \/ ~local /\ ~hasRemote /\ AnswerAtOnce(w, "error")
           \/ ~local /\ hasRemote /\ PrepareForRemoteExecution(w)
        /\ UNCHANGED <<leaked, asyncVars, cachedActions, listening,
                       shouldShutdown>>

\* Mutant of SubmitSubtask: the lanes are not notified.
SubmitSubtaskQuietly(w, kind) ==
    /\ request' = [request EXCEPT ![w] = [kind |-> kind, act |-> "none"]]
    /\ pending' = pending \cup {w}
    /\ \/ /\ kind = "subtask"
          /\ localActions' = localActions \cup {w}
          /\ UNCHANGED <<localLane, asyncVars>>
       \/ /\ kind = "async"
          /\ asyncActions' = asyncActions \cup {w}
          /\ NotifyAsync
          /\ UNCHANGED <<localVars, inflightAsyncActions, asyncCalls,
                         asyncReturns>>
    /\ UNCHANGED <<leaked, remoteVars, cachedActions, reports, listening,
                   shouldShutdown>>

\* submit, for a subtask; kind is "subtask" or "async".
SubmitSubtask(w, kind) ==
    /\ request' = [request EXCEPT ![w] = [kind |-> kind, act |-> "none"]]
    /\ pending' = pending \cup {w}
    /\ \/ /\ kind = "subtask"
          /\ localActions' = localActions \cup {w}
          /\ NotifyLocal
          /\ UNCHANGED asyncVars
       \/ /\ kind = "async"
          /\ asyncActions' = asyncActions \cup {w}
          /\ NotifyAsync
          /\ UNCHANGED <<localVars, inflightAsyncActions, asyncCalls,
                         asyncReturns>>
    /\ UNCHANGED <<leaked, remoteVars, cachedActions, reports, listening,
                   shouldShutdown>>

-----------------------------------------------------------------------------
(***************************************************************************)
(* The local lanes.                                                        *)
(***************************************************************************)
LocalSleep(l) ==
    /\ localLane[l] = Looking
    /\ localActions = {} /\ ~shouldShutdown
    /\ localLane' = [localLane EXCEPT ![l] = Asleep]
    /\ UNCHANGED <<request, pending, leaked, localActions, asyncVars,
                   remoteVars, cachedActions, reports, listening,
                   shouldShutdown>>

LocalExit(l) ==
    /\ localLane[l] = Looking
    /\ localActions = {} /\ shouldShutdown
    /\ localLane' = [localLane EXCEPT ![l] = Exited]
    /\ UNCHANGED <<request, pending, leaked, localActions, asyncVars,
                   remoteVars, cachedActions, reports, listening,
                   shouldShutdown>>

\* The scheduler's order is not a strict weak order: any item may be on top.
LocalTake(l) ==
    \E w \in localActions :
        /\ localLane[l] = Looking
        /\ localActions' = localActions \ {w}
        /\ localLane' = [localLane EXCEPT ![l] = At("running", w)]
        /\ UNCHANGED <<request, pending, leaked, asyncVars, remoteVars,
                       cachedActions, reports, listening, shouldShutdown>>

\* updateCache, which may fail unnoticed.
Cached(w, val, hasCache) ==
    IF /\ hasCache /\ val = "value" /\ request[w].kind = "action"
       /\ request[w].act \notin Volatile
    THEN cachedActions \cup {request[w].act} ELSE cachedActions

\* handleSubprocessFinished and handleFunctionFinished: an action whose outputs
\* cannot be collected is reported as failed and stays in pending.
ActionFinished(w, val) ==
    \/ pending' = pending \ {w} /\ UNCHANGED leaked
    \/ /\ val = "error"
       /\ leaked' = leaked \cup {w} /\ UNCHANGED pending

SubtaskFinished(w) == pending' = pending \ {w} /\ UNCHANGED leaked

\* The action or the subtask has run, or could not be started.
LocalFinish(l, val, hasCache) ==
    LET w == localLane[l].work
    IN  /\ localLane[l].pc = "running"
        /\ localLane' = [localLane EXCEPT ![l] = At("reporting", w)]
        /\ reports' = reports \cup {Calling(w, val, "lane")}
        /\ \/ request[w].kind = "action" /\ ActionFinished(w, val)
           \/ request[w].kind # "action" /\ SubtaskFinished(w)
        /\ cachedActions' \in {cachedActions, Cached(w, val, hasCache)}
        /\ UNCHANGED <<request, localActions, asyncVars, remoteVars, listening,
                       shouldShutdown>>

-----------------------------------------------------------------------------
(***************************************************************************)
(* The async lane.  A subtask it has started may call back at any time, on *)
(* any thread.  The callback counts down under asyncActionsMutex and then  *)
(* notifies localActionsCondition, for which this lane never waits.        *)
(***************************************************************************)
\* Mutant of AtLimit: one more than the limit is let through.
AboveLimit == /\ MaxAsyncConcurrency > 0
              /\ inflightAsyncActions > MaxAsyncConcurrency

AtLimit == /\ MaxAsyncConcurrency > 0
           /\ inflightAsyncActions >= MaxAsyncConcurrency

AsyncSleep ==
    /\ asyncLane = Looking
    /\ ~shouldShutdown
    /\ asyncActions = {} \/ AtLimit
    /\ asyncLane' = Asleep
    /\ UNCHANGED <<request, pending, leaked, localVars, asyncActions,
                   inflightAsyncActions, asyncCalls, asyncReturns, remoteVars,
                   cachedActions, reports, listening, shouldShutdown>>

AsyncExit ==
    /\ asyncLane = Looking
    /\ shouldShutdown /\ asyncActions = {}
    /\ asyncLane' = Exited
    /\ UNCHANGED <<request, pending, leaked, localVars, asyncActions,
                   inflightAsyncActions, asyncCalls, asyncReturns, remoteVars,
                   cachedActions, reports, listening, shouldShutdown>>

AsyncTake ==
    \E w \in asyncActions :
        /\ asyncLane = Looking
        /\ shouldShutdown \/ ~AtLimit
        /\ asyncActions' = asyncActions \ {w}
        /\ asyncLane' = At("starting", w)
        /\ UNCHANGED <<request, pending, leaked, localVars,
                       inflightAsyncActions, asyncCalls, asyncReturns,
                       remoteVars, cachedActions, reports, listening,
                       shouldShutdown>>

\* Mutant of AsyncStart: the subtask is not counted.
AsyncStartUncounted ==
    /\ asyncLane.pc = "starting"
    /\ asyncCalls' = asyncCalls \cup {asyncLane.work}
    /\ asyncLane' = Looking
    /\ UNCHANGED <<request, pending, leaked, localVars, asyncActions,
                   inflightAsyncActions, asyncReturns, remoteVars,
                   cachedActions, reports, listening, shouldShutdown>>

AsyncStart ==
    /\ asyncLane.pc = "starting"
    /\ inflightAsyncActions' = inflightAsyncActions + 1
    /\ asyncCalls' = asyncCalls \cup {asyncLane.work}
    /\ asyncLane' = Looking
    /\ UNCHANGED <<request, pending, leaked, localVars, asyncActions,
                   asyncReturns, remoteVars, cachedActions, reports, listening,
                   shouldShutdown>>

AsyncCallback(w, val) ==
    /\ w \in asyncCalls
    /\ asyncCalls' = asyncCalls \ {w}
    /\ pending' = pending \ {w}
    /\ reports' = reports \cup {Calling(w, val, "async")}
    /\ UNCHANGED <<request, leaked, localVars, asyncActions, asyncLane,
                   inflightAsyncActions, asyncReturns, remoteVars,
                   cachedActions, listening, shouldShutdown>>

AsyncRelease(w) ==
    /\ w \in asyncReturns
    /\ asyncReturns' = asyncReturns \ {w}
    /\ inflightAsyncActions' = inflightAsyncActions - 1
    /\ NotifyLocal
    /\ UNCHANGED <<request, pending, leaked, localActions, asyncActions,
                   asyncLane, asyncCalls, remoteVars, cachedActions, reports,
                   listening, shouldShutdown>>

-----------------------------------------------------------------------------
(***************************************************************************)
(* The callbacks of the remote executor.                                   *)
(***************************************************************************)
\* Mutant of CompleteAction: it reports whether or not it found the item.
CompleteActionAnyway(w, val) ==
    /\ pending' = pending \ {w}
    /\ reports' = reports \cup {Calling(w, val, "remote")}

CompleteAction(w, val) ==
    /\ pending' = pending \ {w}
    /\ reports' = IF w \in pending
                  THEN reports \cup {Calling(w, val, "remote")} ELSE reports

RemotePrepared(w, val) ==
    /\ "prepare" \in remoteCalls[w]
    /\ \/ /\ val = "error"
          /\ CompleteAction(w, "error")
          /\ remoteCalls' = [remoteCalls EXCEPT ![w] = {}]
          /\ UNCHANGED executableCached
       \/ /\ val = "value"
          /\ executableCached' = TRUE
          /\ remoteCalls' = [remoteCalls EXCEPT ![w] = {"dispatch", "result"}]
          /\ UNCHANGED <<pending, reports>>
    /\ UNCHANGED <<request, leaked, localVars, asyncVars, cachedActions,
                   listening, shouldShutdown>>

\* Mutant of RemoteDispatched: an error is reported and the item kept.
RemoteDispatchedKeeps(w, val) ==
    /\ "dispatch" \in remoteCalls[w]
    /\ remoteCalls' = [remoteCalls EXCEPT ![w] = @ \ {"dispatch"}]
    /\ reports' = IF val = "error"
                  THEN reports \cup {Calling(w, "error", "remote")} ELSE reports
    /\ UNCHANGED <<request, pending, leaked, localVars, asyncVars,
                   executableCached, cachedActions, listening, shouldShutdown>>

\* The acknowledgement may come after the result, and may be an error that
\* comes before one.
RemoteDispatched(w, val) ==
    /\ "dispatch" \in remoteCalls[w]
    /\ remoteCalls' = [remoteCalls EXCEPT ![w] = @ \ {"dispatch"}]
    /\ IF val = "error" THEN CompleteAction(w, "error")
       ELSE UNCHANGED <<pending, reports>>
    /\ UNCHANGED <<request, leaked, localVars, asyncVars, executableCached,
                   cachedActions, listening, shouldShutdown>>

RemoteResult(w, val, hasCache) ==
    /\ "result" \in remoteCalls[w]
    /\ remoteCalls' = [remoteCalls EXCEPT ![w] = @ \ {"result"}]
    /\ cachedActions' \in {cachedActions, Cached(w, val, hasCache)}
    /\ CompleteAction(w, val)
    /\ UNCHANGED <<request, leaked, localVars, asyncVars, executableCached,
                   listening, shouldShutdown>>

-----------------------------------------------------------------------------
\* notifyActionComplete and notifySubtaskComplete, the executor's part: the
\* thread goes on with what follows the call.
Reported(r) ==
    /\ r \in reports
    /\ reports' = reports \ {r}
    /\ localLane' = [l \in Lanes |->
           IF r.by = "lane" /\ localLane[l] = At("reporting", r.work)
           THEN Looking ELSE localLane[l]]
    /\ asyncReturns' = IF r.by = "async" THEN asyncReturns \cup {r.work}
                       ELSE asyncReturns
    /\ UNCHANGED <<request, pending, leaked, localActions, asyncActions,
                   asyncLane, inflightAsyncActions, asyncCalls, remoteVars,
                   cachedActions, listening, shouldShutdown>>

DetachListener ==
    /\ listening
    /\ listening' = FALSE
    /\ UNCHANGED <<request, pending, leaked, localVars, asyncVars, remoteVars,
                   cachedActions, reports, shouldShutdown>>

\* The destructor: the flag, both notify_all calls; the lanes drain and end.
DestroyExecutor ==
    /\ ~listening /\ ~shouldShutdown
    /\ shouldShutdown' = TRUE
    /\ localLane' = [l \in Lanes |->
           IF localLane[l] = Asleep THEN Looking ELSE localLane[l]]
    /\ UNCHANGED <<request, pending, leaked, localActions, asyncVars,
                   remoteVars, cachedActions, reports, listening>>

\* The async lane is woken once the local lanes have been joined.
JoinLocalLanes ==
    /\ shouldShutdown
    /\ \A l \in Lanes : localLane[l] = Exited
    /\ asyncLane = Asleep
    /\ asyncLane' = Looking
    /\ UNCHANGED <<request, pending, leaked, localVars, asyncActions,
                   inflightAsyncActions, asyncCalls, asyncReturns, remoteVars,
                   cachedActions, reports, listening, shouldShutdown>>

\* Every step of the executor's threads and of the work they started.
ExecutorStep(hasCache) ==
    \/ \E l \in Lanes : LocalSleep(l) \/ LocalExit(l) \/ LocalTake(l)
    \/ AsyncSleep \/ AsyncExit \/ AsyncTake \/ AsyncStart
    \/ \E w \in Submissions : AsyncRelease(w)
    \/ \E val \in {"value", "error"} :
          \/ \E l \in Lanes : LocalFinish(l, val, hasCache)
          \/ \E w \in Submissions :
                \/ AsyncCallback(w, val)
                \/ RemotePrepared(w, val)
                \/ RemoteDispatched(w, val)
                \/ RemoteResult(w, val, hasCache)

-----------------------------------------------------------------------------
Held == {localLane[l].work : l \in {m \in Lanes : localLane[m].pc = "running"}}
Starting == {w \in Submissions : asyncLane = At("starting", w)}
Remote == {w \in Submissions : remoteCalls[w] \cap {"prepare", "result"} # {}}

\* The kinds of values each variable of the executor holds.
ExecutorTypeOK ==
    /\ pending \subseteq Submissions /\ leaked \subseteq Submissions
    /\ localActions \subseteq Submissions /\ asyncActions \subseteq Submissions
    /\ asyncCalls \subseteq Submissions /\ asyncReturns \subseteq Submissions
    /\ inflightAsyncActions \in Nat
    /\ \A l \in Lanes :
          /\ localLane[l].pc \in {"looking", "asleep", "running", "reporting",
                                  "exited"}
          /\ localLane[l].work \in Submissions \cup {NoSubmission}
    /\ asyncLane.pc \in {"looking", "asleep", "starting", "exited"}
    /\ remoteCalls \in [Submissions -> SUBSET {"prepare", "dispatch", "result"}]
    /\ \A r \in reports : r.work \in Submissions /\ r.val \in {"value", "error"}

\* The async lane sleeps on queued work: it fell asleep at the limit, and no
\* completion wakes it.
Starved == asyncLane = Asleep /\ asyncActions # {}

\* What is pending is in exactly one place where some thread or callback still
\* finds it: a queue, a lane, an asynchronous subtask or the remote executor,
\* save for entries that collectOutputs's error path leaves behind.  And it is
\* reported by one thread only, after it was taken out: a dispatch error and
\* the result of the same remote action never both reach the listener.
PendingIsSomewhere ==
    LET places == <<localActions, Held, asyncActions, Starting, asyncCalls,
                    Remote \cap pending, leaked>>
        in(w) == {q \in 1 .. Len(places) : w \in places[q]}
    IN  /\ \A w \in Submissions :
              Cardinality(in(w)) = IF w \in pending THEN 1 ELSE 0
        /\ \A r \in reports :
              /\ r.work \notin pending \ leaked
              /\ \A q \in reports : q.work = r.work => q = r
        /\ \A l, m \in Lanes : l # m /\ localLane[l].work # NoSubmission =>
              localLane[l].work # localLane[m].work

\* inflightAsyncActions counts the subtasks that run or are about to be
\* counted out, and stays within maxAsyncConcurrency until the executor is
\* being destroyed.
AsyncWithinLimit ==
    /\ inflightAsyncActions = Cardinality(asyncCalls) + Cardinality(asyncReturns)
           + Cardinality({r \in reports : r.by = "async"})
    /\ MaxAsyncConcurrency > 0 /\ ~shouldShutdown =>
           inflightAsyncActions + Cardinality(Starting) <= MaxAsyncConcurrency
==============================================================================
