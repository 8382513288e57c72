----------------------------- MODULE ExecutorProofs -----------------------------
(***************************************************************************)
(* No step of the executor loses a submission or reports one twice, for    *)
(* any number of lanes and submissions and whatever the remote executor    *)
(* and the asynchronous subtasks do.                                       *)
(*                                                                         *)
(* PendingIsSomewhere, which the runs check, is not inductive: that a      *)
(* lane's item is reported by that lane alone needs the lanes to be told   *)
(* apart, and that a remote action is completed once needs to know which   *)
(* callbacks are left.                                                     *)
(***************************************************************************)
EXTENDS ActionExecutor, FiniteSetTheorems, TLAPS

-----------------------------------------------------------------------------
(***************************************************************************)
(* The executor's invariant.                                               *)
(***************************************************************************)
Resting == {Looking, Asleep, Exited}
Reports == [work : Submissions, val : {"value", "error"},
            by : {"submit", "lane", "async", "remote"}]

ExecutorShaped ==
    /\ pending \subseteq Submissions /\ localActions \subseteq Submissions
    /\ asyncActions \subseteq Submissions /\ asyncCalls \subseteq Submissions
    /\ localLane = [l \in Lanes |-> localLane[l]]
    /\ \A l \in Lanes :
          \/ localLane[l] \in Resting
          \/ \E w \in Submissions : \/ localLane[l] = At("running", w)
                                \/ localLane[l] = At("reporting", w)
    /\ asyncLane \in Resting \/ \E w \in Submissions : asyncLane = At("starting", w)
    /\ remoteCalls \in [Submissions -> SUBSET {"prepare", "dispatch", "result"}]
    /\ reports \subseteq Reports

\* The places a submission can be in.
Where(w, queued, onLane, asyncQueued, starting, called, remote, left) ==
    /\ w \in localActions <=> queued
    /\ w \in Held <=> onLane
    /\ w \in asyncActions <=> asyncQueued
    /\ w \in Starting <=> starting
    /\ w \in asyncCalls <=> called
    /\ w \in Remote \cap pending <=> remote
    /\ w \in leaked <=> left

Absent(w) == Where(w, FALSE, FALSE, FALSE, FALSE, FALSE, FALSE, FALSE)
Queued(w) == Where(w, TRUE, FALSE, FALSE, FALSE, FALSE, FALSE, FALSE)
OnLocalLane(w) == Where(w, FALSE, TRUE, FALSE, FALSE, FALSE, FALSE, FALSE)
AsyncQueued(w) == Where(w, FALSE, FALSE, TRUE, FALSE, FALSE, FALSE, FALSE)
Started(w) == Where(w, FALSE, FALSE, FALSE, TRUE, FALSE, FALSE, FALSE)
Called(w) == Where(w, FALSE, FALSE, FALSE, FALSE, TRUE, FALSE, FALSE)
AtRemote(w) == Where(w, FALSE, FALSE, FALSE, FALSE, FALSE, TRUE, FALSE)
Left(w) == Where(w, FALSE, FALSE, FALSE, FALSE, FALSE, FALSE, TRUE)

Somewhere(w) ==
    /\ w \in pending => \/ Queued(w) \/ OnLocalLane(w) \/ AsyncQueued(w)
                        \/ Started(w) \/ Called(w) \/ AtRemote(w) \/ Left(w)
    /\ w \notin pending => Absent(w)
    /\ w \in pending /\ remoteCalls[w] # {} => w \in Remote

\* A lane that reports has its report among reports; no two lanes have the
\* same submission.
LanesApart ==
    /\ \A l, m \in Lanes, w \in Submissions :
          /\ localLane[l].work = w /\ localLane[m].work = w => l = m
          /\ localLane[l] = At("reporting", w) =>
                \E r \in reports : r.work = w /\ r.by = "lane"

\* A submission is reported once it is no longer pending, by one thread.
ReportedOnce ==
    \A r \in reports : /\ r.work \notin pending \ leaked
                       /\ \A q \in reports : q.work = r.work => q = r

Fresh(w) == /\ w \notin pending /\ remoteCalls[w] = {}
            /\ \A r \in reports : r.work # w

ExecutorInv ==
    /\ ExecutorShaped
    /\ \A w \in Submissions : Somewhere(w)
    /\ LanesApart
    /\ ReportedOnce

-----------------------------------------------------------------------------
\* The assumption on the constants that the proofs use.
LEMMA Numbers ==
    NoSubmission \notin Submissions
  BY ExecutorAssumption, Zenon

\* The states of a lane differ.
LEMMA LaneStates ==
    /\ Looking.work = NoSubmission /\ Asleep.work = NoSubmission
    /\ Exited.work = NoSubmission
    /\ Looking.pc = "looking" /\ Asleep.pc = "asleep" /\ Exited.pc = "exited"
    /\ \A pc, w : At(pc, w).pc = pc /\ At(pc, w).work = w
  BY Zenon DEF Looking, Asleep, Exited, At

\* The async lane that looks or sleeps, before and after, starts nothing.
LEMMA NothingStarted ==
    ASSUME \/ asyncLane' = asyncLane
           \/ /\ asyncLane \in {Looking, Asleep}
              /\ asyncLane' \in {Looking, Asleep, Exited}
    PROVE  Starting' = Starting
<1>1. \A w : At("starting", w) \notin {Looking, Asleep, Exited}
  BY LaneStates
<1> QED
  BY <1>1, Zenon DEF Starting

\* The executor starts with nothing to do.
LEMMA ExecutorInitially ==
    ExecutorInit => ExecutorInv /\ \A w \in Submissions : Fresh(w)
<1>. SUFFICES ASSUME ExecutorInit
              PROVE  ExecutorInv /\ \A w \in Submissions : Fresh(w)
  BY Zenon
<1>1. /\ pending = {} /\ leaked = {} /\ localActions = {} /\ asyncActions = {}
      /\ localLane = [l \in Lanes |-> Asleep] /\ asyncLane = Asleep
      /\ asyncCalls = {} /\ reports = {}
      /\ remoteCalls = [w \in Submissions |-> {}]
  BY Numbers, Zenon DEF ExecutorInit
<1>2. ExecutorShaped
  BY <1>1, Zenon DEF ExecutorShaped, Resting
<1>3. Held = {} /\ Starting = {} /\ Remote = {}
  BY <1>1, LaneStates, Numbers DEF Held, Starting, Remote
<1>4. \A w \in Submissions : Somewhere(w)
  BY <1>1, <1>3, Zenon DEF Somewhere, Absent, Where
<1>5. LanesApart
  BY <1>1, LaneStates, Numbers DEF LanesApart
<1> QED
  BY <1>1, <1>2, <1>4, <1>5, Zenon DEF ExecutorInv, ReportedOnce, Fresh

-----------------------------------------------------------------------------
(***************************************************************************)
(* What a step does to the submissions it is not about, and to the lanes.  *)
(***************************************************************************)
Untouched(w) ==
    /\ w \in pending' <=> w \in pending
    /\ w \in localActions' <=> w \in localActions
    /\ w \in Held' <=> w \in Held
    /\ w \in asyncActions' <=> w \in asyncActions
    /\ w \in Starting' <=> w \in Starting
    /\ w \in asyncCalls' <=> w \in asyncCalls
    /\ remoteCalls'[w] = remoteCalls[w]
    /\ w \in leaked' <=> w \in leaked

\* A submission no queue, lane or callback gains or loses stays where it is.
LEMMA StaysSomewhere ==
    ASSUME NEW w \in Submissions, Somewhere(w), Untouched(w)
    PROVE  Somewhere(w)'
<1>1. w \in Remote' <=> w \in Remote
  BY Numbers, Zenon DEF Remote, Untouched
<1> QED
  BY <1>1, Zenon DEF Somewhere, Untouched, Where, Absent, Queued, OnLocalLane,
              AsyncQueued, Started, Called, AtRemote, Left

\* A resting lane goes to sleep, wakes up or ends.
Rests(l) == localLane'[l] = localLane[l]
               \/ (localLane[l] \in Resting /\ localLane'[l] \in Resting)

RestsOnly == /\ localLane' = [l \in Lanes |-> localLane'[l]]
             /\ \A l \in Lanes : Rests(l)

\* Then the lanes hold what they held.
LEMMA Resters ==
    ASSUME ExecutorShaped, RestsOnly
    PROVE  /\ Held' = Held
           /\ \A l \in Lanes :
                 \/ localLane'[l] \in Resting
                 \/ \E w \in Submissions : \/ localLane'[l] = At("running", w)
                                       \/ localLane'[l] = At("reporting", w)
           /\ LanesApart /\ reports \subseteq reports' => LanesApart'
<1>1. \A l \in Lanes : localLane[l] \in Resting =>
          localLane[l].pc \notin {"running", "reporting"}
              /\ localLane[l].work = NoSubmission
  BY LaneStates, Zenon DEF Resting
<1>2. \A l \in Lanes : localLane'[l] \in Resting =>
          localLane'[l].pc \notin {"running", "reporting"}
              /\ localLane'[l].work = NoSubmission
  BY LaneStates, Zenon DEF Resting
<1>3. Held' = Held
  BY <1>1, <1>2, Zenon DEF Held, RestsOnly, Rests
<1>4. \A l \in Lanes :
          \/ localLane'[l] \in Resting
          \/ \E w \in Submissions : \/ localLane'[l] = At("running", w)
                                \/ localLane'[l] = At("reporting", w)
  BY Zenon DEF ExecutorShaped, RestsOnly, Rests
<1>5. ASSUME LanesApart, reports \subseteq reports' PROVE LanesApart'
  <2>1. ASSUME NEW l \in Lanes, NEW w \in Submissions, localLane'[l].work = w
        PROVE  localLane'[l] = localLane[l]
    BY <1>2, <2>1, Numbers, Zenon DEF RestsOnly, Rests
  <2>2. ASSUME NEW l \in Lanes, NEW m \in Lanes, NEW w \in Submissions,
               localLane'[l].work = w, localLane'[m].work = w
        PROVE  l = m
    BY <1>5, <2>1, <2>2 DEF LanesApart
  <2>3. ASSUME NEW l \in Lanes, NEW w \in Submissions,
               localLane'[l] = At("reporting", w)
        PROVE  \E r \in reports' : r.work = w /\ r.by = "lane"
    BY <1>5, <2>1, <2>3, LaneStates DEF LanesApart
  <2> QED
    BY <2>2, <2>3, Zenon DEF LanesApart
<1> QED
  BY <1>3, <1>4, <1>5, Zenon

\* notify_one on localActionsCondition.
LEMMA Notifying ==
    ASSUME ExecutorShaped, NotifyLocal \/ UNCHANGED localLane
    PROVE  RestsOnly
  BY Zenon DEF NotifyLocal, ExecutorShaped, RestsOnly, Rests, Resting

\* Reports stay single: none is added, or one of a submission that is no
\* longer pending and that nobody has reported.
LEMMA ReportsKept ==
    ASSUME ReportedOnce, reports \subseteq Reports, NEW w \in Submissions,
           \A v \in Submissions \ {w} :
               v \in pending' \ leaked' => v \in pending \ leaked,
           \/ /\ reports' \subseteq reports
              /\ w \in pending' \ leaked' =>
                    w \in pending \ leaked \/ \A r \in reports : r.work # w
           \/ \E new \in Reports :
                 /\ reports' = reports \cup {new} /\ new.work = w
                 /\ w \notin pending' \ leaked'
                 /\ \A r \in reports : r.work # w
    PROVE  ReportedOnce' /\ reports' \subseteq Reports
  BY Zenon DEF ReportedOnce, Reports

\* What the executor does not know it does not come to know.
StillFresh(w) == Fresh(w) => Fresh(w)'

\* A step about the submission w keeps the invariant, if w is somewhere then
\* and the lanes and the reports are as they should be.
LEMMA Moving ==
    ASSUME ExecutorInv, NEW w \in Submissions,
           \A v \in Submissions \ {w} : Untouched(v),
           Somewhere(w)', ExecutorShaped', LanesApart', ReportedOnce',
           \A r \in reports' : r \in reports \/ r.work = w
    PROVE  ExecutorInv' /\ \A v \in Submissions \ {w} : StillFresh(v)
<1>1. ASSUME NEW v \in Submissions \ {w} PROVE Somewhere(v)' /\ StillFresh(v)
  BY StaysSomewhere, Zenon DEF ExecutorInv, StillFresh, Fresh, Untouched
<1> QED
  BY <1>1, Zenon DEF ExecutorInv

\* Lanes fall asleep, wake up and end; the flags of the destructor are set.
LEMMA RestStep ==
    ASSUME ExecutorInv, RestsOnly,
           asyncLane' = asyncLane \/ (asyncLane \in Resting /\ asyncLane' \in Resting),
           UNCHANGED <<pending, leaked, localActions, asyncActions, asyncCalls,
                       remoteCalls, reports>>
    PROVE  ExecutorInv' /\ \A w \in Submissions : StillFresh(w)
<1>1. Held' = Held /\ LanesApart' /\ localLane' = [l \in Lanes |-> localLane'[l]]
      /\ \A l \in Lanes :
            \/ localLane'[l] \in Resting
            \/ \E w \in Submissions : \/ localLane'[l] = At("running", w)
                                  \/ localLane'[l] = At("reporting", w)
  BY Resters, Zenon DEF ExecutorInv, RestsOnly
<1>2. Starting' = Starting
  BY LaneStates DEF Starting, Resting
<1>3. ExecutorShaped'
  BY <1>1, Zenon DEF ExecutorInv, ExecutorShaped
<1>4. \A w \in Submissions : Untouched(w)
  BY <1>1, <1>2, Zenon DEF Untouched
<1>5. \A w \in Submissions : Somewhere(w)' /\ StillFresh(w)
  BY <1>4, StaysSomewhere, Zenon DEF ExecutorInv, StillFresh, Fresh
<1>6. ReportedOnce'
  BY Zenon DEF ExecutorInv, ReportedOnce
<1> QED
  BY <1>1, <1>3, <1>5, <1>6, Zenon DEF ExecutorInv

\* The steps that move nothing: a lane falls asleep or ends, a callback counts
\* down, the listener leaves, the destructor wakes and joins the lanes.
LEMMA Sleeping ==
    ASSUME ExecutorInv,
           \/ \E l \in Lanes : LocalSleep(l) \/ LocalExit(l)
           \/ AsyncSleep \/ AsyncExit \/ (\E w \in Submissions : AsyncRelease(w))
           \/ DetachListener \/ DestroyExecutor \/ JoinLocalLanes
           \/ UNCHANGED executorVars
    PROVE  ExecutorInv' /\ \A w \in Submissions : StillFresh(w)
<1>. USE LaneStates
<1>1. Looking \in Resting /\ Asleep \in Resting /\ Exited \in Resting
  BY Zenon DEF Resting
<1>2. UNCHANGED <<pending, leaked, localActions, asyncActions, asyncCalls,
                  remoteCalls, reports>>
  BY Zenon DEF LocalSleep, LocalExit, AsyncSleep, AsyncExit, AsyncRelease,
         DetachListener, DestroyExecutor, JoinLocalLanes, localVars, asyncVars,
         remoteVars, executorVars
<1>3. asyncLane' = asyncLane \/ (asyncLane \in Resting /\ asyncLane' \in Resting)
  BY <1>1, Zenon DEF LocalSleep, LocalExit, AsyncSleep, AsyncExit, AsyncRelease,
         DetachListener, DestroyExecutor, JoinLocalLanes, asyncVars, executorVars
<1>4. ExecutorShaped
  BY Zenon DEF ExecutorInv
<1>5. RestsOnly
  <2>1. CASE UNCHANGED localLane \/ NotifyLocal
    BY <1>4, <2>1, Notifying, Zenon
  <2>2. ASSUME NEW l \in Lanes, NEW s \in Resting, localLane[l] = Looking,
               localLane' = [localLane EXCEPT ![l] = s]
        PROVE  RestsOnly
    BY <1>1, <1>4, <2>2, Zenon DEF RestsOnly, Rests, ExecutorShaped
  <2>3. CASE localLane' = [l \in Lanes |->
                 IF localLane[l] = Asleep THEN Looking ELSE localLane[l]]
    BY <1>1, <1>4, <2>3, Zenon DEF RestsOnly, Rests
  <2> QED
    BY <1>1, <2>1, <2>2, <2>3, Zenon
       DEF LocalSleep, LocalExit, AsyncSleep, AsyncExit, AsyncRelease,
           DetachListener, DestroyExecutor, JoinLocalLanes, localVars, executorVars
<1> QED
  BY <1>2, <1>3, <1>5, RestStep, Zenon

\* A submission the executor does not know enters it: it is answered at once,
\* or it becomes pending and is queued or handed to the remote executor.
LEMMA Entering ==
    ASSUME ExecutorInv, NEW w \in Submissions, Fresh(w), RestsOnly,
           asyncLane' = asyncLane \/ (asyncLane \in Resting /\ asyncLane' \in Resting),
           UNCHANGED <<leaked, asyncCalls>>,
           \/ /\ UNCHANGED <<pending, localActions, asyncActions, remoteCalls>>
              /\ \E new \in Reports : new.work = w /\ reports' = reports \cup {new}
           \/ /\ pending' = pending \cup {w} /\ UNCHANGED reports
              /\ \/ /\ localActions' = localActions \cup {w}
                    /\ UNCHANGED <<asyncActions, remoteCalls>>
                 \/ /\ asyncActions' = asyncActions \cup {w}
                    /\ UNCHANGED <<localActions, remoteCalls>>
                 \/ /\ UNCHANGED <<localActions, asyncActions>>
                    /\ \E calls \in {{"prepare"}, {"dispatch", "result"}} :
                          remoteCalls' = [remoteCalls EXCEPT ![w] = calls]
    PROVE  ExecutorInv' /\ \A v \in Submissions \ {w} : StillFresh(v)
<1>1. /\ w \notin pending /\ remoteCalls[w] = {} /\ Absent(w) /\ ExecutorShaped
      /\ LanesApart /\ ReportedOnce /\ \A r \in reports : r.work # w
      /\ reports \subseteq Reports
  BY Zenon DEF Fresh, ExecutorInv, Somewhere, ExecutorShaped
<1>2. /\ Held' = Held
      /\ \A l \in Lanes :
            \/ localLane'[l] \in Resting
            \/ \E u \in Submissions : \/ localLane'[l] = At("running", u)
                                  \/ localLane'[l] = At("reporting", u)
      /\ LanesApart'
  <2>1. reports \subseteq reports'
    BY Zenon
  <2> QED
    BY <1>1, <2>1, Resters, Zenon
<1>3. Starting' = Starting
  BY LaneStates DEF Starting, Resting
<1>4. ReportedOnce' /\ reports' \subseteq Reports
  BY <1>1, ReportsKept, Zenon
<1>5. /\ remoteCalls' \in [Submissions -> SUBSET {"prepare", "dispatch", "result"}]
      /\ \A v \in Submissions \ {w} : remoteCalls'[v] = remoteCalls[v]
  BY <1>1 DEF ExecutorShaped
<1>6. ExecutorShaped'
  BY <1>1, <1>2, <1>4, <1>5, Zenon DEF ExecutorShaped, RestsOnly
<1>7. \A v \in Submissions \ {w} : Untouched(v)
  BY <1>2, <1>3, <1>5, Zenon DEF Untouched
<1>8. Somewhere(w)'
  <2>0. /\ w \notin localActions /\ w \notin Held /\ w \notin asyncActions
        /\ w \notin Starting /\ w \notin asyncCalls /\ w \notin leaked
    BY <1>1, Zenon DEF Absent, Where
  <2>1. w \in Remote' <=> remoteCalls'[w] \cap {"prepare", "result"} # {}
    BY Numbers, Zenon DEF Remote
  <2>2. CASE UNCHANGED <<pending, localActions, asyncActions, remoteCalls>>
    BY <1>1, <1>2, <1>3, <2>0, <2>1, <2>2, Zenon DEF Somewhere, Absent, Where
  <2>3. CASE /\ pending' = pending \cup {w}
             /\ localActions' = localActions \cup {w}
             /\ UNCHANGED <<asyncActions, remoteCalls>>
    BY <1>1, <1>2, <1>3, <2>0, <2>1, <2>3, Zenon DEF Somewhere, Queued, Where
  <2>4. CASE /\ pending' = pending \cup {w}
             /\ asyncActions' = asyncActions \cup {w}
             /\ UNCHANGED <<localActions, remoteCalls>>
    BY <1>1, <1>2, <1>3, <2>0, <2>1, <2>4, Zenon DEF Somewhere, AsyncQueued, Where
  <2>5. ASSUME pending' = pending \cup {w},
               UNCHANGED <<localActions, asyncActions>>,
               NEW calls \in {{"prepare"}, {"dispatch", "result"}},
               remoteCalls' = [remoteCalls EXCEPT ![w] = calls]
        PROVE  Somewhere(w)'
    <3>1. remoteCalls'[w] = calls
      BY <1>1, <2>5, Zenon DEF ExecutorShaped
    <3> QED
      BY <1>2, <1>3, <2>0, <2>1, <2>5, <3>1, Zenon DEF Somewhere, AtRemote, Where
  <2> QED
    BY <2>2, <2>3, <2>4, <2>5, Zenon
<1>9. \A r \in reports' : r \in reports \/ r.work = w
  BY Zenon
<1> QED
  BY <1>2, <1>4, <1>6, <1>7, <1>8, <1>9, Moving, Zenon

\* submit, for an action and for a subtask.
LEMMA Submitted ==
    ASSUME ExecutorInv, NEW w \in Submissions, Fresh(w),
           \/ \E act, hasCache, hasRemote : SubmitAction(w, act, hasCache, hasRemote)
           \/ \E kind : SubmitSubtask(w, kind)
    PROVE  ExecutorInv' /\ \A v \in Submissions \ {w} : StillFresh(v)
<1>1. RestsOnly
  BY Notifying, Zenon DEF ExecutorInv, SubmitAction, AnswerAtOnce,
      PrepareForLocalExecution, PrepareForRemoteExecution, SubmitSubtask, localVars
<1>2. asyncLane' = asyncLane \/ (asyncLane \in Resting /\ asyncLane' \in Resting)
  BY Zenon DEF SubmitAction, AnswerAtOnce,
      PrepareForLocalExecution, PrepareForRemoteExecution, SubmitSubtask,
      asyncVars, NotifyAsync, Resting
<1>3. UNCHANGED <<leaked, asyncCalls>>
  BY Zenon DEF SubmitAction, AnswerAtOnce,
      PrepareForLocalExecution, PrepareForRemoteExecution, SubmitSubtask, asyncVars
<1>4. \A val \in {"value", "error"} : /\ Calling(w, val, "submit") \in Reports
                                       /\ Calling(w, val, "submit").work = w
  BY Zenon DEF Calling, Reports
<1>5. CASE \E act, hasCache, hasRemote : SubmitAction(w, act, hasCache, hasRemote)
  <2>1. PICK act, hasCache, hasRemote : SubmitAction(w, act, hasCache, hasRemote)
    BY <1>5, Zenon
  <2>2. UNCHANGED asyncActions
    BY <2>1, Zenon DEF SubmitAction, AnswerAtOnce,
        PrepareForLocalExecution, PrepareForRemoteExecution, asyncVars
  <2>3. \/ /\ UNCHANGED <<pending, localActions, remoteCalls>>
           /\ \E new \in Reports : new.work = w /\ reports' = reports \cup {new}
        \/ /\ pending' = pending \cup {w} /\ UNCHANGED reports
           /\ localActions' = localActions \cup {w} /\ UNCHANGED remoteCalls
        \/ /\ pending' = pending \cup {w} /\ UNCHANGED reports
           /\ UNCHANGED localActions
           /\ \E calls \in {{"prepare"}, {"dispatch", "result"}} :
                 remoteCalls' = [remoteCalls EXCEPT ![w] = calls]
    BY <1>4, <2>1, Zenon DEF SubmitAction, AnswerAtOnce,
        PrepareForLocalExecution, PrepareForRemoteExecution, localVars, remoteVars
  <2> QED
    BY <1>1, <1>2, <1>3, <2>2, <2>3, Entering, Zenon
<1>6. CASE \E kind : SubmitSubtask(w, kind)
  <2>1. /\ pending' = pending \cup {w} /\ UNCHANGED <<reports, remoteCalls>>
        /\ \/ localActions' = localActions \cup {w} /\ UNCHANGED asyncActions
           \/ asyncActions' = asyncActions \cup {w} /\ UNCHANGED localActions
    BY <1>6, Zenon DEF SubmitSubtask, localVars, asyncVars, remoteVars
  <2> QED
    BY <1>1, <1>2, <1>3, <2>1, Entering, Zenon
<1> QED
  BY <1>5, <1>6, Zenon

-----------------------------------------------------------------------------
(***************************************************************************)
(* The local lanes.                                                        *)
(***************************************************************************)
\* No lane has a submission that waits elsewhere.
LEMMA OffLanes ==
    ASSUME ExecutorInv, NEW w \in Submissions, w \notin Held, w \in pending \ leaked
    PROVE  \A l \in Lanes : localLane[l].work # w
<1>. SUFFICES ASSUME NEW l \in Lanes, localLane[l].work = w PROVE FALSE
  BY Zenon
<1>1. localLane[l] \notin Resting
  BY LaneStates, Numbers, Zenon DEF Resting
<1>2. localLane[l] = At("running", w) \/ localLane[l] = At("reporting", w)
  BY <1>1, LaneStates DEF ExecutorInv, ExecutorShaped
<1>3. localLane[l] # At("running", w)
  BY LaneStates DEF Held
<1> QED
  BY <1>2, <1>3 DEF ExecutorInv, LanesApart, ReportedOnce

\* A lane takes an item from its queue.
LEMMA LocalTaking ==
    ASSUME ExecutorInv, NEW l \in Lanes, LocalTake(l)
    PROVE  ExecutorInv' /\ \A v \in Submissions : StillFresh(v)
<1>1. PICK w \in localActions :
          /\ localLane[l] = Looking /\ localActions' = localActions \ {w}
          /\ localLane' = [localLane EXCEPT ![l] = At("running", w)]
          /\ UNCHANGED <<pending, leaked, asyncActions, asyncLane, asyncCalls,
                         remoteCalls, reports>>
  BY Zenon DEF LocalTake, asyncVars, remoteVars
<1>2. w \in Submissions /\ ExecutorShaped /\ Somewhere(w) /\ LanesApart /\ ReportedOnce
  BY <1>1, Zenon DEF ExecutorInv, ExecutorShaped
<1>3. w \in pending /\ Queued(w)
  BY <1>1, <1>2, Zenon DEF Somewhere, Absent, OnLocalLane, AsyncQueued, Started,
                    Called, AtRemote, Left, Where
<1>4. \A m \in Lanes : localLane[m].work # w
  BY <1>2, <1>3, OffLanes, Zenon DEF Queued, Where
<1>5. /\ localLane' = [m \in Lanes |-> localLane'[m]]
      /\ localLane'[l] = At("running", w)
      /\ \A m \in Lanes \ {l} : localLane'[m] = localLane[m]
  BY <1>1, <1>2, Zenon DEF ExecutorShaped
<1>6. Held' = Held \cup {w}
  <2>1. localLane[l].pc # "running" /\ localLane'[l].pc = "running"
        /\ localLane'[l].work = w
    BY <1>1, <1>5, LaneStates
  <2> QED
    BY <1>5, <2>1 DEF Held
<1>7. Starting' = Starting
  BY <1>1, Zenon DEF Starting
<1>8. \A v \in Submissions \ {w} : Untouched(v)
  BY <1>1, <1>6, <1>7, Zenon DEF Untouched
<1>9. Somewhere(w)'
  <2>1. Remote' = Remote
    BY <1>1, Zenon DEF Remote
  <2> QED
    BY <1>1, <1>2, <1>3, <1>6, <1>7, <2>1, Zenon DEF Somewhere, Queued, OnLocalLane, Where
<1>10. ExecutorShaped'
  BY <1>1, <1>2, <1>5, Zenon DEF ExecutorShaped
<1>11. LanesApart'
  BY <1>1, <1>2, <1>4, <1>5, LaneStates DEF LanesApart
<1>12. ReportedOnce'
  BY <1>1, <1>2, Zenon DEF ReportedOnce
<1>13. ExecutorInv' /\ \A v \in Submissions \ {w} : StillFresh(v)
  BY <1>1, <1>2, <1>8, <1>9, <1>10, <1>11, <1>12, Moving, Zenon
<1> QED
  BY <1>3, <1>13, Zenon DEF StillFresh, Fresh

\* A lane has run what it took.
LEMMA LocalFinishing ==
    ASSUME ExecutorInv, NEW l \in Lanes, NEW val \in {"value", "error"},
           NEW hasCache, LocalFinish(l, val, hasCache)
    PROVE  ExecutorInv' /\ \A v \in Submissions : StillFresh(v)
<1>1. PICK w : w = localLane[l].work
  BY Zenon
<1>2. /\ localLane[l].pc = "running"
      /\ localLane' = [localLane EXCEPT ![l] = At("reporting", w)]
      /\ reports' = reports \cup {Calling(w, val, "lane")}
      /\ \/ pending' = pending \ {w} /\ UNCHANGED leaked
         \/ leaked' = leaked \cup {w} /\ UNCHANGED pending
      /\ UNCHANGED <<localActions, asyncActions, asyncLane, asyncCalls, remoteCalls>>
  BY <1>1, Zenon DEF LocalFinish, ActionFinished, SubtaskFinished, asyncVars, remoteVars
<1>3. localLane[l] = At("running", w) /\ w \in Submissions
  BY <1>1, <1>2, LaneStates DEF ExecutorInv, ExecutorShaped, Resting
<1>4. ExecutorShaped /\ Somewhere(w) /\ LanesApart /\ ReportedOnce
  BY <1>3, Zenon DEF ExecutorInv
<1>5. w \in Held
  BY <1>1, <1>2, Zenon DEF Held
<1>6. w \in pending /\ OnLocalLane(w)
  BY <1>4, <1>5, Zenon DEF Somewhere, Absent, Queued, AsyncQueued, Started,
                    Called, AtRemote, Left, Where
<1>7. \A r \in reports : r.work # w
  BY <1>4, <1>6, Zenon DEF ReportedOnce, OnLocalLane, Where
<1>8. /\ localLane' = [m \in Lanes |-> localLane'[m]]
      /\ localLane'[l] = At("reporting", w)
      /\ \A m \in Lanes \ {l} : localLane'[m] = localLane[m]
  BY <1>2, <1>4, Zenon DEF ExecutorShaped
<1>9. \A m \in Lanes \ {l} : localLane[m].work # w
  BY <1>1, <1>3, <1>4, Zenon DEF LanesApart
<1>10. Held' = Held \ {w}
  <2>1. localLane'[l].pc # "running"
    BY <1>8, LaneStates
  <2> QED
    BY <1>1, <1>2, <1>8, <1>9, <2>1 DEF Held
<1>11. Starting' = Starting /\ Remote' = Remote
  BY <1>2, Zenon DEF Starting, Remote
<1>12. \A v \in Submissions \ {w} : Untouched(v)
  BY <1>2, <1>10, <1>11, Zenon DEF Untouched
<1>13. Somewhere(w)'
  <2>1. remoteCalls[w] = {}
    BY <1>4, <1>6, Zenon DEF Somewhere, OnLocalLane, Where
  <2>2. CASE pending' = pending \ {w} /\ UNCHANGED leaked
    BY <1>2, <1>6, <1>10, <1>11, <2>2, Zenon DEF Somewhere, OnLocalLane, Absent, Where
  <2>3. CASE leaked' = leaked \cup {w} /\ UNCHANGED pending
    BY <1>2, <1>6, <1>10, <1>11, <2>1, <2>3, Zenon DEF Somewhere, OnLocalLane, Left, Where
  <2> QED
    BY <1>2, <2>2, <2>3, Zenon
<1>14. /\ Calling(w, val, "lane") \in Reports /\ Calling(w, val, "lane").work = w
       /\ Calling(w, val, "lane").by = "lane"
  BY <1>3, Zenon DEF Calling, Reports
<1>15. ReportedOnce' /\ reports' \subseteq Reports
  <2>1. \A v \in Submissions \ {w} : v \in pending' \ leaked' => v \in pending \ leaked
    BY <1>2, Zenon
  <2>2. w \notin pending' \ leaked' /\ reports \subseteq Reports
    BY <1>2, <1>4, Zenon DEF ExecutorShaped
  <2> QED
    BY <1>2, <1>3, <1>4, <1>7, <1>14, <2>1, <2>2, ReportsKept, Zenon
<1>16. ExecutorShaped'
  BY <1>2, <1>3, <1>4, <1>8, <1>15, Zenon DEF ExecutorShaped
<1>17. LanesApart'
  <2>1. localLane'[l].work = w
    BY <1>8, LaneStates
  <2>2. \A m, n \in Lanes, u \in Submissions :
            localLane'[m].work = u /\ localLane'[n].work = u => m = n
    BY <1>4, <1>8, <1>9, <2>1 DEF LanesApart
  <2>3. \A m \in Lanes, u \in Submissions : localLane'[m] = At("reporting", u) =>
            \E r \in reports' : r.work = u /\ r.by = "lane"
    BY <1>2, <1>4, <1>8, <1>14, <2>1, LaneStates, SMTT(30) DEF LanesApart
  <2> QED
    BY <2>2, <2>3, ZenonT(60) DEF LanesApart
<1>18. \A r \in reports' : r \in reports \/ r.work = w
  BY <1>2, <1>14, Zenon
<1>19. ExecutorInv' /\ \A v \in Submissions \ {w} : StillFresh(v)
  BY <1>3, <1>12, <1>13, <1>15, <1>16, <1>17, <1>18, Moving, Zenon
<1> QED
  BY <1>6, <1>19, Zenon DEF StillFresh, Fresh

-----------------------------------------------------------------------------
(***************************************************************************)
(* The async lane, the remote executor's callbacks and the listener calls. *)
(***************************************************************************)
\* These steps leave the local lanes alone; a report they add stays single.
LEMMA BesideLanes ==
    ASSUME ExecutorInv, UNCHANGED localLane, reports \subseteq reports'
    PROVE  /\ Held' = Held /\ LanesApart'
           /\ localLane' = [l \in Lanes |-> localLane'[l]]
           /\ \A l \in Lanes :
                 \/ localLane'[l] \in Resting
                 \/ \E w \in Submissions : \/ localLane'[l] = At("running", w)
                                       \/ localLane'[l] = At("reporting", w)
<1>1. RestsOnly
  BY Notifying, Zenon DEF ExecutorInv
<1> QED
  BY <1>1, Resters, Zenon DEF ExecutorInv, RestsOnly

\* A step that reports a pending submission and takes it out.
LEMMA TakenOut ==
    ASSUME ExecutorInv, NEW w \in pending \ leaked, NEW new \in Reports,
           new.work = w, pending' = pending \ {w}, UNCHANGED leaked,
           reports' = reports \cup {new}
    PROVE  ReportedOnce' /\ reports' \subseteq Reports
<1>1. w \in Submissions /\ ReportedOnce /\ reports \subseteq Reports
  BY Zenon DEF ExecutorInv, ExecutorShaped
<1>2. \A r \in reports : r.work # w
  BY <1>1, Zenon DEF ReportedOnce
<1> QED
  BY <1>1, <1>2, ReportsKept, Zenon

\* The async lane takes an item from its queue.
LEMMA AsyncTaking ==
    ASSUME ExecutorInv, AsyncTake
    PROVE  ExecutorInv' /\ \A v \in Submissions : StillFresh(v)
<1>1. PICK w \in asyncActions :
          /\ asyncLane = Looking /\ asyncActions' = asyncActions \ {w}
          /\ asyncLane' = At("starting", w)
          /\ UNCHANGED <<pending, leaked, localActions, localLane, asyncCalls,
                         remoteCalls, reports>>
  BY Zenon DEF AsyncTake, localVars, remoteVars
<1>2. w \in Submissions /\ ExecutorShaped /\ Somewhere(w) /\ ReportedOnce
  BY <1>1, Zenon DEF ExecutorInv, ExecutorShaped
<1>3. w \in pending /\ AsyncQueued(w)
  BY <1>1, <1>2, Zenon DEF Somewhere, Absent, Queued, OnLocalLane, Started,
                    Called, AtRemote, Left, Where
<1>4. Starting = {} /\ Starting' = {w} /\ Remote' = Remote
  BY <1>1, <1>2, LaneStates, Numbers DEF Starting, Remote
<1>5. /\ Held' = Held /\ LanesApart'
      /\ localLane' = [l \in Lanes |-> localLane'[l]]
      /\ \A l \in Lanes :
            \/ localLane'[l] \in Resting
            \/ \E u \in Submissions : \/ localLane'[l] = At("running", u)
                                  \/ localLane'[l] = At("reporting", u)
  BY <1>1, BesideLanes, Zenon
<1>6. \A v \in Submissions \ {w} : Untouched(v)
  BY <1>1, <1>4, <1>5, Zenon DEF Untouched
<1>7. Somewhere(w)'
  BY <1>1, <1>2, <1>3, <1>4, <1>5, Zenon DEF Somewhere, AsyncQueued, Started, Where
<1>8. ExecutorShaped'
  BY <1>1, <1>2, <1>5, Zenon DEF ExecutorShaped
<1>9. ReportedOnce'
  BY <1>1, <1>2, Zenon DEF ReportedOnce
<1>10. ExecutorInv' /\ \A v \in Submissions \ {w} : StillFresh(v)
  BY <1>1, <1>2, <1>5, <1>6, <1>7, <1>8, <1>9, Moving, Zenon
<1> QED
  BY <1>3, <1>10, Zenon DEF StillFresh, Fresh

\* The async lane starts the subtask it took.
LEMMA AsyncStarting ==
    ASSUME ExecutorInv, AsyncStart
    PROVE  ExecutorInv' /\ \A v \in Submissions : StillFresh(v)
<1>1. PICK w \in Submissions : asyncLane = At("starting", w)
  BY LaneStates, Zenon DEF AsyncStart, ExecutorInv, ExecutorShaped, Resting
<1>2. /\ asyncCalls' = asyncCalls \cup {w} /\ asyncLane' = Looking
      /\ UNCHANGED <<pending, leaked, localActions, localLane, asyncActions,
                     remoteCalls, reports>>
  BY <1>1, LaneStates DEF AsyncStart, localVars, remoteVars
<1>3. ExecutorShaped /\ Somewhere(w) /\ ReportedOnce
  BY <1>1, Zenon DEF ExecutorInv
<1>4. Starting = {w} /\ Starting' = {} /\ Remote' = Remote
  BY <1>1, <1>2, LaneStates, Numbers DEF Starting, Remote
<1>5. w \in pending /\ Started(w)
  BY <1>3, <1>4, Zenon DEF Somewhere, Absent, Queued, OnLocalLane, AsyncQueued,
                    Called, AtRemote, Left, Where
<1>6. /\ Held' = Held /\ LanesApart'
      /\ localLane' = [l \in Lanes |-> localLane'[l]]
      /\ \A l \in Lanes :
            \/ localLane'[l] \in Resting
            \/ \E u \in Submissions : \/ localLane'[l] = At("running", u)
                                  \/ localLane'[l] = At("reporting", u)
  BY <1>2, BesideLanes, Zenon
<1>7. \A v \in Submissions \ {w} : Untouched(v)
  BY <1>2, <1>4, <1>6, Zenon DEF Untouched
<1>8. Somewhere(w)'
  BY <1>2, <1>3, <1>4, <1>5, <1>6, Zenon DEF Somewhere, Started, Called, Where
<1>9. ExecutorShaped'
  BY <1>2, <1>3, <1>6, Zenon DEF ExecutorShaped, Resting
<1>10. ReportedOnce'
  BY <1>2, <1>3, Zenon DEF ReportedOnce
<1>11. ExecutorInv' /\ \A v \in Submissions \ {w} : StillFresh(v)
  BY <1>2, <1>6, <1>7, <1>8, <1>9, <1>10, Moving, Zenon
<1> QED
  BY <1>5, <1>11, Zenon DEF StillFresh, Fresh

\* An asynchronous subtask calls back.
LEMMA CallingBack ==
    ASSUME ExecutorInv, NEW w \in Submissions, NEW val \in {"value", "error"},
           AsyncCallback(w, val)
    PROVE  ExecutorInv' /\ \A v \in Submissions : StillFresh(v)
<1>1. /\ w \in asyncCalls /\ asyncCalls' = asyncCalls \ {w}
      /\ pending' = pending \ {w}
      /\ reports' = reports \cup {Calling(w, val, "async")}
      /\ UNCHANGED <<leaked, localActions, localLane, asyncActions, asyncLane,
                     remoteCalls>>
  BY Zenon DEF AsyncCallback, localVars, remoteVars
<1>2. ExecutorShaped /\ Somewhere(w) /\ ReportedOnce
  BY Zenon DEF ExecutorInv
<1>3. w \in pending /\ Called(w) /\ w \notin leaked
  BY <1>1, <1>2, Zenon DEF Somewhere, Absent, Queued, OnLocalLane, AsyncQueued,
                    Started, AtRemote, Left, Called, Where
<1>4. Starting' = Starting /\ Remote' = Remote
  BY <1>1, Zenon DEF Starting, Remote
<1>5. /\ Held' = Held /\ LanesApart'
      /\ localLane' = [l \in Lanes |-> localLane'[l]]
      /\ \A l \in Lanes :
            \/ localLane'[l] \in Resting
            \/ \E u \in Submissions : \/ localLane'[l] = At("running", u)
                                  \/ localLane'[l] = At("reporting", u)
  BY <1>1, BesideLanes, Zenon
<1>6. Calling(w, val, "async") \in Reports /\ Calling(w, val, "async").work = w
  BY Zenon DEF Calling, Reports
<1>7. ReportedOnce' /\ reports' \subseteq Reports
  BY <1>1, <1>3, <1>6, TakenOut, Zenon
<1>8. \A v \in Submissions \ {w} : Untouched(v)
  BY <1>1, <1>4, <1>5, Zenon DEF Untouched
<1>9. Somewhere(w)'
  BY <1>1, <1>3, <1>4, <1>5, Zenon DEF Somewhere, Called, Absent, Where
<1>10. ExecutorShaped'
  BY <1>1, <1>2, <1>5, <1>7, Zenon DEF ExecutorShaped
<1>11. \A r \in reports' : r \in reports \/ r.work = w
  BY <1>1, <1>6, Zenon
<1>12. ExecutorInv' /\ \A v \in Submissions \ {w} : StillFresh(v)
  BY <1>5, <1>7, <1>8, <1>9, <1>10, <1>11, Moving, Zenon
<1> QED
  BY <1>3, <1>12, Zenon DEF StillFresh, Fresh

\* A callback of the remote executor: it completes the action, or the action
\* stays with the remote executor.
LEMMA RemoteStep ==
    ASSUME ExecutorInv, NEW w \in Submissions, remoteCalls[w] # {},
           NEW calls \in SUBSET {"prepare", "dispatch", "result"},
           remoteCalls' = [remoteCalls EXCEPT ![w] = calls],
           \/ \E val \in {"value", "error"} : CompleteAction(w, val)
           \/ /\ UNCHANGED <<pending, reports>>
              /\ w \in pending => calls \cap {"prepare", "result"} # {},
           UNCHANGED <<leaked, localActions, localLane, asyncActions, asyncLane,
                       asyncCalls>>
    PROVE  ExecutorInv' /\ \A v \in Submissions : StillFresh(v)
<1>1. ExecutorShaped /\ Somewhere(w) /\ ReportedOnce /\ reports \subseteq Reports
  BY Zenon DEF ExecutorInv, ExecutorShaped
<1>2. w \in pending => AtRemote(w) /\ w \notin leaked
  <2>1. w \in pending => w \in Remote \cap pending
    BY <1>1, Zenon DEF Somewhere
  <2> QED
    BY <1>1, <2>1, Zenon DEF Somewhere, Queued, OnLocalLane, AsyncQueued, Started,
                      Called, Left, AtRemote, Where
<1>3. w \notin pending => Absent(w)
  BY <1>1, Zenon DEF Somewhere
<1>4. Starting' = Starting
  BY Zenon DEF Starting
<1>5. /\ remoteCalls' \in [Submissions -> SUBSET {"prepare", "dispatch", "result"}]
      /\ remoteCalls'[w] = calls
      /\ \A v \in Submissions \ {w} : remoteCalls'[v] = remoteCalls[v]
  BY <1>1, Zenon DEF ExecutorShaped
<1>6. w \in Remote' <=> calls \cap {"prepare", "result"} # {}
  BY <1>5, Numbers, Zenon DEF Remote
<1>7. \/ UNCHANGED <<pending, reports>>
      \/ /\ w \in pending /\ pending' = pending \ {w}
         /\ \E new \in Reports : new.work = w /\ reports' = reports \cup {new}
  <2>1. \A val \in {"value", "error"} : /\ Calling(w, val, "remote") \in Reports
                                         /\ Calling(w, val, "remote").work = w
    BY Zenon DEF Calling, Reports
  <2> QED
    BY <2>1, Zenon DEF CompleteAction
<1>8. /\ Held' = Held /\ LanesApart'
      /\ localLane' = [l \in Lanes |-> localLane'[l]]
      /\ \A l \in Lanes :
            \/ localLane'[l] \in Resting
            \/ \E u \in Submissions : \/ localLane'[l] = At("running", u)
                                  \/ localLane'[l] = At("reporting", u)
  BY <1>7, BesideLanes, Zenon
<1>9. ReportedOnce' /\ reports' \subseteq Reports
  <2>1. CASE UNCHANGED <<pending, reports>>
    BY <1>1, <2>1, Zenon DEF ReportedOnce
  <2>2. CASE /\ w \in pending /\ pending' = pending \ {w}
             /\ \E new \in Reports : new.work = w /\ reports' = reports \cup {new}
    BY <1>2, <2>2, TakenOut, Zenon
  <2> QED
    BY <1>7, <2>1, <2>2, Zenon
<1>10. \A v \in Submissions \ {w} : Untouched(v)
  BY <1>4, <1>5, <1>7, <1>8, Zenon DEF Untouched
<1>11. Somewhere(w)'
  <2>1. CASE w \notin pending
    <3>1. w \notin pending'
      BY <1>7, <2>1, Zenon
    <3> QED
      BY <1>3, <1>4, <1>8, <2>1, <3>1, Zenon DEF Somewhere, Absent, Where
  <2>2. CASE w \in pending /\ w \notin pending'
    BY <1>2, <1>4, <1>8, <2>2, Zenon DEF Somewhere, Absent, AtRemote, Where
  <2>3. CASE w \in pending /\ w \in pending'
    <3>1. w \in Remote'
      BY <1>6, <2>3, Zenon DEF CompleteAction
    <3> QED
      BY <1>2, <1>4, <1>8, <2>3, <3>1, Zenon DEF Somewhere, AtRemote, Where
  <2> QED
    BY <2>1, <2>2, <2>3, Zenon
<1>12. ExecutorShaped'
  BY <1>1, <1>5, <1>7, <1>8, <1>9, Zenon DEF ExecutorShaped
<1>13. \A r \in reports' : r \in reports \/ r.work = w
  BY <1>7, Zenon
<1>14. ExecutorInv' /\ \A v \in Submissions \ {w} : StillFresh(v)
  BY <1>8, <1>9, <1>10, <1>11, <1>12, <1>13, Moving, Zenon
<1> QED
  BY <1>14, Zenon DEF StillFresh, Fresh

\* The three callbacks.
LEMMA RemoteCallbacks ==
    ASSUME ExecutorInv, NEW w \in Submissions, NEW val \in {"value", "error"},
           \/ RemotePrepared(w, val) \/ RemoteDispatched(w, val)
           \/ \E hasCache : RemoteResult(w, val, hasCache)
    PROVE  ExecutorInv' /\ \A v \in Submissions : StillFresh(v)
<1>1. /\ remoteCalls[w] \in SUBSET {"prepare", "dispatch", "result"}
      /\ w \in pending /\ remoteCalls[w] # {} =>
            remoteCalls[w] \cap {"prepare", "result"} # {}
  <2>1. w \in Remote => remoteCalls[w] \cap {"prepare", "result"} # {}
    BY Zenon DEF Remote
  <2> QED
    BY <2>1, Zenon DEF ExecutorInv, ExecutorShaped, Somewhere
<1>2. UNCHANGED <<leaked, localActions, localLane, asyncActions, asyncLane,
                  asyncCalls>>
  BY Zenon DEF RemotePrepared, RemoteDispatched, RemoteResult, localVars, asyncVars
<1>3. CASE RemotePrepared(w, val)
  <2>1. remoteCalls[w] # {}
    BY <1>3, Zenon DEF RemotePrepared
  <2>2. \/ CompleteAction(w, "error") /\ remoteCalls' = [remoteCalls EXCEPT ![w] = {}]
        \/ /\ UNCHANGED <<pending, reports>>
           /\ remoteCalls' = [remoteCalls EXCEPT ![w] = {"dispatch", "result"}]
    BY <1>3, Zenon DEF RemotePrepared
  <2> QED
    BY <1>2, <2>1, <2>2, RemoteStep, Zenon
<1>4. CASE RemoteDispatched(w, val)
  <2>1. PICK calls \in SUBSET {"prepare", "dispatch", "result"} :
            calls = remoteCalls[w] \ {"dispatch"}
    BY <1>1, Zenon
  <2>2. /\ remoteCalls[w] # {} /\ remoteCalls' = [remoteCalls EXCEPT ![w] = calls]
        /\ CompleteAction(w, "error") \/ UNCHANGED <<pending, reports>>
    BY <1>4, <2>1, Zenon DEF RemoteDispatched
  <2>3. w \in pending => calls \cap {"prepare", "result"} # {}
    BY <1>1, <2>1, <2>2, Zenon
  <2> QED
    BY <1>2, <2>2, <2>3, RemoteStep, Zenon
<1>5. CASE \E hasCache : RemoteResult(w, val, hasCache)
  <2>1. PICK calls \in SUBSET {"prepare", "dispatch", "result"} :
            calls = remoteCalls[w] \ {"result"}
    BY <1>1, Zenon
  <2>2. /\ remoteCalls[w] # {} /\ remoteCalls' = [remoteCalls EXCEPT ![w] = calls]
        /\ CompleteAction(w, val)
    BY <1>5, <2>1, Zenon DEF RemoteResult
  <2> QED
    BY <1>2, <2>2, RemoteStep, Zenon
<1> QED
  BY <1>3, <1>4, <1>5, Zenon

\* The listener call is made, and its thread goes on.
LEMMA Reporting ==
    ASSUME ExecutorInv, NEW r, Reported(r)
    PROVE  ExecutorInv' /\ \A v \in Submissions : StillFresh(v)
<1>1. /\ r \in reports /\ reports' = reports \ {r}
      /\ localLane' = [l \in Lanes |->
             IF r.by = "lane" /\ localLane[l] = At("reporting", r.work)
             THEN Looking ELSE localLane[l]]
      /\ UNCHANGED <<pending, leaked, localActions, asyncActions, asyncLane,
                     asyncCalls, remoteCalls>>
  BY Zenon DEF Reported, remoteVars
<1>2. ExecutorShaped /\ LanesApart /\ ReportedOnce
  BY Zenon DEF ExecutorInv
<1>3. \A l \in Lanes : \/ localLane'[l] = localLane[l]
                       \/ /\ localLane[l] = At("reporting", r.work)
                          /\ localLane'[l] = Looking
  BY <1>1, Zenon
<1>4. Held' = Held /\ Starting' = Starting
  BY <1>1, <1>3, LaneStates DEF Held, Starting
<1>5. \A v \in Submissions : Untouched(v)
  BY <1>1, <1>4, Zenon DEF Untouched
<1>6. \A v \in Submissions : Somewhere(v)' /\ StillFresh(v)
  BY <1>1, <1>5, StaysSomewhere, Zenon DEF ExecutorInv, StillFresh, Fresh
<1>7. ExecutorShaped'
  <2>1. localLane' = [l \in Lanes |-> localLane'[l]]
    BY <1>1, Zenon
  <2> QED
    BY <1>1, <1>2, <1>3, <2>1, Zenon DEF ExecutorShaped, Resting
<1>8. LanesApart'
  <2>1. ASSUME NEW l \in Lanes, NEW w \in Submissions, localLane'[l].work = w
        PROVE  localLane'[l] = localLane[l]
    BY <1>3, <2>1, LaneStates, Numbers, Zenon
  <2>2. ASSUME NEW l \in Lanes, NEW m \in Lanes, NEW w \in Submissions,
               localLane'[l].work = w, localLane'[m].work = w
        PROVE  l = m
    BY <1>2, <2>1, <2>2 DEF LanesApart
  <2>3. ASSUME NEW l \in Lanes, NEW w \in Submissions,
               localLane'[l] = At("reporting", w)
        PROVE  \E q \in reports' : q.work = w /\ q.by = "lane"
    <3>1. localLane[l] = At("reporting", w)
      BY <2>1, <2>3, LaneStates
    <3>2. PICK q \in reports : q.work = w /\ q.by = "lane"
      BY <1>2, <3>1 DEF LanesApart
    <3>3. CASE q = r
      <4>1. localLane'[l] = Looking
        BY <1>1, <3>1, <3>2, <3>3, Zenon
      <4> QED
        BY <2>3, <4>1, LaneStates
    <3> QED
      BY <1>1, <3>2, <3>3, Zenon
  <2> QED
    BY <2>2, <2>3, Zenon DEF LanesApart
<1>9. ReportedOnce'
  BY <1>1, <1>2, Zenon DEF ReportedOnce
<1> QED
  BY <1>6, <1>7, <1>8, <1>9, Zenon DEF ExecutorInv

\* Every step of the executor's own.
LEMMA ExecutorSteps ==
    ASSUME ExecutorInv, NEW hasCache,
           \/ ExecutorStep(hasCache) \/ DestroyExecutor \/ JoinLocalLanes
           \/ DetachListener \/ UNCHANGED executorVars
    PROVE  ExecutorInv' /\ \A v \in Submissions : StillFresh(v)
<1>1. CASE \/ \E l \in Lanes : LocalSleep(l) \/ LocalExit(l)
           \/ AsyncSleep \/ AsyncExit \/ (\E w \in Submissions : AsyncRelease(w))
           \/ DetachListener \/ DestroyExecutor \/ JoinLocalLanes
           \/ UNCHANGED executorVars
  BY <1>1, Sleeping, Zenon
<1>2. CASE \/ \E l \in Lanes : LocalTake(l)
           \/ \E l \in Lanes, val \in {"value", "error"} : LocalFinish(l, val, hasCache)
           \/ AsyncTake \/ AsyncStart
  BY <1>2, LocalTaking, LocalFinishing, AsyncTaking, AsyncStarting, Zenon
<1>3. CASE \E w \in Submissions, val \in {"value", "error"} :
               \/ AsyncCallback(w, val) \/ RemotePrepared(w, val)
               \/ RemoteDispatched(w, val) \/ RemoteResult(w, val, hasCache)
  BY <1>3, CallingBack, RemoteCallbacks, Numbers, Zenon
<1> QED
  BY <1>1, <1>2, <1>3, Zenon DEF ExecutorStep

\* What a lane runs, a subtask computes or the remote executor has is pending.
LEMMA StillPending ==
    ASSUME ExecutorInv, NEW w \in Submissions,
           w \in Held \/ w \in asyncCalls \/ (w \in pending /\ remoteCalls[w] # {})
    PROVE  w \in pending \ leaked
<1>1. Somewhere(w)
  BY Zenon DEF ExecutorInv
<1> QED
  BY <1>1, Zenon DEF Somewhere, Absent, Queued, OnLocalLane, AsyncQueued, Started,
              Called, AtRemote, Left, Where

\* The invariant counts for each submission the places that have it.
LEMMA PlacesCounted ==
    ASSUME ExecutorInv
    PROVE  PendingIsSomewhere
<1>. DEFINE places == <<localActions, Held, asyncActions, Starting, asyncCalls,
                        Remote \cap pending, leaked>>
            in(w) == {q \in 1 .. Len(places) : w \in places[q]}
<1>1. /\ Len(places) = 7 /\ places[1] = localActions /\ places[2] = Held
      /\ places[3] = asyncActions /\ places[4] = Starting
      /\ places[5] = asyncCalls /\ places[6] = Remote \cap pending
      /\ places[7] = leaked
  BY Zenon
<1>2. 1 .. 7 = {1, 2, 3, 4, 5, 6, 7}
  OBVIOUS
<1>s. \A q \in Nat : Cardinality({q}) = 1
  BY FS_Singleton, ZenonT(60)
<1>3. ASSUME NEW w \in Submissions
      PROVE  Cardinality(in(w)) = IF w \in pending THEN 1 ELSE 0
  <2>. HIDE DEF places, in
  <2>0. PICK V : V = in(w)
    BY Zenon
  <2>1. Somewhere(w)
    BY Zenon DEF ExecutorInv
  <2>2. CASE w \in pending
    <3>1. Cardinality(V) = 1
      <4>1. CASE Queued(w)
        <5>1. V = {1}
          BY <1>1, <2>0, <1>2, <4>1, Zenon DEF in, Queued, Where
        <5> QED
          BY ONLY <5>1, <1>s, Zenon
      <4>2. CASE OnLocalLane(w)
        <5>1. V = {2}
          BY <1>1, <2>0, <1>2, <4>2, Zenon DEF in, OnLocalLane, Where
        <5> QED
          BY ONLY <5>1, <1>s, Zenon
      <4>3. CASE AsyncQueued(w)
        <5>1. V = {3}
          BY <1>1, <2>0, <1>2, <4>3, Zenon DEF in, AsyncQueued, Where
        <5> QED
          BY ONLY <5>1, <1>s, Zenon
      <4>4. CASE Started(w)
        <5>1. V = {4}
          BY <1>1, <2>0, <1>2, <4>4, Zenon DEF in, Started, Where
        <5> QED
          BY ONLY <5>1, <1>s, Zenon
      <4>5. CASE Called(w)
        <5>1. V = {5}
          BY <1>1, <2>0, <1>2, <4>5, Zenon DEF in, Called, Where
        <5> QED
          BY ONLY <5>1, <1>s, Zenon
      <4>6. CASE AtRemote(w)
        <5>1. V = {6}
          BY <1>1, <2>0, <1>2, <4>6, Zenon DEF in, AtRemote, Where
        <5> QED
          BY ONLY <5>1, <1>s, Zenon
      <4>7. CASE Left(w)
        <5>1. V = {7}
          BY <1>1, <2>0, <1>2, <4>7, Zenon DEF in, Left, Where
        <5> QED
          BY ONLY <5>1, <1>s, Zenon
      <4> QED
        BY <2>1, <2>2, <4>1, <4>2, <4>3, <4>4, <4>5, <4>6, <4>7, Zenon DEF Somewhere
    <3> QED
      BY <2>0, <2>2, <3>1, Zenon
  <2>3. CASE w \notin pending
    <3>1. V = {}
      BY <1>1, <1>2, <2>0, <2>1, <2>3, Zenon DEF in, Somewhere, Absent, Where
    <3>2. Cardinality(V) = 0
      BY <3>1, FS_EmptySet, Zenon
    <3> QED
      BY <2>0, <2>3, <3>2, Zenon
  <2> QED
    BY <2>2, <2>3, Zenon
<1>4. ASSUME NEW l \in Lanes, NEW m \in Lanes, l # m,
             localLane[l].work # NoSubmission
      PROVE  localLane[l].work # localLane[m].work
  <2>1. localLane[l].work \in Submissions
    BY <1>4, LaneStates DEF ExecutorInv, ExecutorShaped, Resting
  <2> QED
    BY <1>4, <2>1, Zenon DEF ExecutorInv, LanesApart
<1>5. ReportedOnce
  BY Zenon DEF ExecutorInv
<1> QED
  BY <1>3, <1>4, <1>5, Numbers, Zenon DEF PendingIsSomewhere, ReportedOnce

-----------------------------------------------------------------------------
(***************************************************************************)
(* The number of asynchronous subtasks.                                    *)
(***************************************************************************)
AsyncReports == {r \in reports : r.by = "async"}

\* A subtask is counted from AsyncStart to AsyncRelease, as one that runs, one
\* that is being reported or one that has been.
AsyncInv ==
    /\ inflightAsyncActions \in Nat
    /\ IsFiniteSet(reports) /\ asyncReturns \subseteq Submissions
    /\ \A w \in asyncReturns : w \notin pending /\ \A r \in reports : r.work # w
    /\ \A r \in AsyncReports : r.work \notin pending
    /\ AsyncWithinLimit

\* Nothing is counted at first.
LEMMA AsyncInitially ==
    ExecutorInit => AsyncInv /\ asyncReturns = {}
<1>. SUFFICES ASSUME ExecutorInit PROVE AsyncInv /\ asyncReturns = {}
  BY Zenon
<1>1. /\ inflightAsyncActions = 0 /\ reports = {} /\ asyncReturns = {}
      /\ asyncCalls = {} /\ asyncLane = Asleep
  BY Zenon DEF ExecutorInit
<1>2. Starting = {} /\ AsyncReports = {}
  BY <1>1, LaneStates DEF Starting, AsyncReports
<1>3. Cardinality({}) = 0 /\ IsFiniteSet({})
  BY FS_EmptySet, Zenon
<1>4. AsyncWithinLimit
  <2>1. Cardinality(asyncCalls) = 0 /\ Cardinality(asyncReturns) = 0
        /\ Cardinality(AsyncReports) = 0 /\ Cardinality(Starting) = 0
    BY <1>1, <1>2, <1>3, Zenon
  <2> QED
    BY <1>1, <2>1, ExecutorAssumption DEF AsyncWithinLimit, AsyncReports
<1> QED
  BY <1>1, <1>2, <1>3, <1>4, Zenon DEF AsyncInv

\* The sets that are counted are finite.
LEMMA Countable ==
    ASSUME ExecutorInv, AsyncInv
    PROVE  /\ IsFiniteSet(asyncCalls) /\ IsFiniteSet(asyncReturns)
           /\ IsFiniteSet(AsyncReports)
           /\ Cardinality(asyncCalls) \in Nat /\ Cardinality(asyncReturns) \in Nat
           /\ Cardinality(AsyncReports) \in Nat
           /\ inflightAsyncActions = Cardinality(asyncCalls)
                  + Cardinality(asyncReturns) + Cardinality(AsyncReports)
<1>1. /\ asyncCalls \subseteq Submissions /\ asyncReturns \subseteq Submissions
      /\ AsyncReports \subseteq reports
      /\ IsFiniteSet(Submissions) /\ IsFiniteSet(reports)
  BY ExecutorAssumption, Zenon DEF ExecutorInv, ExecutorShaped, AsyncInv, AsyncReports
<1>2. /\ IsFiniteSet(asyncCalls) /\ IsFiniteSet(asyncReturns)
      /\ IsFiniteSet(AsyncReports)
  BY <1>1, FS_Subset, Zenon
<1> QED
  BY <1>2, FS_CardinalityType, Zenon DEF AsyncInv, AsyncWithinLimit, AsyncReports

\* Steps that are not about asynchronous subtasks.
LEMMA AsyncAside ==
    ASSUME ExecutorInv, AsyncInv, Starting' = Starting,
           UNCHANGED <<asyncCalls, asyncReturns, inflightAsyncActions>>,
           shouldShutdown => shouldShutdown',
           \/ pending' \subseteq pending /\ UNCHANGED reports
           \/ \E w : /\ w \in pending \/ (Fresh(w) /\ w \notin asyncReturns)
                     /\ pending' \subseteq pending \cup {w}
                     /\ \/ UNCHANGED reports
                        \/ \E new : /\ new.work = w /\ new.by # "async"
                                    /\ reports' = reports \cup {new}
    PROVE  AsyncInv'
<1>1. AsyncReports' = AsyncReports
  BY Zenon DEF AsyncReports
<1>2. AsyncWithinLimit'
  BY <1>1, Zenon DEF AsyncInv, AsyncWithinLimit, AsyncReports
<1>3. IsFiniteSet(reports')
  BY FS_AddElement DEF AsyncInv
<1>4. \A w \in asyncReturns' : w \notin pending' /\ \A r \in reports' : r.work # w
  BY Zenon DEF AsyncInv
<1>5. \A r \in AsyncReports' : r.work \notin pending'
  BY <1>1, Zenon DEF AsyncInv, AsyncReports, Fresh
<1> QED
  BY <1>2, <1>3, <1>4, <1>5, Zenon DEF AsyncInv

\* The async lane takes an item only below the limit.
LEMMA TakenBelowLimit ==
    ASSUME ExecutorInv, AsyncInv, AsyncTake
    PROVE  AsyncInv'
<1>1. PICK w \in asyncActions :
          /\ asyncLane = Looking /\ asyncLane' = At("starting", w)
          /\ shouldShutdown \/ ~AtLimit
          /\ UNCHANGED <<pending, inflightAsyncActions, asyncCalls, asyncReturns,
                         reports, shouldShutdown>>
  BY Zenon DEF AsyncTake
<1>2. w \in Submissions
  BY <1>1, Zenon DEF ExecutorInv, ExecutorShaped
<1>3. Starting' = {w}
  BY <1>1, <1>2, LaneStates DEF Starting
<1>4. Cardinality(Starting') = 1
  BY <1>3, FS_Singleton, Zenon
<1>5. AsyncReports' = AsyncReports
  BY <1>1, Zenon DEF AsyncReports
<1>6. MaxAsyncConcurrency > 0 /\ ~shouldShutdown' =>
          inflightAsyncActions' + Cardinality(Starting') <= MaxAsyncConcurrency
  BY <1>1, <1>4, ExecutorAssumption DEF AtLimit, AsyncInv
<1>7. AsyncWithinLimit'
  BY <1>1, <1>5, <1>6, Zenon DEF AsyncInv, AsyncWithinLimit, AsyncReports
<1> QED
  BY <1>1, <1>5, <1>7, Zenon DEF AsyncInv

\* The subtask is counted before it starts.
LEMMA CountedIn ==
    ASSUME ExecutorInv, AsyncInv, AsyncStart
    PROVE  AsyncInv'
<1>1. PICK w \in Submissions : asyncLane = At("starting", w)
  BY LaneStates, Zenon DEF AsyncStart, ExecutorInv, ExecutorShaped, Resting
<1>2. /\ asyncCalls' = asyncCalls \cup {w} /\ asyncLane' = Looking
      /\ inflightAsyncActions' = inflightAsyncActions + 1
      /\ UNCHANGED <<pending, asyncReturns, reports, shouldShutdown>>
  BY <1>1, LaneStates DEF AsyncStart
<1>3. Starting = {w} /\ Starting' = {}
  BY <1>1, <1>2, LaneStates, Numbers DEF Starting
<1>4. w \notin asyncCalls
  <2>1. Somewhere(w) /\ w \in Starting
    BY <1>3, Zenon DEF ExecutorInv
  <2> QED
    BY <2>1, Zenon DEF Somewhere, Absent, Queued, OnLocalLane, AsyncQueued, Started,
                Called, AtRemote, Left, Where
<1>5. Cardinality(asyncCalls') = Cardinality(asyncCalls) + 1
  BY <1>2, <1>4, Countable, FS_AddElement, Zenon
<1>6. Cardinality(Starting) = 1 /\ Cardinality(Starting') = 0
  BY <1>3, FS_Singleton, FS_EmptySet, Zenon
<1>7. AsyncReports' = AsyncReports
  BY <1>2, Zenon DEF AsyncReports
<1>8. AsyncWithinLimit'
  <2>1. inflightAsyncActions' = Cardinality(asyncCalls')
            + Cardinality(asyncReturns') + Cardinality(AsyncReports')
    BY <1>2, <1>5, <1>7, Countable
  <2>2. MaxAsyncConcurrency > 0 /\ ~shouldShutdown' =>
            inflightAsyncActions' + Cardinality(Starting') <= MaxAsyncConcurrency
    BY <1>2, <1>6, ExecutorAssumption DEF AsyncInv, AsyncWithinLimit
  <2> QED
    BY <2>1, <2>2, Zenon DEF AsyncWithinLimit, AsyncReports
<1> QED
  BY <1>2, <1>7, <1>8, SMTT(30) DEF AsyncInv

\* A callback is counted as a report instead.
LEMMA CountedBack ==
    ASSUME ExecutorInv, AsyncInv, NEW w \in Submissions,
           NEW val \in {"value", "error"}, AsyncCallback(w, val)
    PROVE  AsyncInv'
<1>1. PICK new : new = Calling(w, val, "async")
  BY Zenon
<1>2. /\ w \in asyncCalls /\ asyncCalls' = asyncCalls \ {w}
      /\ pending' = pending \ {w} /\ reports' = reports \cup {new}
      /\ UNCHANGED <<asyncLane, inflightAsyncActions, asyncReturns, shouldShutdown>>
  BY <1>1, Zenon DEF AsyncCallback
<1>3. new.work = w /\ new.by = "async"
  BY <1>1, Zenon DEF Calling
<1>4. w \in pending \ leaked
  BY <1>2, StillPending, Zenon
<1>5. new \notin reports /\ w \notin asyncReturns
  BY <1>3, <1>4, Zenon DEF ExecutorInv, ReportedOnce, AsyncInv
<1>6. AsyncReports' = AsyncReports \cup {new} /\ new \notin AsyncReports
  BY <1>2, <1>3, <1>5, Zenon DEF AsyncReports
<1>7. Cardinality(AsyncReports') = Cardinality(AsyncReports) + 1
  BY <1>6, Countable, FS_AddElement, Zenon
<1>8. Cardinality(asyncCalls') = Cardinality(asyncCalls) - 1
  BY <1>2, Countable, FS_RemoveElement, Zenon
<1>9. Starting' = Starting
  BY <1>2, Zenon DEF Starting
<1>10. AsyncWithinLimit'
  <2>1. inflightAsyncActions' = Cardinality(asyncCalls')
            + Cardinality(asyncReturns') + Cardinality(AsyncReports')
    BY <1>2, <1>7, <1>8, Countable
  <2> QED
    BY <1>2, <1>9, <2>1, Zenon DEF AsyncInv, AsyncWithinLimit, AsyncReports
<1>11. IsFiniteSet(reports')
  BY <1>2, FS_AddElement, Zenon DEF AsyncInv
<1>12. \A u \in asyncReturns' : u \notin pending' /\ \A r \in reports' : r.work # u
  BY <1>2, <1>3, <1>5, Zenon DEF AsyncInv
<1>13. \A r \in AsyncReports' : r.work \notin pending'
  BY <1>2, <1>3, <1>6, Zenon DEF AsyncInv
<1> QED
  BY <1>2, <1>10, <1>11, <1>12, <1>13, Zenon DEF AsyncInv

\* A subtask that has been reported is counted out.
LEMMA CountedOut ==
    ASSUME ExecutorInv, AsyncInv, NEW w, AsyncRelease(w)
    PROVE  AsyncInv'
<1>1. /\ w \in asyncReturns /\ asyncReturns' = asyncReturns \ {w}
      /\ inflightAsyncActions' = inflightAsyncActions - 1
      /\ UNCHANGED <<pending, asyncLane, asyncCalls, reports, shouldShutdown>>
  BY Zenon DEF AsyncRelease
<1>2. Cardinality(asyncReturns') = Cardinality(asyncReturns) - 1
      /\ Cardinality(asyncReturns') \in Nat
  BY <1>1, Countable, FS_RemoveElement, FS_CardinalityType, Zenon
<1>3. Starting' = Starting /\ AsyncReports' = AsyncReports
  BY <1>1, Zenon DEF Starting, AsyncReports
<1>4. inflightAsyncActions' \in Nat
  BY <1>1, <1>2, Countable
<1>5. AsyncWithinLimit'
  <2>1. inflightAsyncActions' = Cardinality(asyncCalls')
            + Cardinality(asyncReturns') + Cardinality(AsyncReports')
    BY <1>1, <1>2, <1>3, Countable
  <2>2. Cardinality(Starting) \in Nat
    BY ExecutorAssumption, FS_Subset, FS_CardinalityType, Zenon DEF Starting
  <2>3. MaxAsyncConcurrency > 0 /\ ~shouldShutdown' =>
            inflightAsyncActions' + Cardinality(Starting') <= MaxAsyncConcurrency
    BY <1>1, <1>3, <2>2, ExecutorAssumption, SMTT(30) DEF AsyncInv, AsyncWithinLimit
  <2> QED
    BY <2>1, <2>3, Zenon DEF AsyncWithinLimit, AsyncReports
<1> QED
  BY <1>1, <1>3, <1>4, <1>5, Zenon DEF AsyncInv

\* A report that has been made is counted as a return instead.
LEMMA CountedReported ==
    ASSUME ExecutorInv, AsyncInv, NEW r, Reported(r)
    PROVE  AsyncInv' /\ asyncReturns' \subseteq asyncReturns \cup {r.work}
<1>1. /\ r \in reports /\ reports' = reports \ {r}
      /\ asyncReturns' = IF r.by = "async" THEN asyncReturns \cup {r.work}
                         ELSE asyncReturns
      /\ UNCHANGED <<pending, asyncLane, inflightAsyncActions, asyncCalls,
                     shouldShutdown>>
  BY Zenon DEF Reported
<1>2. r.work \in Submissions /\ r.work \notin asyncReturns
      /\ \A q \in reports' : q.work # r.work
  BY <1>1, Zenon DEF ExecutorInv, ExecutorShaped, Reports, AsyncInv, ReportedOnce
<1>3. IsFiniteSet(reports')
  BY <1>1, FS_RemoveElement, Zenon DEF AsyncInv
<1>4. Starting' = Starting
  BY <1>1, Zenon DEF Starting
<1>5. Cardinality(asyncReturns') + Cardinality(AsyncReports')
          = Cardinality(asyncReturns) + Cardinality(AsyncReports)
  <2>1. CASE r.by = "async"
    <3>1. AsyncReports' = AsyncReports \ {r} /\ r \in AsyncReports
          /\ asyncReturns' = asyncReturns \cup {r.work}
      BY <1>1, <2>1, Zenon DEF AsyncReports
    <3>2. Cardinality(AsyncReports') = Cardinality(AsyncReports) - 1
      BY <3>1, Countable, FS_RemoveElement, Zenon
    <3>3. Cardinality(asyncReturns') = Cardinality(asyncReturns) + 1
      BY <1>2, <3>1, Countable, FS_AddElement, Zenon
    <3> QED
      BY <3>2, <3>3, Countable
  <2>2. CASE r.by # "async"
    <3>1. AsyncReports' = AsyncReports /\ asyncReturns' = asyncReturns
      BY <1>1, <2>2 DEF AsyncReports
    <3> QED
      BY <3>1, Zenon
  <2> QED
    BY <2>1, <2>2, Zenon
<1>6. IsFiniteSet(asyncReturns') /\ IsFiniteSet(AsyncReports')
  BY <1>1, <1>3, Countable, FS_AddElement, FS_Subset, Zenon DEF AsyncReports
<1>7. AsyncWithinLimit'
  <2>1. inflightAsyncActions' = Cardinality(asyncCalls')
            + Cardinality(asyncReturns') + Cardinality(AsyncReports')
    BY <1>1, <1>5, <1>6, Countable, FS_CardinalityType, SMTT(30)
  <2> QED
    BY <1>1, <1>4, <2>1, Zenon DEF AsyncInv, AsyncWithinLimit, AsyncReports
<1>8. \A w \in asyncReturns' : w \notin pending' /\ \A q \in reports' : q.work # w
  <2>1. r.by = "async" => r.work \notin pending
    BY <1>1, Zenon DEF AsyncInv, AsyncReports
  <2> QED
    BY <1>1, <1>2, <2>1, Zenon DEF AsyncInv
<1>9. \A q \in AsyncReports' : q.work \notin pending'
  BY <1>1, Zenon DEF AsyncInv, AsyncReports
<1> QED
  BY <1>1, <1>2, <1>3, <1>7, <1>8, <1>9, Zenon DEF AsyncInv

\* submit counts nothing.
LEMMA SubmittedUncounted ==
    ASSUME ExecutorInv, AsyncInv, NEW w \in Submissions, Fresh(w),
           w \notin asyncReturns,
           \/ \E act, hasCache, hasRemote : SubmitAction(w, act, hasCache, hasRemote)
           \/ \E kind : SubmitSubtask(w, kind)
    PROVE  AsyncInv' /\ UNCHANGED asyncReturns
<1>1. UNCHANGED <<asyncCalls, asyncReturns, inflightAsyncActions, shouldShutdown>>
  BY Zenon DEF SubmitAction, AnswerAtOnce,
      PrepareForLocalExecution, PrepareForRemoteExecution, SubmitSubtask, asyncVars
<1>2. Starting' = Starting
  <2>1. asyncLane' = asyncLane \/ (asyncLane = Asleep /\ asyncLane' = Looking)
    BY Zenon DEF SubmitAction, AnswerAtOnce,
        PrepareForLocalExecution, PrepareForRemoteExecution, SubmitSubtask,
        asyncVars, NotifyAsync
  <2> QED
    BY <2>1, NothingStarted, Zenon
<1>3. \A val : /\ Calling(w, val, "submit").work = w
               /\ Calling(w, val, "submit").by # "async"
  BY Zenon DEF Calling
<1>4. /\ pending' \subseteq pending \cup {w}
      /\ \/ UNCHANGED reports
         \/ \E val : reports' = reports \cup {Calling(w, val, "submit")}
  BY Zenon DEF SubmitAction, AnswerAtOnce,
      PrepareForLocalExecution, PrepareForRemoteExecution, SubmitSubtask
<1> QED
  BY <1>1, <1>2, <1>3, <1>4, AsyncAside, Zenon

\* Every step of the executor's own counts right.
LEMMA CountKept ==
    ASSUME ExecutorInv, AsyncInv, NEW hasCache,
           \/ ExecutorStep(hasCache) \/ DestroyExecutor \/ JoinLocalLanes
           \/ DetachListener \/ UNCHANGED executorVars
    PROVE  AsyncInv' /\ asyncReturns' \subseteq asyncReturns
<1>1. CASE \/ \E l \in Lanes : LocalSleep(l) \/ LocalExit(l) \/ LocalTake(l)
           \/ AsyncSleep \/ AsyncExit \/ DestroyExecutor \/ JoinLocalLanes
           \/ DetachListener \/ UNCHANGED executorVars
  <2>1. UNCHANGED <<asyncCalls, asyncReturns, inflightAsyncActions, pending,
                    reports>>
    BY <1>1, Zenon DEF LocalSleep, LocalExit, LocalTake, AsyncSleep, AsyncExit,
                DestroyExecutor, JoinLocalLanes, DetachListener, executorVars,
                asyncVars
  <2>3. shouldShutdown => shouldShutdown'
    BY <1>1, Zenon DEF LocalSleep, LocalExit, LocalTake, AsyncSleep, AsyncExit,
                DestroyExecutor, JoinLocalLanes, DetachListener, executorVars
  <2>2. Starting' = Starting
    <3>1. \/ asyncLane' = asyncLane
          \/ asyncLane = Looking /\ asyncLane' \in {Asleep, Exited}
          \/ asyncLane = Asleep /\ asyncLane' = Looking
      BY <1>1, Zenon DEF LocalSleep, LocalExit, LocalTake, AsyncSleep, AsyncExit,
                  DestroyExecutor, JoinLocalLanes, DetachListener, executorVars,
                  asyncVars
    <3> QED
      BY <3>1, NothingStarted, Zenon
  <2> QED
    BY <2>1, <2>2, <2>3, AsyncAside, Zenon
<1>2. ASSUME NEW l \in Lanes, NEW val, LocalFinish(l, val, hasCache)
      PROVE  AsyncInv' /\ asyncReturns' \subseteq asyncReturns
  <2>1. PICK w : w = localLane[l].work
    BY Zenon
  <2>2. w \in Held /\ w \in Submissions
    BY <1>2, <2>1, LaneStates
       DEF LocalFinish, Held, ExecutorInv, ExecutorShaped, Resting
  <2>3. w \in pending
    BY <2>2, StillPending, Zenon
  <2>4. /\ UNCHANGED <<asyncCalls, asyncReturns, inflightAsyncActions, asyncLane,
                       shouldShutdown>>
        /\ pending' \subseteq pending \cup {w}
        /\ reports' = reports \cup {Calling(w, val, "lane")}
    BY <1>2, <2>1, Zenon DEF LocalFinish, ActionFinished, SubtaskFinished, asyncVars
  <2>5. Calling(w, val, "lane").work = w /\ Calling(w, val, "lane").by # "async"
    BY Zenon DEF Calling
  <2>6. Starting' = Starting
    BY <2>4, Zenon DEF Starting
  <2> QED
    BY <2>3, <2>4, <2>5, <2>6, AsyncAside, Zenon
<1>3. ASSUME NEW w \in Submissions, NEW val,
             \/ RemotePrepared(w, val) \/ RemoteDispatched(w, val)
             \/ RemoteResult(w, val, hasCache)
      PROVE  AsyncInv' /\ asyncReturns' \subseteq asyncReturns
  <2>1. UNCHANGED <<asyncCalls, asyncReturns, inflightAsyncActions, asyncLane,
                    shouldShutdown>>
    BY <1>3, Zenon DEF RemotePrepared, RemoteDispatched, RemoteResult, asyncVars
  <2>2. Starting' = Starting
    BY <2>1, Zenon DEF Starting
  <2>3. \/ \E v : CompleteAction(w, v)
        \/ UNCHANGED <<pending, reports>>
    BY <1>3, Zenon DEF RemotePrepared, RemoteDispatched, RemoteResult
  <2>4. \A v : /\ Calling(w, v, "remote").work = w
               /\ Calling(w, v, "remote").by # "async"
    BY Zenon DEF Calling
  <2>5. \/ pending' \subseteq pending /\ UNCHANGED reports
        \/ /\ w \in pending /\ pending' \subseteq pending \cup {w}
           /\ \E v : reports' = reports \cup {Calling(w, v, "remote")}
    BY <2>3, Zenon DEF CompleteAction
  <2> QED
    BY <2>1, <2>2, <2>4, <2>5, AsyncAside, Zenon
<1>4. CASE AsyncTake \/ AsyncStart
  BY <1>4, TakenBelowLimit, CountedIn, Zenon DEF AsyncTake, AsyncStart
<1>5. ASSUME NEW w \in Submissions, NEW val \in {"value", "error"},
             AsyncCallback(w, val)
      PROVE  AsyncInv' /\ asyncReturns' \subseteq asyncReturns
  BY <1>5, CountedBack, Zenon DEF AsyncCallback
<1>6. ASSUME NEW w, AsyncRelease(w)
      PROVE  AsyncInv' /\ asyncReturns' \subseteq asyncReturns
  BY <1>6, CountedOut, Zenon DEF AsyncRelease
<1> QED
  BY <1>1, <1>2, <1>3, <1>4, <1>5, <1>6, Zenon DEF ExecutorStep
==============================================================================
