------------------------------- MODULE Builra3 -------------------------------
(***************************************************************************)
(* A builra3 engine and the executor it submits to.  Reports of the        *)
(* executor run the engine's code on the executor's threads, and a report  *)
(* made inside submit on the engine's own lane.                            *)
(***************************************************************************)
EXTENDS TaskEngine, ActionExecutor

ASSUME Builra3Assumption == Submissions = WorkIDs /\ ActionKinds = Actions

vars == <<engineVars, executorVars>>

Init ==
    /\ EngineInit /\ ExecutorInit
    /\ config.actionCache \/ cachedActions = {}
    /\ config.remote \/ ~executableCached

-----------------------------------------------------------------------------
\* taskRequestAction's and taskSpawnSubtask's call of submit.
Submit ==
    /\ SubmitAccepted
    /\ \/ /\ lane.ask[1] = "action"
          /\ SubmitAction(lane.work, lane.ask[2], config.actionCache,
                          config.remote)
       \/ /\ lane.ask[1] # "action"
          /\ SubmitSubtask(lane.work, lane.ask[1])

Refuse ==
    /\ lane.ask[1] = "action" /\ lane.ask[2] \in Refused
    /\ SubmitRejected
    /\ UNCHANGED executorVars

\* The lane is inside submit until the report submit makes itself is over.
InsideSubmit == \E r \in reports : r.by = "submit"

Lane ==
    /\ ~InsideSubmit
    /\ \/ LaneStep
       \/ \E x \in Actions : TaskRequestAction(x)
       \/ \E t \in Rules : \E ask \in wants[t] : TaskSpawnSubtask(ask)
    /\ UNCHANGED executorVars

Notify(r) ==
    /\ Reported(r)
    /\ \/ listening /\ NotifyComplete(r.work, r.val)
       \/ ~listening /\ UNCHANGED engineVars

\* Mutant of Detach: the listener leaves before the lane is joined.
DetachEarly ==
    /\ shutdown
    /\ DetachListener
    /\ UNCHANGED engineVars

\* The end of the engine's destructor.
Detach ==
    /\ lane.pc = "exited"
    /\ DetachListener
    /\ UNCHANGED engineVars

Client == ClientStep /\ UNCHANGED executorVars

Executor ==
    /\ ExecutorStep(config.actionCache) \/ DestroyExecutor \/ JoinLocalLanes
    /\ UNCHANGED engineVars

\* The executor's destructor has returned.
Destroyed == asyncLane = Exited

\* What the threads of the engine and the executor do, and the work they
\* start.
System == \/ Lane \/ Submit \/ Refuse \/ Detach \/ Executor
          \/ \E r \in reports : Notify(r)

Alive == ~terminated /\ ~Destroyed

Next == Alive /\ (Client \/ System)

(***************************************************************************)
(* The threads keep running, and what they start calls back: a process, a  *)
(* subtask and the remote executor come to an end.  The client need not do *)
(* anything.                                                               *)
(***************************************************************************)
Fairness == WF_vars(Alive /\ System)

Spec == Init /\ [][Next]_vars /\ Fairness

-----------------------------------------------------------------------------
\* The kinds of values the variables of the engine and the executor hold.
TypeOK == EngineTypeOK /\ ExecutorTypeOK

\* Taken by the executor and not yet reported.
InFlight == (pending \ leaked) \cup {r.work : r \in reports}

Promise == INSTANCE EngineOverExecutor WITH inFlight <- InFlight

\* The executor keeps the promise the engine relies on.  Whatever its lanes,
\* its cache and the remote executor's callbacks do, an accepted submission stays
\* in flight until it is reported, never a second time, and submit, notify*Complete and detachListener are
\* the only ways it touches the engine.
ExecutorKeepsPromise == Promise!Spec

(***************************************************************************)
(* What keeps a build from an answer.                                      *)
(***************************************************************************)
CyclicWait ==
    LET blocked == {t \in TaskIDs : waitingOn[t] # {}}
    IN  \E S \in SUBSET blocked :
            S # {} /\ \A t \in S : waitingOn[t] \cap S # {}

Stuck == \/ terminated \/ shutdown
         \/ lane.pc = "hung"
         \/ CyclicWait
         \/ Starved

\* Every build is answered, or something the engine does not recover from has
\* happened for good: an escaped exception, the engine's destruction, the lane
\* locking engineStateMutex twice, tasks that wait for one another (nothing
\* looks for cycles), or the async lane asleep at its limit.
BuildsAnswered ==
    \/ []<>(\A b \in Builds : b \in taskInfos => buildResult[b] # "none")
    \/ <>[]Stuck
==============================================================================
