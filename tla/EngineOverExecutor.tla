--------------------------- MODULE EngineOverExecutor ---------------------------
(***************************************************************************)
(* The builra3 engine over an executor known only by what it promises: it  *)
(* takes or refuses what is submitted, and reports only what it has taken, *)
(* at any time after that and never twice.                                 *)
(***************************************************************************)
EXTENDS TaskEngine

VARIABLE inFlight        \* submissions taken and not yet reported

vars == <<engineVars, inFlight>>

Init == EngineInit /\ inFlight = {}

Accept ==
    /\ SubmitAccepted
    /\ inFlight' = inFlight \cup {lane.work}

Report(w, val) ==
    /\ w \in inFlight
    /\ inFlight' = inFlight \ {w}
    /\ NotifyComplete(w, val)

\* A report that finds no listener: the engine is being destroyed and its
\* lane has ended.
Drop(w) ==
    /\ w \in inFlight
    /\ lane.pc = "exited"
    /\ inFlight' = inFlight \ {w}
    /\ UNCHANGED engineVars

Next ==
    /\ ~terminated
    /\ \/ /\ \/ ClientStep
             \/ LaneStep
             \/ SubmitRejected
             \/ \E x \in Actions : TaskRequestAction(x)
             \/ \E t \in Rules : \E ask \in wants[t] : TaskSpawnSubtask(ask)
          /\ UNCHANGED inFlight
       \/ Accept
       \/ \E w \in WorkIDs, val \in {"value", "error"} : Report(w, val)
       \/ \E w \in WorkIDs : Drop(w)

Spec == Init /\ [][Next]_vars
==============================================================================
