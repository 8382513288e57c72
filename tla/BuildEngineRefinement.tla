------------------------- MODULE BuildEngineRefinement -------------------------
(* The build engine implements DemandBuild.                                 *)
EXTENDS BuildEngine

PhaseOf(k) ==
    CASE IsComplete(k) -> "done"
      [] state[k] = "InProgressWaiting" -> "waiting"
      [] state[k] = "InProgressComputing" -> "computing"
      [] OTHER -> "pending"

\* A request with forcePriorValue is answered whether or not its input is done.
Awaits(t, i) ==
    \/ \E r \in InRange(inputRequests) \cup InRange(finishedInputRequests) :
          r.task = t /\ r.input = i /\ ~r.forcePriorValue
    \/ \E r \in InRange(requestedBy[i]) \cup InRange(pausedInputRequests[i]) :
          r.task = t

\* build() may return the old value of a rule that it has not brought up to date.
OutcomeOf ==
    IF returned = "value" /\ ~IsComplete(buildKey) THEN "undecided" ELSE returned

Demand == INSTANCE DemandBuild WITH
    phase <- [k \in Keys |-> PhaseOf(k)],
    needs <- [k \in Keys |-> {i \in Keys : Awaits(k, i)}],
    target <- buildKey,
    outcome <- OutcomeOf

\* Whatever the order in which the queues move requests and workers report
\* completions, the engine starts a rule's task at most once in a build,
\* computes it only when every input it asked for was provided and done,
\* completes nothing that did not compute or was not found up to date, and
\* returns a value only for a complete rule with nothing left unfinished, or
\* the old value of a rule that it could not decide on.
ImplementsDemandBuild == Demand!Spec
=============================================================================
