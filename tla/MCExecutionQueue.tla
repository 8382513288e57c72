-------------------------- MODULE MCExecutionQueue --------------------------
(* Three jobs: a tool that is not safe to interrupt, a compilation of high *)
(* priority that is (both may release their lane), and a job without a     *)
(* process.                                                                *)
EXTENDS LaneBasedExecutionQueue

MCJobs == {"tool", "compile", "mkdir"}
MCHigh == {"compile"}
MCSpawning == {"tool", "compile"}
MCOrdinalName(j) == IF j = "tool" THEN 2 ELSE 1

\* One lane instead of two, one lane and one background task, two lanes and
\* one background task.
MCMachines == {<<2, 12>>, <<1, 14>>, <<2, 16>>}
MCWideMachine == {<<2, 16>>}

\* Not set in the environment.
MCUnset == -1
=============================================================================
