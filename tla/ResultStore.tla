----------------------------- MODULE ResultStore -----------------------------
(***************************************************************************)
(* What a build database promises its engine (include/builra/Core/         *)
(* BuildDB.h): the last result set for each key and the iteration, in a    *)
(* transaction per build; what the transaction of an unfinished build held *)
(* is lost as a whole.                                                     *)
(*                                                                         *)
(* The promise can be voided, after which anything may be answered.  What  *)
(* voids it is up to the implementation.                                   *)
(***************************************************************************)
EXTENDS Integers

CONSTANTS Keys, Results, NoResult, MaxIteration

VARIABLES
    saved,               \* what the next process finds
    current,             \* what the build in progress sees
    building,
    answer,              \* what the last call returned
    void

vars == <<saved, current, building, answer, void>>

Contents == [results : [Keys -> Results \cup {NoResult}],
             iteration : 0 .. MaxIteration]
Empty == [results |-> [k \in Keys |-> NoResult], iteration |-> 0]

Failed == [call |-> "failed"]
Done == [call |-> "done"]
Found(k, r) == [call |-> "lookup", key |-> k, result |-> r]
Listed(results) == [call |-> "list", results |-> results]
Epoch(n) == [call |-> "epoch", value |-> n]

Init ==
    /\ saved = Empty /\ current = Empty
    /\ building = FALSE
    /\ answer = Done
    /\ void = FALSE

View == IF building THEN current ELSE saved

Begin ==
    /\ ~building /\ building' = TRUE
    /\ current' = saved
    /\ answer' = Done
    /\ UNCHANGED <<saved, void>>

Set(k, r) ==
    /\ building
    /\ current' = [current EXCEPT !.results[k] = r]
    /\ answer' = Done
    /\ UNCHANGED <<saved, building, void>>

SetIteration(n) ==
    /\ building
    /\ current' = [current EXCEPT !.iteration = n]
    /\ answer' = Done
    /\ UNCHANGED <<saved, building, void>>

Commit ==
    /\ building /\ building' = FALSE
    /\ saved' = current
    /\ current' = Empty
    /\ answer' = Done
    /\ UNCHANGED void

\* The process ends.
Lose ==
    /\ building' = FALSE
    /\ current' = Empty
    /\ answer' = Done
    /\ UNCHANGED <<saved, void>>

\* Another process has run a build, or the file was of another version.
Replaced ==
    /\ ~building
    /\ saved' \in Contents
    /\ answer' = Done
    /\ UNCHANGED <<current, building, void>>

\* A list may be cut short.
Listable == {l \in [Keys -> Results \cup {NoResult}] :
                 \A k \in Keys : l[k] \in {View.results[k], NoResult}}

Read ==
    /\ answer' \in {Found(k, View.results[k]) : k \in Keys}
                       \cup {Listed(l) : l \in Listable}
                       \cup {Epoch(View.iteration), Done, Failed}
    /\ UNCHANGED <<saved, current, building, void>>

Next ==
    \/ void'
    \/ Begin \/ Commit \/ Lose \/ Replaced \/ Read
    \/ \E k \in Keys, r \in Results : Set(k, r)
    \/ \E n \in 0 .. MaxIteration : SetIteration(n)

Spec == Init /\ [][Next]_vars
==============================================================================
