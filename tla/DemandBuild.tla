----------------------------- MODULE DemandBuild -----------------------------
(***************************************************************************)
(* What the build engine promises, without its queues: a build brings keys *)
(* up to date on demand.  A key is skipped when it is up to date; else its *)
(* task starts, waits until every input it asked for is done, computes and *)
(* is done.  A build that returns a value has brought its target up to     *)
(* date and left nothing unfinished.                                       *)
(***************************************************************************)
EXTENDS Naturals

CONSTANT Keys

VARIABLES
    phase,      \* how far each key is in the current build
    needs,      \* the inputs each waiting task has yet to be provided with
    target,     \* the key being built
    outcome     \* how the last build ended

vars == <<phase, needs, target, outcome>>

Phase == {"pending", "waiting", "computing", "done"}
Outcome == {"none", "empty", "value", "undecided"}

\* Every key has a phase and a set of inputs it waits for.
TypeOK ==
    /\ phase \in [Keys -> Phase]
    /\ needs \in [Keys -> SUBSET Keys]
    /\ target \in Keys
    /\ outcome \in Outcome

Active(k) == phase[k] \in {"waiting", "computing"}

Quiet == \A k \in Keys : ~Active(k)

Init ==
    /\ phase = [k \in Keys |-> "pending"]
    /\ needs = [k \in Keys |-> {}]
    /\ target \in Keys
    /\ outcome = "none"

\* A build starts: nothing is known to be up to date any more.
Begin(k) ==
    /\ Quiet
    /\ phase' = [i \in Keys |-> "pending"]
    /\ target' = k
    /\ outcome' = "none"
    /\ UNCHANGED needs

\* The key is found to be up to date.
Skip(k) ==
    /\ phase[k] = "pending"
    /\ phase' = [phase EXCEPT ![k] = "done"]
    /\ UNCHANGED <<needs, target, outcome>>

\* Only what the key needs changes.
Asks(k) ==
    /\ needs' \in [Keys -> SUBSET Keys]
    /\ \A j \in Keys \ {k} : needs'[j] = needs[j]

\* The key's task starts and asks for inputs.
Launch(k) ==
    /\ phase[k] = "pending"
    /\ phase' = [phase EXCEPT ![k] = "waiting"]
    /\ Asks(k)
    /\ UNCHANGED <<target, outcome>>

\* The task is provided with an input, and may ask for more.  It still needs
\* the input when it has asked for it more than once.
Provide(k, i) ==
    /\ phase[k] = "waiting" /\ i \in needs[k]
    /\ phase[i] = "done"
    /\ Asks(k) /\ needs[k] \ {i} \subseteq needs'[k]
    /\ UNCHANGED <<phase, target, outcome>>

\* Nothing can proceed: the task does without the new value of an input.
Supply(k, i) ==
    /\ phase[k] = "waiting" /\ i \in needs[k]
    /\ \A j \in Keys : phase[j] # "computing"
    /\ needs' = [needs EXCEPT ![k] = @ \ {i}]
    /\ UNCHANGED <<phase, target, outcome>>

Run(k) ==
    /\ phase[k] = "waiting" /\ needs[k] = {}
    /\ phase' = [phase EXCEPT ![k] = "computing"]
    /\ UNCHANGED <<needs, target, outcome>>

Finish(k) ==
    /\ phase[k] = "computing"
    /\ phase' = [phase EXCEPT ![k] = "done"]
    /\ UNCHANGED <<needs, target, outcome>>

\* The build is given up: what is not done is dropped, and so is a key whose
\* result could not be stored.
Abandon ==
    /\ phase' \in [Keys -> {"pending", "done"}]
    /\ \A k \in Keys : phase'[k] = "done" => phase[k] = "done"
    /\ needs' = [k \in Keys |-> {}]
    /\ UNCHANGED <<target, outcome>>

\* The build ends.  It is undecided when the target's dependencies, as recorded
\* by earlier builds, form a cycle.
Return(value) ==
    /\ Quiet
    /\ value = "value" => phase[target] = "done"
    /\ value = "undecided" => phase[target] = "pending"
    /\ outcome' = value
    /\ UNCHANGED <<phase, needs, target>>

\* A build is refused without being started.
Refuse(k) ==
    /\ Quiet
    /\ target' = k /\ outcome' = "empty"
    /\ UNCHANGED <<phase, needs>>

\* The process is replaced by a new one.
Restart ==
    /\ phase' = [k \in Keys |-> "pending"]
    /\ needs' = [k \in Keys |-> {}]
    /\ outcome' = "none"
    /\ UNCHANGED target

Next ==
    \/ \E k \in Keys : Begin(k) \/ Refuse(k) \/ Skip(k) \/ Launch(k)
    \/ \E k \in Keys : Run(k) \/ Finish(k)
    \/ \E k, i \in Keys : Provide(k, i) \/ Supply(k, i)
    \/ Abandon \/ (\E value \in Outcome : Return(value)) \/ Restart

Spec == Init /\ [][Next]_vars
=============================================================================
