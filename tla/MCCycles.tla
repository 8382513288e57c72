------------------------------- MODULE MCCycles -------------------------------
(* Versions of a build description that get in and out of a cycle:         *)
(*   "flat"       root                                                     *)
(*   "chain"      root -> a -> b, and root only after b                    *)
(*   "cycle"      root -> a -> b -> a                                      *)
(*   "discovered" root, which discovers a while it computes; a -> b -> a   *)
(*   "mutual"     root, which discovers b while it computes; b -> root     *)
(* a asks for b twice, the second time for single use.                     *)
EXTENDS BuildEngineRefinement

MCKeys == {"root", "a", "b"}
MCEnvironments == {"files"}

Input(k) == [key |-> k, orderOnly |-> FALSE, singleUse |-> FALSE]
MustFollow(k) == [Input(k) EXCEPT !.orderOnly = TRUE]
SingleUse(k) == [Input(k) EXCEPT !.singleUse = TRUE]

MCStart(p, k) ==
    CASE k = "root" /\ p = "chain" -> <<Input("a"), MustFollow("b")>>
      [] k = "root" /\ p = "cycle" -> <<Input("a")>>
      [] k = "a" -> <<Input("b"), SingleUse("b")>>
      [] k = "b" /\ p \in {"cycle", "discovered"} -> <<Input("a")>>
      [] k = "b" /\ p = "mutual" -> <<Input("root")>>
      [] OTHER -> <<>>

MCReact(p, k, i, v) == <<>>

MCDiscover(p, k) ==
    CASE k = "root" /\ p = "discovered" -> <<"a">>
      [] k = "root" /\ p = "mutual" -> <<"b">>
      [] OTHER -> <<>>

MCCompute(p, k, inputs, e) == "built"

MCIsResultValid(p, k, v, e) == v # "cancelled"

\* root and b are described differently by the versions that change them.
MCSignature(p, k) ==
    CASE k = "root" /\ p \in {"chain", "cycle"} -> 2
      [] k = "root" /\ p \in {"discovered", "mutual"} -> 3
      [] k = "b" /\ p \in {"cycle", "discovered", "mutual"} -> 2
      [] OTHER -> 1
=============================================================================
