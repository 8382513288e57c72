---------------------------- MODULE MCBuildEngine ----------------------------
(* Two versions of a small build description over two source files.        *)
EXTENDS BuildEngineRefinement

Files == {"src", "hdr"}
MCKeys == Files \cup {"mid", "gen", "root"}
MCEnvironments == [Files -> {0, 1}]

Input(k) == [key |-> k, orderOnly |-> FALSE, singleUse |-> FALSE]
MustFollow(k) == [key |-> k, orderOnly |-> TRUE, singleUse |-> FALSE]
SingleUse(k) == [key |-> k, orderOnly |-> FALSE, singleUse |-> TRUE]

\* Version 2 turns an input of gen into an order-only one.
MCStart(p, k) ==
    CASE k = "root" -> <<Input("mid")>>
      [] k = "mid" -> <<Input("src")>>
      [] k = "gen" -> IF p = 1 THEN <<Input("src"), SingleUse("hdr")>>
                               ELSE <<MustFollow("mid"), Input("src")>>
      [] OTHER -> <<>>

\* root asks for gen only when mid is odd.
MCReact(p, k, i, v) ==
    IF k = "root" /\ i = "mid" /\ v = 1 THEN <<Input("gen")>> ELSE <<>>

MCDiscover(p, k) == IF k = "mid" THEN <<"hdr">> ELSE <<>>

MCCompute(p, k, inputs, e) ==
    CASE k \in Files -> e[k]
      [] k = "mid" -> (inputs["src"] + e["hdr"]) % 2
      [] k = "gen" -> IF p = 1 THEN inputs["src"] ELSE 1 - (inputs["src"] % 2)
      [] k = "root" -> IF inputs["mid"] = 1 THEN 1 + (inputs["gen"] % 2) ELSE 0

MCIsResultValid(p, k, v, e) == v # 3 /\ (k \in Files => v = e[k])

MCSignature(p, k) == IF k = "gen" THEN p ELSE 1
=============================================================================
