--------------------------- MODULE MCSQLiteBuildDB ---------------------------
(***************************************************************************)
(* Two keys that keep their spelling in the column, and one, as 01 beside  *)
(* 1, that does not.                                                       *)
(***************************************************************************)
EXTENDS SQLiteBuildDB

CONSTANTS one, zeroOne, other, u, v

Dep(k, orderOnly, singleUse) ==
    [key |-> k, orderOnly |-> orderOnly, singleUse |-> singleUse]

MCColumn == [k \in Keys |-> IF k = zeroOne THEN one ELSE k]

MCResults == {[val |-> u, deps |-> <<>>],
              [val |-> v, deps |-> <<Dep(other, 1, 0), Dep(one, 0, 1)>>]}
==============================================================================
