----------------------------- MODULE MCUidTableMap ----------------------------
(* UidTableMap for TLC: three names that collide and one with its own      *)
(* bucket; one thread adds entries below the bound, another at the bound.  *)
EXTENDS UidTableMap, TLC

CONSTANTS k1, k2, k3, k4

MCKeys  == {k1, k2, k3, k4}
MCHash  == [k \in Keys |-> IF k = k1 THEN 0 ELSE 1]
MCArgs  == (0 .. NUM - 1) \X (0 .. Rounds)
MCDraws == (0 :> {499}) @@ (1 :> {}) @@ (2 :> {500})
==============================================================================
