------------------------------- MODULE MCTable -------------------------------
(* TableTurns for TLC: a key that fits and one that is clipped. *)
EXTENDS TableTurns

CONSTANTS a, b, long, clipped

MCClip == [k \in Keys |-> IF k = long THEN clipped ELSE k]
==============================================================================
