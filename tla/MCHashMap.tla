------------------------------- MODULE MCHashMap -------------------------------
(***************************************************************************)
(* HashMap for TLC.  Modulo 8 the keys a, b and d are hashed to the last   *)
(* slot but one and c to the last, so that c may be wrapped around;        *)
(* doubling then puts c first, leaves no place for both a and b in 16      *)
(* slots, and doubles once more.                                           *)
(***************************************************************************)
EXTENDS HashMapKeyMap, TLC

CONSTANTS a, b, c, d
MCHashOf == (a :> 6) @@ (b :> 22) @@ (c :> 7) @@ (d :> 14)
===============================================================================
