----------------------------- MODULE HashMapKeyMap -----------------------------
(***************************************************************************)
(* hashmap.c implements the map of KeyMap, for a caller that either puts   *)
(* no key again or removes none.                                           *)
(***************************************************************************)
EXTENDS HashMap

(* The elements of the table and those that the doublings in progress have *)
(* not moved yet.                                                          *)
Held ==
    {data[s] : s \in InUse(data)}
      \cup UNION {{frames[i].old[s] : s \in Unmoved(frames[i])} : i \in DOMAIN frames}

mapStore ==
    LET held == Held
    IN  [k \in Keys |-> IF \E e \in held : e.key = k
                        THEN (CHOOSE e \in held : e.key = k).data ELSE NULL]

Map == INSTANCE KeyMap WITH
    store <- mapStore,
    op    <- IF Idle THEN <<>> ELSE <<[key |-> frames[1].key, data |-> frames[1].data]>>

(* A put takes effect when its element is stored, a doubling changes       *)
(* nothing, each value is iterated over once; a put that has no memory     *)
(* changes no value (hashmap.c:221-383).                                   *)
ImplementsKeyMap == Map!Spec
===============================================================================
