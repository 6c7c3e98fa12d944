-------------------------------- MODULE KeyMap --------------------------------
(***************************************************************************)
(* What hashmap.h promises its one caller: a map from keys to values.  A   *)
(* put takes effect at one instant between its call and its return; get,   *)
(* remove and iterate are short and take effect when they return.          *)
(***************************************************************************)
EXTENDS Integers, Sequences, FiniteSets

CONSTANTS Keys, Values,
          NULL           \* no value: the key is not in the map

VARIABLES
    store,   \* [Keys -> Values or NULL]
    op,      \* the put in progress: a sequence of one key and value, or none
    ret      \* what the last call returned

vars == <<store, op, ret>>

NoRet      == [call |-> "none"]
Stored     == {k \in Keys : store[k] # NULL}

Init == store = [k \in Keys |-> NULL] /\ op = <<>> /\ ret = NoRet

CallPut(k, v) ==
    /\ op = <<>>
    /\ op' = <<[key |-> k, data |-> v]>>
    /\ ret' = NoRet
    /\ UNCHANGED store

DoPut ==
    /\ op # <<>>
    /\ store' = [store EXCEPT ![op[1].key] = op[1].data]
    /\ op' = <<>>
    /\ ret' = [call |-> "put", status |-> "OK"]

(* Without memory nothing is added or changed, but what was stored may be  *)
(* lost.                                                                   *)
FailPut ==
    /\ op # <<>>
    /\ \E kept \in SUBSET Stored :
         store' = [k \in Keys |-> IF k \in kept THEN store[k] ELSE NULL]
    /\ op' = <<>>
    /\ ret' = [call |-> "put", status |-> "OMEM"]

Status(k) == IF store[k] = NULL THEN "MISSING" ELSE "OK"

Get(k) ==
    /\ op = <<>>
    /\ ret' = [call |-> "get", key |-> k, status |-> Status(k), data |-> store[k]]
    /\ UNCHANGED <<store, op>>

Remove(k) ==
    /\ op = <<>>
    /\ store' = [store EXCEPT ![k] = NULL]
    /\ ret' = [call |-> "remove", key |-> k, status |-> Status(k)]
    /\ UNCHANGED op

(* The orders in which n of the stored keys can be visited. *)
Orders(n) == {order \in [1 .. n -> Stored] :
                \A i, j \in 1 .. n : order[i] = order[j] => i = j}

(* The function is given the value of each key once, in any order, until   *)
(* it asks to stop; an empty map is reported as such.                      *)
Iterate ==
    /\ op = <<>>
    /\ \E n \in 0 .. Cardinality(Stored), status \in {"OK", "STOPPED", "MISSING"} :
         /\ status = "OK" => n = Cardinality(Stored)
         /\ status = "STOPPED" => n > 0
         /\ status = "MISSING" <=> Stored = {}
         /\ \E order \in Orders(n) :
              ret' = [call |-> "iterate", status |-> status,
                      seen |-> [i \in 1 .. n |-> store[order[i]]]]
    /\ UNCHANGED <<store, op>>

Next ==
    \/ \E k \in Keys, v \in Values : CallPut(k, v)
    \/ DoPut \/ FailPut
    \/ \E k \in Keys : Get(k) \/ Remove(k)
    \/ Iterate

Spec == Init /\ [][Next]_vars
===============================================================================
