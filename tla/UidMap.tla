-------------------------------- MODULE UidMap --------------------------------
(***************************************************************************)
(* What the table of main.c promises its users: a map from names to ids    *)
(* on which every add and every delete takes effect at one instant between *)
(* its call and its return; then, when no operation is in progress any     *)
(* more, the names whose id is below Bound are thrown out, those and no    *)
(* others, and in the end the map is emptied.                              *)
(***************************************************************************)
EXTENDS Integers

CONSTANTS Keys, Ids, Bound,
          Threads,    \* the callers
          Adds,       \* those of them that add; the others delete
          Absent      \* not an id: the name is not in the map

VARIABLES
    store,    \* [Keys -> Ids or Absent]
    op,       \* each caller's operation: not called, pending, or its result
    stage     \* "serve", "filter", "clear"

vars == <<store, op, stage>>

NoOp == [do |-> "none"]
Adding(k, id) == [do |-> "add", key |-> k, id |-> id]
Deleting(k)   == [do |-> "delete", key |-> k]
Result(r)     == [do |-> "return", ret |-> r]

Init ==
    /\ store = [k \in Keys |-> Absent]
    /\ op = [t \in Threads |-> NoOp]
    /\ stage = "serve"

CallAdd(t) ==
    /\ t \in Adds /\ stage = "serve" /\ op[t] = NoOp
    /\ \E k \in Keys, id \in Ids : op' = [op EXCEPT ![t] = Adding(k, id)]
    /\ UNCHANGED <<store, stage>>

CallDelete(t) ==
    /\ t \notin Adds /\ stage = "serve" /\ op[t] = NoOp
    /\ \E k \in Keys : op' = [op EXCEPT ![t] = Deleting(k)]
    /\ UNCHANGED <<store, stage>>

(* An add stores the id unless the name is taken, and says which. *)
DoAdd(t) ==
    /\ op[t].do = "add"
    /\ LET k == op[t].key
       IN  IF store[k] = Absent
           THEN /\ store' = [store EXCEPT ![k] = op[t].id]
                /\ op' = [op EXCEPT ![t] = Result("OKAY")]
           ELSE /\ op' = [op EXCEPT ![t] = Result("FAIL")]
                /\ UNCHANGED store
    /\ UNCHANGED stage

(* A delete takes the name out and says whether it was there. *)
DoDelete(t) ==
    /\ op[t].do = "delete"
    /\ LET k == op[t].key
       IN  /\ store' = [store EXCEPT ![k] = Absent]
           /\ op' = [op EXCEPT ![t] = Result(IF store[k] = Absent THEN "FAIL" ELSE "OKAY")]
    /\ UNCHANGED stage

Return(t) ==
    /\ op[t].do = "return"
    /\ op' = [op EXCEPT ![t] = NoOp]
    /\ UNCHANGED <<store, stage>>

StartFilter ==
    /\ stage = "serve" /\ \A t \in Threads : op[t] = NoOp
    /\ stage' = "filter"
    /\ UNCHANGED <<store, op>>

Expired(k) == store[k] # Absent /\ store[k] < Bound

Expire(k) ==
    /\ stage = "filter" /\ Expired(k)
    /\ store' = [store EXCEPT ![k] = Absent]
    /\ UNCHANGED <<op, stage>>

StartClear ==
    /\ stage = "filter" /\ \A k \in Keys : ~Expired(k)
    /\ stage' = "clear"
    /\ UNCHANGED <<store, op>>

Clear(k) ==
    /\ stage = "clear" /\ store[k] # Absent
    /\ store' = [store EXCEPT ![k] = Absent]
    /\ UNCHANGED <<op, stage>>

Next ==
    \/ \E t \in Threads :
        \/ CallAdd(t) \/ CallDelete(t)
        \/ DoAdd(t) \/ DoDelete(t) \/ Return(t)
    \/ \E k \in Keys : Expire(k) \/ Clear(k)
    \/ StartFilter \/ StartClear

Spec == Init /\ [][Next]_vars
==============================================================================
