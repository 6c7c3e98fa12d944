----------------------------- MODULE UidTableMap ------------------------------
(***************************************************************************)
(* The program of main.c implements the map of UidMap: a thread's          *)
(* operation takes effect when, under the mutex, its search has ended.     *)
(***************************************************************************)
EXTENDS UidTable

CONSTANT Absent
ASSUME AbsentAssumption == Absent \notin Ids

(* The id the table holds for a name. *)
Stored(k) ==
    IF \E s \in DOMAIN slot : slot[s].key = k /\ ~Clearing(s)
    THEN entry[slot[CHOOSE s \in DOMAIN slot : slot[s].key = k /\ ~Clearing(s)].arg].id
    ELSE Absent

mapStore == [k \in Keys |-> Stored(k)]

(* A thread's operation.  A delete has its effect, and its result, when    *)
(* the slot is unlinked.                                                   *)
Op(t) ==
    CASE pc[t] = "idle"                          -> [do |-> "none"]
      [] pc[t] = "unlock"                        -> [do |-> "return", ret |-> ret[t]]
      [] pc[t] = "dtor"                          -> [do |-> "return", ret |-> "OKAY"]
      [] pc[t] \in {"lock", "search"} /\ Adder(t)  ->
           [do |-> "add", key |-> buf[t], id |-> entry[e(t)].id]
      [] pc[t] \in {"lock", "search"} /\ ~Adder(t) ->
           [do |-> "delete", key |-> buf[t]]

mapOp == [t \in Threads |-> Op(t)]

mapStage ==
    CASE phase \in {"create", "join", "print1", "size1"} -> "serve"
      [] phase = "filter"                               -> "filter"
      [] phase \in {"size2", "print2", "destroy", "end"} -> "clear"

Map == INSTANCE UidMap WITH
    Adds  <- {t \in Threads : Adder(t)},
    store <- mapStore,
    op    <- mapOp,
    stage <- mapStage

(* The threads' vhashtable_insert and vhashtable_delete are linearizable   *)
(* operations of a map, vhashtable_filterANDdelete removes exactly the     *)
(* ids below Bound, and vhashtable_destroy removes the rest.               *)
ImplementsMap == Map!Spec
==============================================================================
