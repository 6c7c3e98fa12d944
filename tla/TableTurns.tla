------------------------------ MODULE TableTurns ------------------------------
(***************************************************************************)
(* Table implements Turns, and what its users may rely on over several     *)
(* calls, stated with history variables that record and influence nothing. *)
(***************************************************************************)
EXTENDS Table, SequencesExt

VARIABLES
    passed,   \* [live list -> the lists served since it was served, or made]
    misses,   \* the gets in a row that returned NULL although there were items
    least     \* the items there were when a thread called table_size

history == <<passed, misses, least>>

(* The list a step serves, in a set; empty for every other step. *)
Served == {T.cur : t \in {u \in Threads : pc[u] = "take" /\ pc'[u] = "drop"}}
Missed == \E t \in Threads : pc[t] = "take" /\ pc'[t] = "unlock"

Observe ==
    /\ passed' = [l \in DOMAIN list' |->
                    IF l \in Served \/ l \notin DOMAIN passed THEN {}
                    ELSE passed[l] \cup Served]
    /\ misses' = IF Missed /\ node # [n \in {} |-> NULL] THEN misses + 1
                 ELSE IF Served # {} \/ Missed THEN 0
                 ELSE misses
    /\ least' = [t \in Threads |->
                    IF pc[t] = "idle" /\ pc'[t] = "size" THEN Cardinality(DOMAIN node)
                    ELSE least[t]]

InitH ==
    /\ Init
    /\ passed = [l \in {} |-> {}]
    /\ misses = 0
    /\ least = [t \in Threads |-> 0]

SpecH == InitH /\ [][Next /\ Observe]_<<vars, history>>

(* Keys are served in turn (table.c:344-345): while a list waits, no other *)
(* list is served twice, wherever the cursor was when the list was made    *)
(* and whatever lists come and go meanwhile.  A list that is emptied and   *)
(* made again is another list, the last: keys that are put again as soon   *)
(* as they are served can keep the cursor from ever reaching the end, and  *)
(* a list before it waiting.                                               *)
InTurn ==
    [][\A l \in DOMAIN list, s \in Served : l \notin Served => s \notin passed[l]]_<<vars, history>>

(* A get may return NULL although the table has items (table.c:338-342),   *)
(* but not two gets in a row: who gets NULL twice has found it empty.      *)
RetryFinds == misses <= 1

(* The sum of table_size, read without the mutex while others put          *)
(* (table.c:275-285), is no less than the number of items when it was      *)
(* called and no more than their number when it returns.                   *)
SizeBetween ==
    \A t \in Threads : pc[t] = "size" /\ L[t] = NULL =>
        least[t] <= sum[t] /\ sum[t] <= Cardinality(DOMAIN node)

------------------------------------------------------------------------------
(* The lists with items, in order; the one of the cursor; the calls.  All  *)
(* lists have items but the one, if any, that a put has made or a get has  *)
(* emptied and is not done with (AllLinked).                               *)
filled ==
    LET s     == Right(list, T.mostL)
        empty == {j \in DOMAIN s : list[s[j]].mostL = NULL}
    IN  IF empty = {} THEN s ELSE RemoveAt(s, CHOOSE j \in empty : TRUE)

itemsOf(l) ==
    LET s == Right(node, list[l].mostL) IN [j \in 1 .. Len(s) |-> node[s[j]].arg]

tableQueues ==
    LET r == filled
    IN  [j \in 1 .. Len(r) |-> [key |-> list[r[j]].key, items |-> itemsOf(r[j])]]

tableTurn ==
    LET r == filled
    IN  IF T.cur = NULL THEN 0 ELSE CHOOSE j \in 1 .. Len(r) : r[j] = T.cur

tableOp ==
    [t \in Putters \cup Getters |->
        CASE pc[t] \in {"idle", "size", "sizeNext"} -> [do |-> "none"]
          [] pc[t] \in {"put", "find", "push"} ->
               [do |-> "put", key |-> key[t], item |-> <<t, calls[t]>>]
          [] pc[t] \in {"putBack", "findBack", "pushBack"} ->
               [do |-> "putBack", key |-> key[t], item |-> <<t, calls[t]>>]
          [] pc[t] \in {"get", "take"} -> [do |-> "get"]
          [] pc[t] \in {"drop", "unlock", "return"} -> [do |-> "return", item |-> arg[t]]]

Served_in_turn == INSTANCE Turns WITH
    queues <- tableQueues,
    turn   <- tableTurn,
    op     <- tableOp

(* put, putBack and get of concurrent threads are linearizable operations  *)
(* of queues served in turn.                                               *)
ImplementsTurns == Served_in_turn!Spec
==============================================================================
