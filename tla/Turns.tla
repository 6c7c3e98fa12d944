--------------------------------- MODULE Turns ---------------------------------
(***************************************************************************)
(* What a Table promises: queues of items, one for each key, served in     *)
(* turn.  A put joins the queue of its key at the end, a putBack at the    *)
(* front; a key without a queue gets one, the last.  A get serves the      *)
(* queue whose turn it is, and passes the turn to the next; past the last  *)
(* queue it returns nothing and the turn goes to the first.                *)
(*                                                                         *)
(* A queue is found by the key given and named by what Clip keeps of it:   *)
(* a key that is too long never finds its queue.                           *)
(***************************************************************************)
EXTENDS Integers, Sequences

CONSTANTS Keys, Clip, Putters, Getters, Items, NoItem

VARIABLES
    queues,   \* the queues that have items
    turn,     \* the number of the queue whose turn it is, 0 past the last
    op        \* each thread's operation: none, called, or what it returns

vars == <<queues, turn, op>>

Threads == Putters \cup Getters

NoOp      == [do |-> "none"]
Result(x) == [do |-> "return", item |-> x]

Init ==
    /\ queues = <<>>
    /\ turn = 0
    /\ op = [t \in Threads |-> NoOp]

CallPut(t) ==
    /\ t \in Putters /\ op[t] = NoOp
    /\ op'[t] \in [do : {"put", "putBack"}, key : Keys, item : Items]
    /\ op' = [op EXCEPT ![t] = op'[t]]
    /\ UNCHANGED <<queues, turn>>

CallGet(t) ==
    /\ t \in Getters /\ op[t] = NoOp
    /\ op' = [op EXCEPT ![t] = [do |-> "get"]]
    /\ UNCHANGED <<queues, turn>>

IsFirst(j, k) == queues[j].key = k /\ \A h \in 1 .. j - 1 : queues[h].key # k

DoPut(t) ==
    /\ op[t].do \in {"put", "putBack"}
    /\ op' = [op EXCEPT ![t] = Result(NoItem)]
    /\ LET k == op[t].key
           x == op[t].item
       IN  \/ \E j \in DOMAIN queues :
                /\ IsFirst(j, k)
                /\ queues' = [queues EXCEPT ![j].items =
                                IF op[t].do = "put" THEN Append(@, x) ELSE <<x>> \o @]
           \/ /\ \A j \in DOMAIN queues : queues[j].key # k
              /\ queues' = Append(queues, [key |-> Clip[k], items |-> <<x>>])
    /\ UNCHANGED turn

(* No queue's turn. *)
DoTurn(t) ==
    /\ op[t].do = "get" /\ turn = 0
    /\ op' = [op EXCEPT ![t] = Result(NoItem)]
    /\ turn' = IF queues = <<>> THEN 0 ELSE 1
    /\ UNCHANGED queues

(* Serve the queue whose turn it is; a queue that is empty then goes. *)
DoGet(t) ==
    /\ op[t].do = "get" /\ turn # 0
    /\ LET q    == queues[turn]
           rest == SubSeq(queues, turn + 1, Len(queues))
       IN  /\ op' = [op EXCEPT ![t] = Result(Head(q.items))]
           /\ IF Len(q.items) = 1
              THEN /\ queues' = SubSeq(queues, 1, turn - 1) \o rest
                   /\ turn' = IF rest = <<>> THEN 0 ELSE turn
              ELSE /\ queues' = [queues EXCEPT ![turn].items = Tail(@)]
                   /\ turn' = IF rest = <<>> THEN 0 ELSE turn + 1

Return(t) ==
    /\ op[t].do = "return"
    /\ op' = [op EXCEPT ![t] = NoOp]
    /\ UNCHANGED <<queues, turn>>

Next ==
    \E t \in Threads :
        \/ CallPut(t) \/ CallGet(t) \/ DoPut(t) \/ DoTurn(t) \/ DoGet(t) \/ Return(t)

Spec == Init /\ [][Next]_vars
==============================================================================
