--------------------------- MODULE VNodeListSequence ---------------------------
(***************************************************************************)
(* Threads that share a VQueue or a VStack, which implements               *)
(* BoundedSequence.  An operation takes effect at the step that decides    *)
(* its result: size++ and size-- for those that change the chain, the test *)
(* for those that fail, the read for getSize.                              *)
(***************************************************************************)
EXTENDS VQueue, VStack, Sequences

Thread(t) == Shared(t) \/ vqueue_pop(t) \/ vstack_pop(t)

Next == (\E t \in Threads : Thread(t)) \/ Destroy \/ Ended

Spec == Init /\ [][Next]_vars

------------------------------------------------------------------------------
(* The items counted, in the order of the nodes. *)
Rank(n) == Cardinality({m \in Stored : m <= n})
Nth(k)  == CHOOSE n \in Stored : Rank(n) = k

storedItems == [k \in 1 .. Cardinality(Stored) |-> node[Nth(k)].arg]

(* What a thread's call looks like from outside. *)
Op(t) ==
    CASE pc[t] = "idle" -> [do |-> "none"]
      [] pc[t] \in {"push", "test", "link", "count"} -> [do |-> "push"]
      [] pc[t] \in {"pop", "take", "free"} -> [do |-> "pop"]
      [] pc[t] = "getSize" -> [do |-> "getSize"]
      [] pc[t] \in {"unlock", "return"} /\ result[t] # NoNumber ->
           [do |-> "number", value |-> result[t]]
      [] pc[t] \in {"unlock", "return"} /\ result[t] = NoNumber ->
           [do |-> "item", value |-> item[t]]

operation == [t \in Threads |-> Op(t)]

Sequence == INSTANCE BoundedSequence WITH
    stored <- storedItems,
    op     <- operation

(* Pushes, pops and getSize of concurrent threads are linearizable         *)
(* operations of one bounded FIFO, or LIFO, getSize although it takes no   *)
(* mutex (vutil.c:1217-1302, 1348-1431).                                   *)
ImplementsSequence == Sequence!Spec
==============================================================================
