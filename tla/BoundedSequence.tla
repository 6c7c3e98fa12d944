---------------------------- MODULE BoundedSequence ----------------------------
(***************************************************************************)
(* What VQueue and VStack promise: a sequence of items on which every      *)
(* push, pop and getSize takes effect at one instant between its call and  *)
(* its return.  Items join at the end and leave at the front of a queue,   *)
(* at the end of a stack.                                                  *)
(***************************************************************************)
EXTENDS Integers, Sequences

CONSTANTS Threads, Calls, Settings, NoItem

Items == Threads \X (0 .. Calls)
FAIL  == -1

VARIABLES
    kind, nMaxSize, scarce,   \* what was created, its capacity, its memory
    stored,   \* the items, oldest first
    op,       \* each thread's operation: none, called, or what it returns
    calls     \* the calls each thread has made

created == <<kind, nMaxSize, scarce>>
vars == <<created, stored, op, calls>>

NoOp      == [do |-> "none"]
Called(o) == [do |-> o]
Number(n) == [do |-> "number", value |-> n]
Item(x)   == [do |-> "item", value |-> x]

Init ==
    /\ \E w \in Settings : kind = w.kind /\ nMaxSize = w.nMaxSize /\ scarce = w.scarce
    /\ stored = <<>>
    /\ op = [t \in Threads |-> NoOp]
    /\ calls = [t \in Threads |-> 0]

Call(t) ==
    /\ op[t] = NoOp /\ calls[t] < Calls
    /\ \E o \in {"push", "pop", "getSize"} : op' = [op EXCEPT ![t] = Called(o)]
    /\ UNCHANGED <<created, stored, calls>>

(* A push returns the new number of items, or FAIL when the sequence is at *)
(* its capacity (a negative capacity is never reached) or memory is short. *)
DoPush(t) ==
    /\ op[t] = Called("push")
    /\ \/ /\ Len(stored) # nMaxSize
          /\ stored' = Append(stored, <<t, calls[t]>>)
          /\ op' = [op EXCEPT ![t] = Number(Len(stored) + 1)]
       \/ /\ Len(stored) = nMaxSize \/ scarce
          /\ op' = [op EXCEPT ![t] = Number(FAIL)]
          /\ UNCHANGED stored
    /\ UNCHANGED <<created, calls>>

(* A pop returns an item, and none only if there is none. *)
DoPop(t) ==
    /\ op[t] = Called("pop")
    /\ \/ /\ stored = <<>>
          /\ op' = [op EXCEPT ![t] = Item(NoItem)]
          /\ UNCHANGED stored
       \/ /\ stored # <<>> /\ kind = "queue"
          /\ op' = [op EXCEPT ![t] = Item(Head(stored))]
          /\ stored' = Tail(stored)
       \/ /\ stored # <<>> /\ kind = "stack"
          /\ op' = [op EXCEPT ![t] = Item(stored[Len(stored)])]
          /\ stored' = SubSeq(stored, 1, Len(stored) - 1)
    /\ UNCHANGED <<created, calls>>

DoGetSize(t) ==
    /\ op[t] = Called("getSize")
    /\ op' = [op EXCEPT ![t] = Number(Len(stored))]
    /\ UNCHANGED <<created, stored, calls>>

Return(t) ==
    /\ op[t].do \in {"number", "item"}
    /\ op' = [op EXCEPT ![t] = NoOp]
    /\ calls' = [calls EXCEPT ![t] = @ + 1]
    /\ UNCHANGED <<created, stored>>

Next == \E t \in Threads : Call(t) \/ DoPush(t) \/ DoPop(t) \/ DoGetSize(t) \/ Return(t)

Spec == Init /\ [][Next]_vars
==============================================================================
