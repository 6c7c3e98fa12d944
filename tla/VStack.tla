-------------------------------- MODULE VStack --------------------------------
(* VStack of vutil.c: items leave at the tail. *)
EXTENDS VNodeList

(* Mutant: the chain is emptied whenever its last node goes. *)
EmptiedBy(q) == TRUE

(* Whether node q was the last one. *)
LastOne(q) == node[q].prev = NULL

(* The nodes when the tail has been taken and q was its predecessor. *)
TailOff(q) == [node EXCEPT ![q].next = NULL, ![tail].prev = NULL]

(* vstack_pop takes the tail. *)
PopTail(t) ==
    /\ kind = "stack" /\ pc[t] = "take" /\ tail # NULL
    /\ p' = [p EXCEPT ![t] = tail]
    /\ IF LastOne(tail)
       THEN head' = NULL /\ tail' = NULL /\ node' = [node EXCEPT ![tail].prev = NULL]
       ELSE LET q == node[tail].prev
            IN  tail' = q /\ head' = head /\ node' = TailOff(q)
    /\ Goto(t, "free")
    /\ UNCHANGED <<created, nNode, size, mutex, memUsage, calls, result, item, alive>>

PopNoTail(t) == kind = "stack" /\ tail = NULL /\ PopEmpty(t)

vstack_pop(t) == PopTail(t) \/ PopNoTail(t)
==============================================================================
