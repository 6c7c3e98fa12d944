-------------------------------- MODULE VQueue --------------------------------
(* VQueue of vutil.c: items leave at the head. *)
EXTENDS VNodeList

(* The nodes when the head has been taken and q was its successor. *)
HeadOff(q) == [node EXCEPT ![q].prev = NULL, ![head].next = NULL]

(* vqueue_pop takes the head. *)
PopHead(t) ==
    /\ kind = "queue" /\ pc[t] = "take" /\ head # NULL
    /\ p' = [p EXCEPT ![t] = head]
    /\ LET q == node[head].next
       IN  IF q # NULL
           THEN /\ head' = q /\ tail' = tail
                /\ node' = HeadOff(q)
           ELSE head' = NULL /\ tail' = NULL /\ node' = node
    /\ Goto(t, "free")
    /\ UNCHANGED <<created, nNode, size, mutex, memUsage, calls, result, item, alive>>

PopNoHead(t) == kind = "queue" /\ head = NULL /\ PopEmpty(t)

vqueue_pop(t) == PopHead(t) \/ PopNoHead(t)
==============================================================================
