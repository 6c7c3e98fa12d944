------------------------------ MODULE MCVNodeList ------------------------------
(* VNodeListSequence for TLC: room for two items, where a push fails only  *)
(* because of that, and no limit, where one fails only for want of memory. *)
EXTENDS VNodeListSequence

MCSettings ==
    {[kind |-> k, nMaxSize |-> 2, scarce |-> FALSE] : k \in {"queue", "stack"}} \cup
    {[kind |-> k, nMaxSize |-> -1, scarce |-> TRUE] : k \in {"queue", "stack"}}
==============================================================================
