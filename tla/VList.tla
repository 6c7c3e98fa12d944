--------------------------------- MODULE VList ---------------------------------
(***************************************************************************)
(* The doubly linked list VList of vutil.c, at the level of its pointers,  *)
(* used as sample_datalist of sample.c does: items are inserted in an      *)
(* order, looked up and deleted, and a loop of seek and foreach visits     *)
(* them and deletes some.  The operations leave the lock to the caller,    *)
(* and every thread here makes its calls between lock and unlock, which    *)
(* is why a call is one step.                                              *)
(*                                                                         *)
(* A node is named by the number of its allocation, and the item inserted  *)
(* with it by its value and that number.                                   *)
(***************************************************************************)
EXTENDS Integers, FiniteSets, Sequences

CONSTANTS
    Threads,
    Values,      \* the ints stored
    MaxNodes     \* bound on the insertions

ASSUME ValuesAssumption == Values \subseteq Int
ASSUME MaxNodesAssumption == MaxNodes \in Nat

FIRST == 1
LAST  == 2
NONE  == 0    \* inserted without a comparison

NULL  == 0
Items == Values \X (1 .. MaxNodes)

(* sizeof(VList) with its VLock, sizeof(VNode), sizeof(int). *)
HeaderSize == 112 + 56
NodeSize   == 56
IntSize    == 4

VARIABLES
    node,          \* [live node -> VNode]
    items,         \* the items allocated and not freed
    nNode,         \* number of nodes allocated so far
    head, tail, size, cur,
    mutex,         \* the threads that hold Lock, at most one
    memUsage,      \* gMemUsage of vutil.c
    from,          \* where this list's users insert from
    pc,            \* where each thread is
    loop,          \* direction and filter of each thread's loop
    p,             \* the node foreach returned to each thread
    seen,          \* the items each thread's loop has visited
    owed           \* those it has to visit; seen and owed are history

listVars == <<node, items, nNode, head, tail, size, cur, memUsage>>
vars == <<node, items, nNode, head, tail, size, cur, memUsage, mutex, from,
          pc, loop, p, seen, owed>>

Value(n) == node[n].arg[1]

------------------------------------------------------------------------------
(* insert *)

End(way) == IF way = FIRST THEN head ELSE tail
Beyond(way, n) == IF way = FIRST THEN node[n].next ELSE node[n].prev

(* Mutant: a step past items that equal the new one. *)
GoesOnEqual(n, v) == Value(n) <= v

(* _lessThan: the new item belongs behind node n. *)
GoesOn(n, v) == Value(n) < v

(* _vlist_searchFalse: from one end, the first node _lessThan fails for. *)
searchFalse(way, v) ==
    LET walk[n \in DOMAIN node \cup {NULL}] ==
          IF n # NULL /\ GoesOn(n, v) THEN walk[Beyond(way, n)] ELSE n
    IN  walk[End(way)]

(* vnode_create of the n-th item, and its links. *)
NewNode(v, n, a, b) == [arg |-> <<v, n>>, prev |-> a, next |-> b]

(* Mutant: the node before is not told. *)
LinkNoPrev(n, new) ==
    [m \in DOMAIN node \cup {n} |->
       IF m = n THEN new
       ELSE [node[m] EXCEPT !.prev = IF m = new.next THEN n ELSE @]]

(* The chain with n between the nodes named in new: the links of insert    *)
(* and of _vlist_pushNode.                                                 *)
Link(n, new) ==
    [m \in DOMAIN node \cup {n} |->
       IF m = n THEN new
       ELSE [node[m] EXCEPT !.prev = IF m = new.next THEN n ELSE @,
                            !.next = IF m = new.prev THEN n ELSE @]]

(* vlist_insertFrom: before what searchFalse finds, seen from the end it   *)
(* started at, and at the other end if it finds nothing; without a         *)
(* comparison (NONE) at the tail.                                          *)
vlist_insertFrom(way, v) ==
    LET n   == nNode + 1
        at  == IF way = NONE THEN NULL ELSE searchFalse(way, v)
        new == CASE way = LAST /\ at = NULL  -> NewNode(v, n, NULL, head)
                 [] way = LAST /\ at # NULL  -> NewNode(v, n, at, node[at].next)
                 [] way # LAST /\ at = NULL  -> NewNode(v, n, tail, NULL)
                 [] way # LAST /\ at # NULL  -> NewNode(v, n, node[at].prev, at)
    IN  /\ nNode' = n
        /\ items' = items \cup {<<v, n>>}
        /\ node' = Link(n, new)
        /\ head' = IF new.prev = NULL THEN n ELSE head
        /\ tail' = IF new.next = NULL THEN n ELSE tail
        /\ size' = size + 1
        /\ memUsage' = memUsage + NodeSize + IntSize
        /\ UNCHANGED cur

------------------------------------------------------------------------------
(* search and delete *)

(* vlist_searchFrom with _equal. *)
vlist_searchFrom(way, v) ==
    LET walk[n \in DOMAIN node \cup {NULL}] ==
          IF n # NULL /\ Value(n) # v THEN walk[Beyond(way, n)] ELSE n
    IN  walk[End(way)]

(* vlist_delete. *)
vlist_delete(n) ==
    LET a == node[n].prev
        b == node[n].next
    IN  /\ cur' = IF cur = n THEN NULL ELSE cur
        /\ node' = [m \in DOMAIN node \ {n} |->
                      [node[m] EXCEPT !.next = IF m = a THEN b ELSE @,
                                      !.prev = IF m = b THEN a ELSE @]]
        /\ head' = IF a = NULL THEN b ELSE head
        /\ tail' = IF b = NULL THEN a ELSE tail
        /\ items' = items \ {node[n].arg}
        /\ size' = size - 1
        /\ memUsage' = memUsage - NodeSize - IntSize
        /\ UNCHANGED nNode

------------------------------------------------------------------------------
(* Mutant: vlist_lock calls unlock, as vtree_lock does. *)
LockUnlocks(t) == mutex' = mutex \ {t}

vlist_lock(t)   == mutex = {} /\ mutex' = {t}
vlist_unlock(t) == mutex' = mutex \ {t}

Goto(t, label) == pc' = [pc EXCEPT ![t] = label]

(* vlist_create. *)
Init ==
    /\ node = [n \in {} |-> NULL] /\ items = {} /\ nNode = 0
    /\ head = NULL /\ tail = NULL /\ size = 0 /\ cur = NULL
    /\ mutex = {}
    /\ memUsage = HeaderSize
    /\ from \in {NONE, FIRST, LAST}
    /\ pc   = [t \in Threads |-> "idle"]
    /\ loop = [t \in Threads |-> [from |-> FIRST, filter |-> {}]]
    /\ p    = [t \in Threads |-> NULL]
    /\ seen = [t \in Threads |-> <<>>]
    /\ owed = [t \in Threads |-> {}]

Lock(t) ==
    /\ pc[t] = "idle"
    /\ vlist_lock(t)
    /\ Goto(t, "locked")
    /\ UNCHANGED <<listVars, from, loop, p, seen, owed>>

(* An insertion, before a loop or in the middle of one. *)
Insert(t, v) ==
    /\ pc[t] \in {"locked", "loop"} /\ nNode < MaxNodes
    /\ vlist_insertFrom(from, v)
    /\ UNCHANGED <<mutex, from, pc, loop, p, seen, owed>>

(* The loops of t without the item of n, and cut short if its node was the *)
(* cursor's.                                                               *)
Spared(t, n) ==
    owed' = [owed EXCEPT ![t] = IF n = cur THEN {} ELSE @ \ {node[n].arg}]

(* Delete what search finds, also in the middle of a loop. *)
SearchDelete(t, way, v) ==
    LET n == vlist_searchFrom(way, v)
    IN  /\ pc[t] \in {"locked", "loop"} /\ n # NULL
        /\ vlist_delete(n)
        /\ Spared(t, n)
        /\ p' = [p EXCEPT ![t] = IF @ = n THEN NULL ELSE @]
        /\ UNCHANGED <<mutex, from, pc, loop, seen>>

(* vlist_seekFrom, and the direction and the filter of the loop. *)
Seek(t, way, filter) ==
    /\ pc[t] = "locked"
    /\ cur' = End(way)
    /\ loop' = [loop EXCEPT ![t] = [from |-> way, filter |-> filter]]
    /\ owed' = [owed EXCEPT ![t] = {x \in items : x[1] \in filter}]
    /\ Goto(t, "loop")
    /\ UNCHANGED <<node, items, nNode, head, tail, size, memUsage, mutex, from, p, seen>>

(* The first node from the cursor on that passes the filter. *)
Passing(t) ==
    LET walk[n \in DOMAIN node \cup {NULL}] ==
          IF n = NULL \/ Value(n) \in loop[t].filter THEN n
          ELSE walk[Beyond(loop[t].from, n)]
    IN  walk[cur]

CursorAt(t, n) == Beyond(loop[t].from, n)

(* vlist_foreachFrom: the cursor moves on before the node is returned. *)
Foreach(t) ==
    /\ pc[t] = "loop" /\ Passing(t) # NULL
    /\ p' = [p EXCEPT ![t] = Passing(t)]
    /\ cur' = CursorAt(t, Passing(t))
    /\ seen' = [seen EXCEPT ![t] = Append(@, node[Passing(t)].arg)]
    /\ owed' = [owed EXCEPT ![t] = @ \ {node[Passing(t)].arg}]
    /\ UNCHANGED <<node, items, nNode, head, tail, size, memUsage, mutex, from, pc, loop>>

(* The loop deletes the node it came to. *)
Delete(t) ==
    /\ pc[t] = "loop" /\ p[t] # NULL
    /\ vlist_delete(p[t])
    /\ p' = [p EXCEPT ![t] = NULL]
    /\ UNCHANGED <<mutex, from, pc, loop, seen, owed>>

(* foreach returns NULL. *)
EndLoop(t) ==
    /\ pc[t] = "loop" /\ Passing(t) = NULL
    /\ cur' = NULL
    /\ p' = [p EXCEPT ![t] = NULL]
    /\ Goto(t, "done")
    /\ UNCHANGED <<node, items, nNode, head, tail, size, memUsage, mutex, from, loop, seen, owed>>

Unlock(t) ==
    /\ pc[t] \in {"locked", "done"}
    /\ vlist_unlock(t)
    /\ seen' = [seen EXCEPT ![t] = <<>>]
    /\ owed' = [owed EXCEPT ![t] = {}]
    /\ Goto(t, "idle")
    /\ UNCHANGED <<listVars, from, loop, p>>

Thread(t) ==
    \/ \E v \in Values : Insert(t, v)
    \/ \E way \in {FIRST, LAST}, v \in Values : SearchDelete(t, way, v)
    \/ \E way \in {FIRST, LAST}, filter \in SUBSET Values : Seek(t, way, filter)
    \/ Lock(t) \/ Foreach(t) \/ Delete(t) \/ EndLoop(t) \/ Unlock(t)

Next == \E t \in Threads : Thread(t)

Spec == Init /\ [][Next]_vars

------------------------------------------------------------------------------
(* Correctness. *)

(* The type invariant of the list and its users. *)
TypeOK ==
    /\ nNode \in 0 .. MaxNodes
    /\ DOMAIN node \subseteq 1 .. nNode
    /\ node \in [DOMAIN node -> [arg : Items, prev : Nat, next : Nat]]
    /\ items \subseteq Items
    /\ head \in Nat /\ tail \in Nat /\ size \in Int /\ cur \in Nat
    /\ mutex \subseteq Threads
    /\ memUsage \in Int
    /\ from \in {NONE, FIRST, LAST}
    /\ pc \in [Threads -> {"idle", "locked", "loop", "done"}]
    /\ loop \in [Threads -> [from : {FIRST, LAST}, filter : SUBSET Values]]
    /\ p \in [Threads -> Nat]
    /\ seen \in [Threads -> Seq(Items)]
    /\ owed \in [Threads -> SUBSET Items]

(* The nodes vlist_travel visits, in its order. *)
Travel ==
    LET walk[n \in DOMAIN node \cup {NULL}] ==
          IF n = NULL THEN <<>> ELSE <<n>> \o walk[node[n].next]
    IN  walk[head]

(* The nodes are one chain from head to tail, its links agree in both      *)
(* directions, the size is its length, each item not destroyed is in one   *)
(* node, and the counter of vutil.c is the list, its nodes and its items   *)
(* (vutil.c:1514-1590, 1638-1673, 1767-1805).                              *)
LinkedBothWays ==
    LET s == Travel
    IN  /\ TypeOK
        /\ size = Len(s) /\ {s[j] : j \in DOMAIN s} = DOMAIN node
        /\ Cardinality(DOMAIN node) = Len(s)
        /\ head = (IF s = <<>> THEN NULL ELSE s[1])
        /\ tail = (IF s = <<>> THEN NULL ELSE s[Len(s)])
        /\ \A j \in DOMAIN s : node[s[j]].prev = (IF j = 1 THEN NULL ELSE s[j - 1])
        /\ items = {node[n].arg : n \in DOMAIN node} /\ Cardinality(items) = Len(s)
        /\ memUsage = HeaderSize + (NodeSize + IntSize) * Len(s)

(* Seen from the end at which insertions begin, the values ascend and      *)
(* equal values stand newest first; without a comparison the list is in    *)
(* the order of insertion.  Deletion keeps the order (vutil.c:1524-1577).  *)
Ordered ==
    LET InOrder(m, n) ==
          CASE from = NONE  -> m < n
            [] from = FIRST -> Value(m) < Value(n) \/ (Value(m) = Value(n) /\ n < m)
            [] from = LAST  -> Value(n) < Value(m) \/ (Value(m) = Value(n) /\ m < n)
    IN  \A j, k \in DOMAIN Travel : j < k => InOrder(Travel[j], Travel[k])

(* In a loop the cursor and the node to delete are nodes of the list,      *)
(* whichever nodes the loop deletes (vutil.c:1644).                        *)
NoDanglingCursor ==
    \A t \in Threads : pc[t] = "loop" =>
        cur \in DOMAIN node \cup {NULL} /\ p[t] \in DOMAIN node \cup {NULL}

(* A loop comes to no item twice, and leaves out no item: when foreach has *)
(* returned NULL, whatever passes the filter and was in the list from seek *)
(* on has been visited, unless the loop deleted the node the cursor stood  *)
(* on (vutil.c:1644, 1713-1759).                                           *)
VisitsOnce ==
    /\ NoDanglingCursor
    /\ \A t \in Threads :
        /\ \A j, k \in DOMAIN seen[t] : seen[t][j] = seen[t][k] => j = k
        /\ pc[t] = "done" => owed[t] = {}
==============================================================================
