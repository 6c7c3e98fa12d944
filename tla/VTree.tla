--------------------------------- MODULE VTree ---------------------------------
(***************************************************************************)
(* The binary search tree VTree of vutil.c, at the level of its pointers,  *)
(* used as sample_datatree of sample.c does: items are inserted and looked *)
(* up, and a loop of seek and foreach, between the tree's lock and unlock, *)
(* visits the items and deletes some of those it comes to.                 *)
(*                                                                         *)
(* A node is named by the number of its allocation, and the item inserted  *)
(* with it by that number and its value: deletion moves items from node to *)
(* node.                                                                   *)
(***************************************************************************)
EXTENDS Integers, FiniteSets, Sequences

CONSTANTS
    Threads,
    Values,       \* the ints stored
    MaxNodes,     \* bound on the insertions
    DeleteFrom    \* the directions of loops that delete what they visit

FIRST == 1
LAST  == 2

ASSUME ValuesAssumption == Values \subseteq Int
ASSUME MaxNodesAssumption == MaxNodes \in Nat
ASSUME DeleteAssumption == DeleteFrom \subseteq {FIRST, LAST}

NULL  == 0
Items == Values \X (1 .. MaxNodes)

(* sizeof(VTree) with its VLock, sizeof(VNode), sizeof(int). *)
HeaderSize == 104 + 56
NodeSize   == 56
IntSize    == 4

VARIABLES
    node,          \* [live node -> VNode]
    items,         \* the items allocated and not freed
    nNode,         \* number of nodes allocated so far
    head, size, cur,
    mutex,         \* the threads that hold Lock
    memUsage,      \* gMemUsage of vutil.c
    pc,            \* where each thread is
    loop,          \* direction and filter of each thread's loop
    p,             \* the node foreach returned to each thread
    seen,          \* the items each thread's loop has visited
    owed           \* those it has to visit; seen and owed are history

treeVars == <<node, items, nNode, head, size, cur, memUsage>>
vars == <<node, items, nNode, head, size, cur, memUsage, mutex, pc, loop, p, seen, owed>>

------------------------------------------------------------------------------
(* Walking the tree. *)

vtree_mostL(n) ==
    LET down[m \in DOMAIN node] == IF node[m].L = NULL THEN m ELSE down[node[m].L]
    IN  IF n = NULL THEN NULL ELSE down[n]

vtree_mostR(n) ==
    LET down[m \in DOMAIN node] == IF node[m].R = NULL THEN m ELSE down[node[m].R]
    IN  IF n = NULL THEN NULL ELSE down[n]

(* Up to the first parent that is not left by its right side. *)
vtree_next(n) ==
    LET up[m \in DOMAIN node] ==
          LET f == node[m].F
          IN  IF f # NULL /\ node[f].R = m THEN up[f] ELSE f
    IN  IF node[n].R # NULL THEN vtree_mostL(node[n].R) ELSE up[n]

vtree_prev(n) ==
    LET up[m \in DOMAIN node] ==
          LET f == node[m].F
          IN  IF f # NULL /\ node[f].L = m THEN up[f] ELSE f
    IN  IF node[n].L # NULL THEN vtree_mostR(node[n].L) ELSE up[n]

Value(n) == node[n].arg[1]

(* vtree_search with _equal: left when the value is smaller than the       *)
(* node's, right when it is greater.                                       *)
vtree_search(v) ==
    LET from[n \in DOMAIN node \cup {NULL}] ==
          IF n = NULL \/ Value(n) = v THEN n
          ELSE IF v < Value(n) THEN from[node[n].L]
          ELSE from[node[n].R]
    IN  from[head]

(* _lessThan: the new item belongs to the right of node n. *)
GoesRight(n, v) == Value(n) < v

(* The node below which vtree_insert hangs a new one. *)
ParentFor(v) ==
    LET from[n \in DOMAIN node] ==
          LET m == IF GoesRight(n, v) THEN node[n].R ELSE node[n].L
          IN  IF m = NULL THEN n ELSE from[m]
    IN  from[head]

------------------------------------------------------------------------------
(* Changing the tree. *)

(* vnode_create of the n-th item, and its link to the node above it. *)
NewNode(v, n, f) == [arg |-> <<v, n>>, F |-> f, L |-> NULL, R |-> NULL]

vtree_insert(v) ==
    LET n == nNode + 1
        new == NewNode(v, n, IF head = NULL THEN NULL ELSE ParentFor(v))
    IN  /\ nNode' = n
        /\ items' = items \cup {<<v, n>>}
        /\ node' = [m \in DOMAIN node \cup {n} |->
                      IF m = n THEN new
                      ELSE IF m # new.F THEN node[m]
                      ELSE IF GoesRight(m, v) THEN [node[m] EXCEPT !.R = n]
                      ELSE [node[m] EXCEPT !.L = n]]
        /\ head' = IF head = NULL THEN n ELSE head
        /\ size' = size + 1
        /\ memUsage' = memUsage + NodeSize + IntSize
        /\ UNCHANGED cur

(* Mutant: the leftmost node on the right. *)
CandidateRight(n) == vtree_mostL(node[n].R)

(* The node whose item replaces that of a node with two children. *)
Candidate(n) == vtree_mostR(node[n].L)

(* Mutant: the child's F is not set. *)
SpliceDownOnly(f, x) ==
    LET child == IF f[x].L # NULL THEN f[x].L ELSE f[x].R
        up    == f[x].F
    IN  [m \in DOMAIN f \ {x} |->
            [f[m] EXCEPT !.L = IF m = up /\ @ = x THEN child ELSE @,
                         !.R = IF m = up /\ @ = x THEN child ELSE @]]

(* The tree f without its node x, which has one child at most: the child,  *)
(* or NULL, takes the place of x below x's parent (vtree_isLorR says on   *)
(* which side).                                                            *)
Splice(f, x) ==
    LET child == IF f[x].L # NULL THEN f[x].L ELSE f[x].R
        up    == f[x].F
    IN  [m \in DOMAIN f \ {x} |->
            [f[m] EXCEPT !.L = IF m = up /\ @ = x THEN child ELSE @,
                         !.R = IF m = up /\ @ = x THEN child ELSE @,
                         !.F = IF m = child THEN up ELSE @]]

(* Mutant: the item destroyed is the one found in the node at the end. *)
DestroyMoved(n, x) == {node[x].arg}

(* What the destructor gets: the item of n, read before any was moved. *)
Destroyed(n, x) == {node[n].arg}

(* Mutant: pTree->size-- only where there was one child. *)
CountOneChild(x) == IF node[x].L = NULL /\ node[x].R = NULL THEN size ELSE size - 1

CountLess(x) == size - 1

(* vtree_delete: of a node with two children the item goes and Candidate's *)
(* takes its place; the node that is freed is Candidate then, n otherwise. *)
(* The cursor is not looked at.                                            *)
vtree_delete(n) ==
    LET two == node[n].L # NULL /\ node[n].R # NULL
        x   == IF two THEN Candidate(n) ELSE n
        f   == [node EXCEPT ![n].arg = node[x].arg]
    IN  /\ node' = Splice(f, x)
        /\ head' = IF f[x].F = NULL THEN (IF f[x].L # NULL THEN f[x].L ELSE f[x].R) ELSE head
        /\ items' = items \ Destroyed(n, x)
        /\ size' = CountLess(x)
        /\ memUsage' = memUsage - NodeSize - IntSize
        /\ UNCHANGED <<nNode, cur>>

------------------------------------------------------------------------------
(* The lock, as it is: vtree_lock calls Lock->unlock. *)
vtree_lock(t)   == mutex' = mutex \ {t}
vtree_unlock(t) == mutex' = mutex \ {t}

Goto(t, label) == pc' = [pc EXCEPT ![t] = label]

(* vtree_create. *)
Init ==
    /\ node = [n \in {} |-> NULL] /\ items = {} /\ nNode = 0
    /\ head = NULL /\ size = 0 /\ cur = NULL
    /\ mutex = {}
    /\ memUsage = HeaderSize
    /\ pc   = [t \in Threads |-> "idle"]
    /\ loop = [t \in Threads |-> [from |-> FIRST, filter |-> {}]]
    /\ p    = [t \in Threads |-> NULL]
    /\ seen = [t \in Threads |-> <<>>]
    /\ owed = [t \in Threads |-> {}]

(* An insertion, before a loop or in the middle of one. *)
Insert(t, v) ==
    /\ pc[t] \in {"idle", "loop"} /\ nNode < MaxNodes
    /\ vtree_insert(v)
    /\ UNCHANGED <<mutex, pc, loop, p, seen, owed>>

(* Delete what search found, outside any loop. *)
SearchDelete(t, v) ==
    /\ pc[t] = "idle" /\ vtree_search(v) # NULL
    /\ vtree_delete(vtree_search(v))
    /\ UNCHANGED <<mutex, pc, loop, p, seen, owed>>

Lock(t) ==
    /\ pc[t] = "idle"
    /\ vtree_lock(t)
    /\ Goto(t, "locked")
    /\ UNCHANGED <<treeVars, loop, p, seen, owed>>

(* vtree_seekFrom, and the direction and the filter of the loop. *)
Seek(t, from, filter) ==
    /\ pc[t] = "locked"
    /\ cur' = IF from = FIRST THEN vtree_mostL(head) ELSE vtree_mostR(head)
    /\ loop' = [loop EXCEPT ![t] = [from |-> from, filter |-> filter]]
    /\ seen' = [seen EXCEPT ![t] = <<>>]
    /\ owed' = [owed EXCEPT ![t] = {x \in items : x[1] \in filter}]
    /\ Goto(t, "loop")
    /\ UNCHANGED <<node, items, nNode, head, size, memUsage, mutex, p>>

Step(t, n) == IF loop[t].from = FIRST THEN vtree_next(n) ELSE vtree_prev(n)

(* The first node from the cursor on that passes the filter. *)
Passing(t) ==
    LET from[n \in DOMAIN node \cup {NULL}] ==
          IF n = NULL \/ Value(n) \in loop[t].filter THEN n ELSE from[Step(t, n)]
    IN  from[cur]

(* vtree_foreachFrom: the cursor moves on before the node is returned. *)
Foreach(t) ==
    /\ pc[t] = "loop" /\ Passing(t) # NULL
    /\ p' = [p EXCEPT ![t] = Passing(t)]
    /\ cur' = Step(t, Passing(t))
    /\ seen' = [seen EXCEPT ![t] = Append(@, node[Passing(t)].arg)]
    /\ owed' = [owed EXCEPT ![t] = @ \ {node[Passing(t)].arg}]
    /\ UNCHANGED <<node, items, nNode, head, size, memUsage, mutex, pc, loop>>

(* The loop deletes the node it came to. *)
Delete(t) ==
    /\ pc[t] = "loop" /\ p[t] # NULL /\ loop[t].from \in DeleteFrom
    /\ vtree_delete(p[t])
    /\ p' = [p EXCEPT ![t] = NULL]
    /\ UNCHANGED <<mutex, pc, loop, seen, owed>>

(* foreach returns NULL. *)
EndLoop(t) ==
    /\ pc[t] = "loop" /\ Passing(t) = NULL
    /\ cur' = NULL
    /\ p' = [p EXCEPT ![t] = NULL]
    /\ Goto(t, "done")
    /\ UNCHANGED <<node, items, nNode, head, size, memUsage, mutex, loop, seen, owed>>

Unlock(t) ==
    /\ pc[t] = "done"
    /\ vtree_unlock(t)
    /\ seen' = [seen EXCEPT ![t] = <<>>]
    /\ owed' = [owed EXCEPT ![t] = {}]
    /\ Goto(t, "idle")
    /\ UNCHANGED <<treeVars, loop, p>>

Thread(t) ==
    \/ \E v \in Values : Insert(t, v) \/ SearchDelete(t, v)
    \/ \E from \in {FIRST, LAST}, filter \in SUBSET Values : Seek(t, from, filter)
    \/ Lock(t) \/ Foreach(t) \/ Delete(t) \/ EndLoop(t) \/ Unlock(t)

Next == \E t \in Threads : Thread(t)

Spec == Init /\ [][Next]_vars

------------------------------------------------------------------------------
(* Correctness. *)

(* The type invariant of the tree and its users. *)
TypeOK ==
    /\ nNode \in 0 .. MaxNodes
    /\ DOMAIN node \subseteq 1 .. nNode
    /\ node \in [DOMAIN node -> [arg : Items, F : Nat, L : Nat, R : Nat]]
    /\ items \subseteq Items
    /\ head \in Nat /\ size \in Int /\ cur \in Nat
    /\ mutex \subseteq Threads
    /\ memUsage \in Int
    /\ pc \in [Threads -> {"idle", "locked", "loop", "done"}]
    /\ loop \in [Threads -> [from : {FIRST, LAST}, filter : SUBSET Values]]
    /\ p \in [Threads -> Nat]
    /\ seen \in [Threads -> Seq(Items)]
    /\ owed \in [Threads -> SUBSET Items]

(* The nodes vtree_travel visits, in its order. *)
Travel ==
    LET from[n \in DOMAIN node \cup {NULL}] ==
          IF n = NULL THEN <<>> ELSE <<n>> \o from[vtree_next(n)]
    IN  from[vtree_mostL(head)]

ElementsOf(s) == {s[j] : j \in DOMAIN s}

(* Links in both directions agree, and the tree hangs from head. *)
LinksAgree ==
    /\ head = NULL <=> DOMAIN node = {}
    /\ head # NULL => head \in DOMAIN node /\ node[head].F = NULL
    /\ \A n \in DOMAIN node :
         /\ \A c \in {node[n].L, node[n].R} \ {NULL} : c \in DOMAIN node /\ node[c].F = n
         /\ node[n].L # NULL => node[n].L # node[n].R
         /\ n # head => /\ node[n].F \in DOMAIN node
                        /\ n \in {node[node[n].F].L, node[node[n].F].R}

(* Whatever was inserted and deleted, the links agree in both directions,  *)
(* a travel comes to every node once, in the order of the values, and the  *)
(* size is their number (vutil.c:1930-2005, 2039-2120).                    *)
InOrder ==
    /\ TypeOK
    /\ LinksAgree
    /\ Len(Travel) = Cardinality(DOMAIN node) /\ ElementsOf(Travel) = DOMAIN node
    /\ \A j \in 2 .. Len(Travel) : Value(Travel[j - 1]) <= Value(Travel[j])
    /\ size = Cardinality(DOMAIN node)

(* A search finds a value if and only if an item has it (vutil.c:2008):    *)
(* insertion of equal values and deletion keep to the search's sides.      *)
SearchExact ==
    \A v \in Values :
        (\E n \in DOMAIN node : Value(n) = v)
            <=> (vtree_search(v) # NULL /\ Value(vtree_search(v)) = v)

(* Every item inserted and not yet destroyed is in exactly one node, also  *)
(* when deletion moved it, and the counter of vutil.c is the tree, its     *)
(* nodes and its items (vutil.c:2048, 2074, 2124).                         *)
ItemsKept ==
    /\ SearchExact
    /\ items = {node[n].arg : n \in DOMAIN node}
    /\ \A m, n \in DOMAIN node : node[m].arg = node[n].arg => m = n
    /\ memUsage = HeaderSize + NodeSize * Cardinality(DOMAIN node) + IntSize * Cardinality(items)

(* In a loop the cursor and the node to delete are nodes of the tree:      *)
(* vtree_delete frees the node before, never the one the cursor has gone   *)
(* to (vutil.c:2073, 2180).                                                *)
NoDanglingCursor ==
    \A t \in Threads : pc[t] = "loop" =>
        cur \in DOMAIN node \cup {NULL} /\ p[t] \in DOMAIN node \cup {NULL}

(* A loop comes to the items in the order of its direction and to none     *)
(* twice, and leaves out none: when foreach has returned NULL, whatever    *)
(* passes the filter and was in the tree when the loop began has been      *)
(* visited, although deletion moves items between nodes on the way and     *)
(* insertion goes on (vutil.c:2074, 2176-2194; sample.c:334-341).          *)
Before(t, v, w) == IF loop[t].from = FIRST THEN v <= w ELSE w <= v
VisitsAll ==
    /\ NoDanglingCursor
    /\ \A t \in Threads :
        /\ \A j, k \in DOMAIN seen[t] : j < k =>
             seen[t][j] # seen[t][k] /\ Before(t, seen[t][j][1], seen[t][k][1])
        /\ pc[t] = "done" => owed[t] = {}

(* Between lock and unlock a thread is alone. *)
OneInside ==
    \A t, u \in Threads :
        pc[t] \in {"locked", "loop", "done"} /\ pc[u] \in {"locked", "loop", "done"} => t = u
==============================================================================
