--------------------------------- MODULE Table ---------------------------------
(***************************************************************************)
(* The Table of table.c: a linked list of Lists, one for each key, each a  *)
(* linked list of Nodes, and a cursor from which table_get serves the      *)
(* lists in turn.  A list is created by the first put of its key and freed *)
(* by the get that takes its last item.                                    *)
(*                                                                         *)
(* Each thread makes Calls calls.  table_put, table_putBack and table_get  *)
(* take the table's mutex; table_size does not, and a list it stands at    *)
(* may be freed by a get, so that here only threads in Counters call it,   *)
(* under CountersAssumption.  The item of the n-th call of thread t is     *)
(* <<t, n>>.  Lists and nodes are named by the number of their allocation. *)
(***************************************************************************)
EXTENDS Integers, FiniteSets, Sequences

CONSTANTS
    Keys,       \* the strings used as keys
    Clip,       \* what the 32 bytes of List.key keep of each
    Putters,    \* the threads that put and put back
    Getters,    \* the threads that get
    Counters,   \* the threads that call table_size
    Calls,      \* the calls each thread makes
    NoItem, NoKey

Threads == Putters \cup Getters \cup Counters
Items   == Threads \X (0 .. Calls)
Names   == {Clip[k] : k \in Keys}

ASSUME ClipAssumption  == DOMAIN Clip = Keys /\ \A k \in Keys : Clip[k] \in Keys => Clip[Clip[k]] = Clip[k]
ASSUME CallsAssumption == Calls \in Nat
ASSUME NoneAssumption  == NoItem \notin Items /\ NoKey \notin Keys
ASSUME CountersAssumption == \A t \in Counters : Getters \subseteq {t}

NULL == 0

(* sizeof(Table), sizeof(List) and sizeof(Node). *)
TableSize == 72
ListSize  == 72
NodeSize  == 24

VARIABLES
    list,          \* [live list -> List]
    node,          \* [live node -> Node]
    nList, nNode,  \* number of lists and nodes allocated so far
    T,             \* the Table: size, mostL, mostR, cur
    mutex,         \* the threads inside, at most one
    memUsage,      \* gMemUsage of vutil.c
    pc, calls,     \* where each thread is, the calls it has made
    key,           \* the key of each thread's call
    L,             \* the list each thread works on
    arg,           \* what table_get returns to each thread
    sum            \* what table_size has added up

dataVars == <<list, node, nList, nNode, T, memUsage>>
vars == <<list, node, nList, nNode, T, mutex, memUsage, pc, calls, key, L, arg, sum>>

------------------------------------------------------------------------------
(* Doubly linked lists; f is list or node. *)

(* Mutant: pR->L keeps pointing to what was left of x. *)
BeforeForwardOnly(f, pivot, x, r) ==
    LET pL == IF pivot = NULL THEN NULL ELSE f[pivot].L
    IN  [y \in DOMAIN f \cup {x} |->
            IF y = x THEN [r EXCEPT !.L = pL, !.R = pivot]
            ELSE [f[y] EXCEPT !.R = IF y = pL THEN x ELSE @]]

(* list_pushL: a new element x with record r to the left of the pivot.  No *)
(* element is NULL: with no pivot, nothing else changes.                   *)
Before(f, pivot, x, r) ==
    LET pL == IF pivot = NULL THEN NULL ELSE f[pivot].L
    IN  [y \in DOMAIN f \cup {x} |->
            IF y = x THEN [r EXCEPT !.L = pL, !.R = pivot]
            ELSE [f[y] EXCEPT !.R = IF y = pL THEN x ELSE @,
                              !.L = IF y = pivot THEN x ELSE @]]

(* list_pushR, table_pushR: to the right of the pivot. *)
After(f, pivot, x, r) ==
    LET pR == IF pivot = NULL THEN NULL ELSE f[pivot].R
    IN  [y \in DOMAIN f \cup {x} |->
            IF y = x THEN [r EXCEPT !.L = pivot, !.R = pR]
            ELSE [f[y] EXCEPT !.L = IF y = pR THEN x ELSE @,
                              !.R = IF y = pivot THEN x ELSE @]]

(* list_pop, table_pop: the elements left when x is unlinked and freed. *)
Without(f, x) ==
    [y \in DOMAIN f \ {x} |->
        [f[y] EXCEPT !.R = IF y = f[x].L THEN f[x].R ELSE @,
                     !.L = IF y = f[x].R THEN f[x].L ELSE @]]

(* The header of a list (a List, or T) when x is pushed or goes. *)
PushedL(h, f, x) ==
    [h EXCEPT !.mostL = x, !.mostR = IF h.mostL = NULL THEN x ELSE @, !.size = @ + 1]
PushedR(h, f, x) ==
    [h EXCEPT !.mostR = x, !.mostL = IF h.mostR = NULL THEN x ELSE @, !.size = @ + 1]
Popped(h, f, x) ==
    [h EXCEPT !.mostL = IF f[x].L = NULL THEN f[x].R ELSE @,
              !.mostR = IF f[x].R = NULL THEN f[x].L ELSE @,
              !.size  = @ - 1]

(* Mutant: the search stops one list early. *)
FindButLast(k) ==
    LET from[l \in DOMAIN list \cup {NULL}] ==
          IF l = NULL \/ l = T.mostR THEN NULL
          ELSE IF list[l].key = k THEN l ELSE from[list[l].R]
    IN  from[T.mostL]

(* table_findList_byKey: the whole string is compared with the clipped one. *)
Find(k) ==
    LET from[l \in DOMAIN list \cup {NULL}] ==
          IF l = NULL \/ list[l].key = k THEN l ELSE from[list[l].R]
    IN  from[T.mostL]
------------------------------------------------------------------------------
(* Calls and returns. *)

Goto(t, label) == pc' = [pc EXCEPT ![t] = label]
At(t, l)       == L' = [L EXCEPT ![t] = l]

(* table_new. *)
Init ==
    /\ list = [l \in {} |-> NULL] /\ nList = 0
    /\ node = [n \in {} |-> NULL] /\ nNode = 0
    /\ T = [size |-> 0, mostL |-> NULL, mostR |-> NULL, cur |-> NULL]
    /\ mutex = {}
    /\ memUsage = TableSize
    /\ pc    = [t \in Threads |-> "idle"]
    /\ calls = [t \in Threads |-> 0]
    /\ key   = [t \in Threads |-> NoKey]
    /\ L     = [t \in Threads |-> NULL]
    /\ arg   = [t \in Threads |-> NoItem]
    /\ sum   = [t \in Threads |-> 0]

CanCall(t) == pc[t] = "idle" /\ calls[t] < Calls

CallPut(t, k) ==
    /\ CanCall(t) /\ t \in Putters
    /\ Goto(t, "put") \/ Goto(t, "putBack")
    /\ key' = [key EXCEPT ![t] = k]
    /\ UNCHANGED <<dataVars, mutex, calls, L, arg, sum>>

CallGet(t) ==
    /\ CanCall(t) /\ t \in Getters
    /\ Goto(t, "get")
    /\ UNCHANGED <<dataVars, mutex, calls, key, L, arg, sum>>

(* Mutant: table_size begins at the cursor. *)
SizeFromCursor == T.cur

(* table_size begins at the leftmost list. *)
SizeFrom == T.mostL

CallSize(t) ==
    /\ CanCall(t) /\ t \in Counters
    /\ Goto(t, "size")
    /\ At(t, SizeFrom)
    /\ UNCHANGED <<dataVars, mutex, calls, key, arg, sum>>

table_lock(t) == mutex = {} /\ mutex' = {t}

Inside == [put |-> "find", putBack |-> "findBack", get |-> "take"]

Lock(t) ==
    /\ pc[t] \in DOMAIN Inside
    /\ table_lock(t)
    /\ Goto(t, Inside[pc[t]])
    /\ UNCHANGED <<dataVars, calls, key, L, arg, sum>>

Unlock(t) ==
    /\ pc[t] = "unlock"
    /\ mutex' = mutex \ {t}
    /\ Goto(t, "return")
    /\ UNCHANGED <<dataVars, calls, key, L, arg, sum>>

Returning(t) == pc[t] = "return" \/ (pc[t] = "size" /\ L[t] = NULL)

Return(t) ==
    /\ Returning(t)
    /\ calls' = [calls EXCEPT ![t] = @ + 1]
    /\ key' = [key EXCEPT ![t] = NoKey]
    /\ arg' = [arg EXCEPT ![t] = NoItem]
    /\ sum' = [sum EXCEPT ![t] = 0]
    /\ At(t, NULL)
    /\ Goto(t, "idle")
    /\ UNCHANGED <<dataVars, mutex>>

------------------------------------------------------------------------------
(* The operations. *)

(* The label after the search, for put and putBack. *)
Pushing == [find |-> "push", findBack |-> "pushBack"]

PutFound(t) ==
    /\ pc[t] \in DOMAIN Pushing /\ Find(key[t]) # NULL
    /\ At(t, Find(key[t]))
    /\ Goto(t, Pushing[pc[t]])
    /\ UNCHANGED <<dataVars, mutex, calls, key, arg, sum>>

(* list_new and table_pushR at the rightmost list. *)
PutNewList(t) ==
    /\ pc[t] \in DOMAIN Pushing /\ Find(key[t]) = NULL
    /\ nList' = nList + 1
    /\ list' = After(list, T.mostR, nList + 1,
                     [key |-> Clip[key[t]], size |-> 0, L |-> NULL, R |-> NULL,
                      mostL |-> NULL, mostR |-> NULL])
    /\ T' = PushedR(T, list, nList + 1)
    /\ memUsage' = memUsage + ListSize
    /\ At(t, nList + 1)
    /\ Goto(t, Pushing[pc[t]])
    /\ UNCHANGED <<node, nNode, mutex, calls, key, arg, sum>>

NewNode(t) == [arg |-> <<t, calls[t]>>, L |-> NULL, R |-> NULL]

(* node_new, then list_pushR for put and list_pushL for putBack. *)
PutNode(t) ==
    LET l == L[t]
        n == nNode + 1
    IN  /\ pc[t] \in {"push", "pushBack"}
        /\ nNode' = n
        /\ IF pc[t] = "push"
           THEN /\ node' = After(node, list[l].mostR, n, NewNode(t))
                /\ list' = [list EXCEPT ![l] = PushedR(@, node, n)]
           ELSE /\ node' = Before(node, list[l].mostL, n, NewNode(t))
                /\ list' = [list EXCEPT ![l] = PushedL(@, node, n)]
        /\ memUsage' = memUsage + NodeSize
        /\ Goto(t, "unlock")
        /\ UNCHANGED <<nList, T, mutex, calls, key, L, arg, sum>>

(* Mutant: the cursor stays past the end. *)
RestartNever == NULL

Restart == T.mostL

(* The cursor is past the last list: it goes back to the first, and this   *)
(* get returns NULL.                                                       *)
GetTurn(t) ==
    /\ pc[t] = "take" /\ T.cur = NULL
    /\ T' = [T EXCEPT !.cur = Restart]
    /\ Goto(t, "unlock")
    /\ UNCHANGED <<list, node, nList, nNode, mutex, memUsage, calls, key, L, arg, sum>>

(* Mutant: the cursor stays as long as the list has items. *)
CursorDrains(l) == IF list[l].size > 1 THEN l ELSE list[l].R

(* Where the cursor goes from list l. *)
Successor(l) == list[l].R

(* list_pop of the leftmost node of the cursor's list; the cursor moves.   *)
(* A list in the table is not empty here (AllLinked)  .                    *)
GetTake(t) ==
    LET l == T.cur
        n == list[l].mostL
    IN  /\ pc[t] = "take" /\ T.cur # NULL /\ n # NULL
        /\ arg' = [arg EXCEPT ![t] = node[n].arg]
        /\ list' = [list EXCEPT ![l] = Popped(@, node, n)]
        /\ node' = Without(node, n)
        /\ memUsage' = memUsage - NodeSize
        /\ T' = [T EXCEPT !.cur = Successor(l)]
        /\ At(t, l)
        /\ Goto(t, "drop")
        /\ UNCHANGED <<nList, nNode, mutex, calls, key, sum>>

Emptied(l) == list[l].mostL = NULL

list_del == memUsage' = memUsage - ListSize

(* table_pop of a list that has been emptied. *)
GetDrop(t) ==
    /\ pc[t] = "drop"
    /\ IF Emptied(L[t])
       THEN /\ T' = Popped(T, list, L[t])
            /\ list' = Without(list, L[t])
            /\ list_del
       ELSE UNCHANGED <<T, list, memUsage>>
    /\ At(t, NULL)
    /\ Goto(t, "unlock")
    /\ UNCHANGED <<node, nList, nNode, mutex, calls, key, arg, sum>>

(* table_size: L->size, then L->R, without the mutex. *)
SizeAdd(t) ==
    /\ pc[t] = "size" /\ L[t] # NULL
    /\ sum' = [sum EXCEPT ![t] = @ + list[L[t]].size]
    /\ Goto(t, "sizeNext")
    /\ UNCHANGED <<dataVars, mutex, calls, key, L, arg>>

SizeNext(t) ==
    /\ pc[t] = "sizeNext"
    /\ At(t, list[L[t]].R)
    /\ Goto(t, "size")
    /\ UNCHANGED <<dataVars, mutex, calls, key, arg, sum>>

Thread(t) ==
    \/ \E k \in Keys : CallPut(t, k)
    \/ CallGet(t) \/ CallSize(t) \/ Lock(t) \/ Unlock(t) \/ Return(t)
    \/ PutFound(t) \/ PutNewList(t) \/ PutNode(t)
    \/ GetTurn(t) \/ GetTake(t) \/ GetDrop(t)
    \/ SizeAdd(t) \/ SizeNext(t)

(* All calls are made. *)
Ended == (\A t \in Threads : pc[t] = "idle" /\ calls[t] = Calls) /\ UNCHANGED vars

Next == (\E t \in Threads : Thread(t)) \/ Ended

Spec == Init /\ [][Next]_vars

------------------------------------------------------------------------------
(* Correctness. *)

Labels ==
    {"idle", "put", "putBack", "get", "size", "sizeNext", "find", "findBack",
     "push", "pushBack", "take", "drop", "unlock", "return"}

(* The type invariant of the table and its users. *)
TypeOK ==
    /\ nList \in Nat /\ DOMAIN list \subseteq 1 .. nList
    /\ list \in [DOMAIN list -> [key : Names, size : Int, L : Nat, R : Nat,
                                 mostL : Nat, mostR : Nat]]
    /\ nNode \in Nat /\ DOMAIN node \subseteq 1 .. nNode
    /\ node \in [DOMAIN node -> [arg : Items, L : Nat, R : Nat]]
    /\ T \in [size : Int, mostL : Nat, mostR : Nat, cur : Nat]
    /\ mutex \subseteq Threads
    /\ memUsage \in Int
    /\ pc \in [Threads -> Labels]
    /\ calls \in [Threads -> 0 .. Calls]
    /\ key \in [Threads -> Keys \cup {NoKey}]
    /\ L \in [Threads -> Nat]
    /\ arg \in [Threads -> Items \cup {NoItem}]
    /\ sum \in [Threads -> Int]

(* The elements of f from x rightwards. *)
Right(f, x) ==
    LET from[y \in DOMAIN f \cup {NULL}] ==
          IF y = NULL THEN <<>> ELSE <<y>> \o from[f[y].R]
    IN  from[x]

Elements(s) == {s[j] : j \in DOMAIN s}

(* Header h leads to a list of elements of f: its ends agree with the      *)
(* links, the links with each other, and the size with their number.       *)
LinkedFrom(h, f) ==
    /\ h.mostL = NULL <=> h.mostR = NULL
    /\ h.mostL # NULL => h.mostL \in DOMAIN f /\ f[h.mostL].L = NULL
    /\ h.mostR # NULL => h.mostR \in DOMAIN f /\ f[h.mostR].R = NULL
    /\ LET s == Right(f, h.mostL)
       IN  /\ Len(s) = h.size
           /\ Len(s) > 0 => s[Len(s)] = h.mostR
           /\ \A j \in 2 .. Len(s) : f[s[j]].L = s[j - 1]

(* Neither the cursor, which names a list from one get to the next, nor a  *)
(* thread in the middle of a call, table_size without the mutex included,  *)
(* points to a list that was freed (table.c:278-283, 336-349).             *)
NoDanglingList ==
    /\ T.cur # NULL => T.cur \in DOMAIN list
    /\ \A t \in Threads : pc[t] \in {"size", "sizeNext", "push", "pushBack", "drop"} /\ L[t] # NULL
            => L[t] \in DOMAIN list

(* Between any two steps the lists are linked from the table, and the      *)
(* nodes from their lists, in both directions and with exact sizes, and no *)
(* list or node is out of reach (table.c:31-128, 133-233).  A list has a   *)
(* node, except between the two steps of the put that creates it and of    *)
(* the get that empties it: table_get (344-349) never comes to a list      *)
(* without one.  The counter of vutil.c is what is linked.                 *)
AllLinked ==
    /\ TypeOK /\ NoDanglingList
    /\ LinkedFrom(T, list)
    /\ \A l \in DOMAIN list : LinkedFrom(list[l], node)
    /\ DOMAIN list = Elements(Right(list, T.mostL))
    /\ DOMAIN node = UNION {Elements(Right(node, list[l].mostL)) : l \in DOMAIN list}
    /\ \A l \in DOMAIN list : list[l].mostL = NULL =>
         \E t \in Threads : L[t] = l /\ pc[t] \in {"push", "pushBack", "drop"}
    /\ memUsage = TableSize + ListSize * Cardinality(DOMAIN list)
                  + NodeSize * Cardinality(DOMAIN node)

(* A key that is stored whole, and is not what another key is clipped to,  *)
(* has one list at most, however many threads put it at once               *)
(* (table.c:301-306).                                                      *)
Whole(k) == \A j \in Keys : Clip[j] = k <=> j = k
OneListPerKey ==
    \A l, m \in DOMAIN list :
        list[l].key = list[m].key /\ list[l].key \in {k \in Keys : Whole(k)} => l = m
==============================================================================
