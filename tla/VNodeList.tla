------------------------------- MODULE VNodeList -------------------------------
(***************************************************************************)
(* What VQueue and VStack of vutil.c have in common: a chain of VNodes     *)
(* with a size kept beside it, a mutex taken inside each operation, the    *)
(* same push, and getSize, which reads the size without the mutex.  How an *)
(* item leaves the chain is defined in VQueue and VStack.                  *)
(*                                                                         *)
(* One structure is created, in one of the Settings.  Each thread makes    *)
(* Calls calls, any of push, pop and getSize in any order; then the owner  *)
(* destroys the structure.  The item pushed by the n-th call of thread t   *)
(* is <<t, n>>.  A node is named by the number of its allocation           *)
(* (vnode_newId counts them the same way).                                 *)
(***************************************************************************)
EXTENDS Integers, FiniteSets

CONSTANTS
    Threads,    \* the users of the structure
    Calls,      \* the calls each of them makes
    Settings,   \* what may be created, with which capacity (negative: none),
                \* and whether vnode_create may run out of memory
    NoItem      \* the NULL a pop returns when there is nothing

ASSUME CallsAssumption    == Calls \in Nat
ASSUME SettingsAssumption ==
    \A w \in Settings :
        w.kind \in {"queue", "stack"} /\ w.nMaxSize \in Int /\ w.scarce \in BOOLEAN

Items == Threads \X (0 .. Calls)
ASSUME NoItemAssumption == NoItem \notin Items

NULL == 0
FAIL == -1
NoNumber == -2    \* nothing returned by push or getSize

(* sizeof(VNode) and sizeof(VQueue), which is sizeof(VStack). *)
NodeSize   == 56
HeaderSize == 112

VARIABLES
    kind, nMaxSize, scarce,   \* the setting
    node,      \* [live node -> VNode]
    nNode,     \* number of nodes allocated so far
    head, tail, size,
    mutex,     \* the threads inside, at most one
    memUsage,  \* gMemUsage of vutil.c
    pc,        \* where each thread is in its call
    calls,     \* the calls each thread has made
    p,         \* the node each push has created, each pop has taken
    result,    \* what push and getSize return to each thread
    item,      \* what pop returns to each thread
    alive      \* whether the structure exists

created  == <<kind, nMaxSize, scarce>>
listVars == <<created, node, nNode, head, tail, size>>
vars == <<listVars, mutex, memUsage, pc, calls, p, result, item, alive>>

NodeType == [arg : Items, prev : Nat, next : Nat]

(* The item thread t pushes in the call it is in. *)
arg(t) == <<t, calls[t]>>

Goto(t, label) == pc' = [pc EXCEPT ![t] = label]

(* vqueue_create, vstack_create. *)
Init ==
    /\ \E w \in Settings : kind = w.kind /\ nMaxSize = w.nMaxSize /\ scarce = w.scarce
    /\ node = [n \in {} |-> NULL]
    /\ nNode = 0
    /\ head = NULL /\ tail = NULL /\ size = 0
    /\ mutex = {}
    /\ memUsage = HeaderSize
    /\ pc    = [t \in Threads |-> "idle"]
    /\ calls = [t \in Threads |-> 0]
    /\ p     = [t \in Threads |-> NULL]
    /\ result = [t \in Threads |-> NoNumber]
    /\ item   = [t \in Threads |-> NoItem]
    /\ alive = TRUE

------------------------------------------------------------------------------
(* Calls and returns. *)

(* A call begins: push and pop go on to the mutex, getSize reads the size. *)
Call(t) ==
    /\ alive /\ pc[t] = "idle" /\ calls[t] < Calls
    /\ \E op \in {"push", "pop", "getSize"} : Goto(t, op)
    /\ UNCHANGED <<listVars, mutex, memUsage, calls, p, result, item, alive>>

(* Mutant: the mutex is counted but nobody waits for it. *)
EnterAnyway(t) == mutex' = mutex \cup {t}

(* pthread_mutex_lock. *)
Enter(t) == mutex = {} /\ mutex' = {t}

Lock(t) ==
    /\ pc[t] \in {"push", "pop"}
    /\ Enter(t)
    /\ Goto(t, IF pc[t] = "push" THEN "test" ELSE "take")
    /\ UNCHANGED <<listVars, memUsage, calls, p, result, item, alive>>

GetSize(t) ==
    /\ pc[t] = "getSize"
    /\ result' = [result EXCEPT ![t] = size]
    /\ Goto(t, "return")
    /\ UNCHANGED <<listVars, mutex, memUsage, calls, p, item, alive>>

Unlock(t) ==
    /\ pc[t] = "unlock"
    /\ mutex' = mutex \ {t}
    /\ Goto(t, "return")
    /\ UNCHANGED <<listVars, memUsage, calls, p, result, item, alive>>

Return(t) ==
    /\ pc[t] = "return"
    /\ calls' = [calls EXCEPT ![t] = @ + 1]
    /\ result' = [result EXCEPT ![t] = NoNumber]
    /\ item' = [item EXCEPT ![t] = NoItem]
    /\ Goto(t, "idle")
    /\ UNCHANGED <<listVars, mutex, memUsage, p, alive>>

------------------------------------------------------------------------------
(* push: test, vnode_create, link at the tail, count. *)

Full == size = nMaxSize

Fail(t) ==
    /\ result' = [result EXCEPT ![t] = FAIL]
    /\ Goto(t, "unlock")

PushFull(t) ==
    /\ pc[t] = "test" /\ Full
    /\ Fail(t)
    /\ UNCHANGED <<listVars, mutex, memUsage, calls, p, item, alive>>

PushNoMemory(t) ==
    /\ pc[t] = "test" /\ ~Full /\ scarce
    /\ Fail(t)
    /\ UNCHANGED <<listVars, mutex, memUsage, calls, p, item, alive>>

(* vnode_create: memory cleared, arg set. *)
NewNode(t) == [arg |-> arg(t), prev |-> NULL, next |-> NULL]

PushCreate(t) ==
    /\ pc[t] = "test" /\ ~Full
    /\ nNode' = nNode + 1
    /\ node' = [n \in DOMAIN node \cup {nNode + 1} |->
                  IF n = nNode + 1 THEN NewNode(t) ELSE node[n]]
    /\ memUsage' = memUsage + NodeSize
    /\ p' = [p EXCEPT ![t] = nNode + 1]
    /\ Goto(t, "link")
    /\ UNCHANGED <<created, head, tail, size, mutex, calls, result, item, alive>>

(* Mutant: node->prev = p is missing. *)
LinkNoPrev(q) == [node EXCEPT ![tail].next = q]

(* The nodes when q is linked behind the tail. *)
LinkBehind(q) == [node EXCEPT ![tail].next = q, ![q].prev = tail]

PushLink(t) ==
    /\ pc[t] = "link"
    /\ node' = IF tail = NULL THEN node ELSE LinkBehind(p[t])
    /\ head' = IF tail = NULL THEN p[t] ELSE head
    /\ tail' = p[t]
    /\ Goto(t, "count")
    /\ UNCHANGED <<created, nNode, size, mutex, memUsage, calls, p, result, item, alive>>

PushCount(t) ==
    /\ pc[t] = "count"
    /\ size' = size + 1
    /\ result' = [result EXCEPT ![t] = size + 1]
    /\ p' = [p EXCEPT ![t] = NULL]
    /\ Goto(t, "unlock")
    /\ UNCHANGED <<created, node, nNode, head, tail, mutex, memUsage, calls, item, alive>>

Push(t) == PushFull(t) \/ PushNoMemory(t) \/ PushCreate(t) \/ PushLink(t) \/ PushCount(t)

------------------------------------------------------------------------------
(* What the two ways to pop share. *)

PopEmpty(t) ==
    /\ pc[t] = "take"
    /\ item' = [item EXCEPT ![t] = NoItem]
    /\ Goto(t, "unlock")
    /\ UNCHANGED <<listVars, mutex, memUsage, calls, p, result, alive>>

CountLess == size' = size - 1

vnode_destroy(q) ==
    /\ node' = [n \in DOMAIN node \ {q} |-> node[n]]
    /\ memUsage' = memUsage - NodeSize

(* The node taken out of the chain is counted out and freed, its item is   *)
(* the result.                                                             *)
PopFree(t) ==
    /\ pc[t] = "free"
    /\ CountLess
    /\ item' = [item EXCEPT ![t] = node[p[t]].arg]
    /\ vnode_destroy(p[t])
    /\ p' = [p EXCEPT ![t] = NULL]
    /\ Goto(t, "unlock")
    /\ UNCHANGED <<created, nNode, head, tail, mutex, calls, result, alive>>

Done == \A t \in Threads : pc[t] = "idle" /\ calls[t] = Calls

(* vqueue_destroy, vstack_destroy: the header goes, the nodes do not. *)
Destroy ==
    /\ alive /\ Done
    /\ alive' = FALSE
    /\ memUsage' = memUsage - HeaderSize
    /\ UNCHANGED <<listVars, mutex, pc, calls, p, result, item>>

Shared(t) == Call(t) \/ Lock(t) \/ GetSize(t) \/ Unlock(t) \/ Return(t) \/ Push(t) \/ PopFree(t)

(* The owner has no more use for the structure. *)
Ended == ~alive /\ UNCHANGED vars

------------------------------------------------------------------------------
Labels ==
    {"idle", "push", "pop", "getSize", "test", "link", "count", "take", "free",
     "unlock", "return"}

(* The type invariant of the structure and its users. *)
TypeOK ==
    /\ \E w \in Settings : kind = w.kind /\ nMaxSize = w.nMaxSize /\ scarce = w.scarce
    /\ nNode \in Nat
    /\ DOMAIN node \subseteq 1 .. nNode
    /\ node \in [DOMAIN node -> NodeType]
    /\ head \in Nat /\ tail \in Nat /\ size \in Int
    /\ mutex \subseteq Threads
    /\ memUsage \in Int
    /\ pc \in [Threads -> Labels]
    /\ calls \in [Threads -> 0 .. Calls]
    /\ p \in [Threads -> Nat]
    /\ result \in [Threads -> Int]
    /\ item \in [Threads -> Items \cup {NoItem}]
    /\ alive \in BOOLEAN

(* The nodes of the chain: a push creates its node before it is linked, a  *)
(* pop takes its node out before it frees it.                              *)
Loose   == {p[t] : t \in {u \in Threads : pc[u] \in {"link", "free"}}}
Chained == DOMAIN node \ Loose

(* The items in the structure for whoever reads its size: a node counts    *)
(* from size++ to size--.                                                  *)
Uncounted == {p[t] : t \in {u \in Threads : pc[u] \in {"link", "count"}}}
Stored    == DOMAIN node \ Uncounted

(* The counter is the number of items and within the capacity, the memory *)
(* that of the header and the nodes.                                       *)
Counted ==
    /\ size = Cardinality(Stored)
    /\ nMaxSize >= 0 => size <= nMaxSize
    /\ memUsage = (IF alive THEN HeaderSize ELSE 0) + NodeSize * Cardinality(DOMAIN node)

Linked ==
    /\ head = NULL <=> Chained = {}
    /\ tail = NULL <=> Chained = {}
    /\ Chained # {} =>
         /\ head \in Chained /\ \A n \in Chained : head <= n
         /\ tail \in Chained /\ \A n \in Chained : n <= tail
    /\ \A n \in Chained :
         /\ IF n = tail THEN node[n].next = NULL
            ELSE /\ node[n].next \in Chained /\ n < node[n].next
                 /\ node[node[n].next].prev = n
         /\ IF n = head THEN node[n].prev = NULL
            ELSE /\ node[n].prev \in Chained /\ node[n].prev < n
                 /\ node[node[n].prev].next = n

(* Between any two steps the chain is a doubly linked list of exactly its  *)
(* nodes from head to tail in the order of the pushes, whoever is where in *)
(* push or pop (vutil.c:1245-1258, 1285-1297 and 1414-1426).               *)
(*                                                                         *)
(* The test size == nMaxSize (vutil.c:1231, 1362) bounds the structure     *)
(* although it compares a counter kept beside the chain, and compares for  *)
(* equality only: the counter is the number of items and never steps over  *)
(* a capacity that is not negative.  The memory in use is the header and   *)
(* the nodes, so that after the destruction (1199, 1330) it is what was    *)
(* not popped.                                                             *)
ChainWellLinked == TypeOK /\ Counted /\ Linked

------------------------------------------------------------------------------
(* Why it stays so, whatever the threads do. *)

Inside == {"test", "link", "count", "take", "free", "unlock"}

OneInside ==
    /\ \A t \in Threads : pc[t] # "idle" => calls[t] < Calls
    /\ \A t \in Threads : t \in mutex <=> pc[t] \in Inside
    /\ \A t, u \in mutex : t = u

(* The node a thread inside has in its hand carries the item it pushes: it *)
(* is new and not linked, or the tail that is not counted, and then there  *)
(* is room for it.  Or it has been taken out, the oldest of a queue or the *)
(* newest of a stack.                                                      *)
InHand ==
    \A t \in Threads :
        /\ pc[t] = "link" => /\ p[t] = nNode /\ nNode \in DOMAIN node
                             /\ node[nNode] = NewNode(t)
        /\ pc[t] = "count" => p[t] = tail /\ tail # NULL /\ node[tail].arg = arg(t)
        /\ pc[t] \in {"link", "count"} /\ nMaxSize >= 0 => size < nMaxSize
        /\ pc[t] = "free" => /\ p[t] \in DOMAIN node
                             /\ \A n \in Chained :
                                  IF kind = "queue" THEN p[t] < n ELSE n < p[t]

(* Only a call that has taken effect has a result. *)
NoResultYet ==
    \A t \in Threads : pc[t] \notin {"unlock", "return"} => result[t] = NoNumber

(* No node of the chain is passed over by the links. *)
NoneBetween ==
    \A n \in Chained \ {tail} : \A m \in Chained : m <= n \/ node[n].next <= m

(* The inductive invariant: the chain, and what lets it be changed in two  *)
(* steps, the node and then the counter: one thread at a time is inside    *)
(* and the capacity tested at vutil.c:1231 still holds when 1260 counts.   *)
IndInv == ChainWellLinked /\ OneInside /\ InHand /\ NoneBetween /\ NoResultYet
==============================================================================
