---------------------------- MODULE VNodeList_proofs ----------------------------
(* VQueue and VStack keep their chain, for any number of threads and calls *)
(* and any capacity.  IndInv is the inductive invariant.                   *)
EXTENDS VNodeListSequence, FiniteSetTheorems, SequenceTheorems, TLAPS

LEMMA InitInvariant == Init => IndInv
<1> SUFFICES ASSUME Init PROVE IndInv
  OBVIOUS
<1> USE DEF Init
<1>1. DOMAIN node = {}
  OBVIOUS
<1>3. TypeOK
  BY <1>1, CallsAssumption DEF TypeOK, NULL, HeaderSize, NoNumber, Labels
<1>4. Counted
  <2>1. Stored = {}
    BY <1>1 DEF Stored
  <2> QED
    BY <1>1, <2>1, FS_EmptySet DEF Counted, HeaderSize, NodeSize
<1>5. Chained = {}
  BY <1>1 DEF Chained
<1>6. Linked /\ NoneBetween
  BY <1>5 DEF Linked, NoneBetween
<1>7. OneInside /\ InHand /\ NoResultYet
  BY DEF OneInside, InHand, Inside, NoResultYet
<1> QED
  BY <1>3, <1>4, <1>6, <1>7 DEF IndInv, ChainWellLinked

(* What is in hand is in the hand of the one thread inside. *)
HandExact ==
    /\ \A t \in mutex : /\ Loose = IF pc[t] \in {"link", "free"} THEN {p[t]} ELSE {}
                        /\ Uncounted = IF pc[t] \in {"link", "count"} THEN {p[t]} ELSE {}
    /\ mutex = {} => Loose = {} /\ Uncounted = {}

LEMMA HandFacts == TypeOK /\ OneInside => HandExact
  BY DEF TypeOK, OneInside, HandExact, Loose, Uncounted, Inside

LEMMA HandFactsNext == TypeOK' /\ OneInside' => HandExact'
  BY HandFacts, PTL

(* The nodes are finitely many. *)
LEMMA NodesFinite == TypeOK => IsFiniteSet(DOMAIN node)
<1> SUFFICES ASSUME TypeOK PROVE IsFiniteSet(DOMAIN node)
  OBVIOUS
<1>1. nNode \in Int /\ DOMAIN node \subseteq 1 .. nNode
  BY DEF TypeOK
<1>2. IsFiniteSet(1 .. nNode)
  BY <1>1, FS_Interval
<1> QED
  BY <1>1, <1>2, FS_Subset

(* A new node is not the tail.                                             *)
LEMMA LinkSafe ==
    ASSUME IndInv, NEW t \in Threads, pc[t] = "link"
    PROVE  /\ t \in mutex /\ p[t] = nNode /\ p[t] \in DOMAIN node
           /\ node[p[t]].prev = NULL /\ node[p[t]].next = NULL
           /\ Loose = {p[t]}
           /\ tail # NULL => tail \in DOMAIN node /\ tail # p[t]
<1>1. t \in mutex
  BY DEF IndInv, OneInside, Inside
<1>2. Loose = {p[t]}
  BY <1>1, HandFacts DEF HandExact, IndInv, ChainWellLinked
<1>3. tail # NULL => tail \in DOMAIN node \ Loose
  BY DEF IndInv, ChainWellLinked, Linked, Chained
<1>4. p[t] = nNode /\ p[t] \in DOMAIN node /\ node[p[t]] = NewNode(t)
  BY DEF IndInv, InHand
<1>5. node[p[t]].prev = NULL /\ node[p[t]].next = NULL
  BY <1>4 DEF NewNode
<1> QED
  BY <1>1, <1>2, <1>3, <1>4, <1>5

(* What linking a node behind the tail changes. *)
LEMMA LinkEffect ==
    ASSUME TypeOK, NEW q \in DOMAIN node, tail \in DOMAIN node, q # tail
    PROVE  /\ LinkBehind(q) \in [DOMAIN node -> NodeType]
           /\ LinkBehind(q)[tail].next = q
           /\ LinkBehind(q)[tail].prev = node[tail].prev
           /\ LinkBehind(q)[q].prev = tail
           /\ LinkBehind(q)[q].next = node[q].next
           /\ \A n \in DOMAIN node : LinkBehind(q)[n].arg = node[n].arg
           /\ \A n \in DOMAIN node \ {q, tail} : LinkBehind(q)[n] = node[n]
<1>1. q \in Nat /\ tail \in Nat /\ \A n \in DOMAIN node : node[n] \in NodeType
  BY DEF TypeOK
<1>2. LinkBehind(q) = [n \in DOMAIN node |->
                         IF n = tail THEN [node[tail] EXCEPT !.next = q]
                         ELSE IF n = q THEN [node[q] EXCEPT !.prev = tail]
                         ELSE node[n]]
  BY DEF LinkBehind
<1>3. /\ [node[tail] EXCEPT !.next = q] \in NodeType
      /\ [node[tail] EXCEPT !.next = q].next = q
      /\ [node[tail] EXCEPT !.next = q].prev = node[tail].prev
      /\ [node[q] EXCEPT !.prev = tail] \in NodeType
      /\ [node[q] EXCEPT !.prev = tail].prev = tail
      /\ [node[q] EXCEPT !.prev = tail].next = node[q].next
      /\ [node[q] EXCEPT !.prev = tail].arg = node[q].arg
      /\ [node[tail] EXCEPT !.next = q].arg = node[tail].arg
  BY <1>1 DEF NodeType
<1> QED
  BY <1>1, <1>2, <1>3

(* What taking the head off changes, whose successor is q. *)
LEMMA HeadEffect ==
    ASSUME TypeOK, NEW q \in DOMAIN node, head \in DOMAIN node, q # head
    PROVE  /\ HeadOff(q) \in [DOMAIN node -> NodeType]
           /\ HeadOff(q)[q].prev = NULL
           /\ HeadOff(q)[q].next = node[q].next
           /\ \A n \in DOMAIN node \ {q, head} : HeadOff(q)[n] = node[n]
<1>1. q \in Nat /\ head \in Nat /\ \A n \in DOMAIN node : node[n] \in NodeType
  BY DEF TypeOK
<1>2. HeadOff(q) = [n \in DOMAIN node |->
                      IF n = q THEN [node[q] EXCEPT !.prev = NULL]
                      ELSE IF n = head THEN [node[head] EXCEPT !.next = NULL]
                      ELSE node[n]]
  BY DEF HeadOff
<1>3. /\ [node[q] EXCEPT !.prev = NULL] \in NodeType
      /\ [node[q] EXCEPT !.prev = NULL].prev = NULL
      /\ [node[q] EXCEPT !.prev = NULL].next = node[q].next
      /\ [node[head] EXCEPT !.next = NULL] \in NodeType
  BY <1>1 DEF NodeType, NULL
<1> QED
  BY <1>1, <1>2, <1>3

(* What taking the tail off changes, whose predecessor is q. *)
LEMMA TailEffect ==
    ASSUME TypeOK, NEW q \in DOMAIN node, tail \in DOMAIN node, q # tail
    PROVE  /\ TailOff(q) \in [DOMAIN node -> NodeType]
           /\ TailOff(q)[q].next = NULL
           /\ TailOff(q)[q].prev = node[q].prev
           /\ \A n \in DOMAIN node \ {q, tail} : TailOff(q)[n] = node[n]
<1>1. q \in Nat /\ tail \in Nat /\ \A n \in DOMAIN node : node[n] \in NodeType
  BY DEF TypeOK
<1>2. TailOff(q) = [n \in DOMAIN node |->
                      IF n = q THEN [node[q] EXCEPT !.next = NULL]
                      ELSE IF n = tail THEN [node[tail] EXCEPT !.prev = NULL]
                      ELSE node[n]]
  BY DEF TailOff
<1>3. /\ [node[q] EXCEPT !.next = NULL] \in NodeType
      /\ [node[q] EXCEPT !.next = NULL].next = NULL
      /\ [node[q] EXCEPT !.next = NULL].prev = node[q].prev
      /\ [node[tail] EXCEPT !.prev = NULL] \in NodeType
  BY <1>1 DEF NodeType, NULL
<1> QED
  BY <1>1, <1>2, <1>3

(* The types. *)
LEMMA StepType == IndInv /\ [Next]_vars => TypeOK'
<1> SUFFICES ASSUME IndInv, [Next]_vars PROVE TypeOK'
  OBVIOUS
<1>0. TypeOK
  BY DEF IndInv, ChainWellLinked
<1> USE DEF created, listVars, Goto, Labels, TypeOK
<1>1. ASSUME NEW t \in Threads,
             \/ Call(t) \/ Lock(t) \/ GetSize(t) \/ Unlock(t)
             \/ PushFull(t) \/ PushNoMemory(t) \/ PopEmpty(t)
      PROVE  TypeOK'
  BY <1>0, <1>1 DEF Call, Lock, Enter, GetSize, Unlock, PushFull, PushNoMemory, Fail, FAIL, PopEmpty
<1>2. ASSUME NEW t \in Threads, Return(t) PROVE TypeOK'
  <2>1. calls[t] + 1 \in 0 .. Calls
    BY <1>0, <1>2, CallsAssumption DEF Return, IndInv, OneInside
  <2> QED
    BY <1>0, <1>2, <2>1 DEF Return, NoNumber
<1>3. ASSUME NEW t \in Threads, PushCreate(t) PROVE TypeOK'
  <2>1. NewNode(t) \in NodeType
    BY <1>0 DEF NewNode, NodeType, arg, Items, NULL
  <2>2. nNode' \in Nat /\ DOMAIN node' \subseteq 1 .. nNode'
    BY <1>0, <1>3 DEF PushCreate
  <2>3. node' \in [DOMAIN node' -> NodeType]
    BY <1>0, <1>3, <2>1 DEF PushCreate
  <2> QED
    BY <1>0, <1>3, <2>2, <2>3 DEF PushCreate, NodeSize
<1>4. ASSUME NEW t \in Threads, PushLink(t) PROVE TypeOK'
  <2>1. node' \in [DOMAIN node -> NodeType]
    BY <1>0, <1>4, LinkEffect, LinkSafe DEF PushLink
  <2> QED
    BY <1>0, <1>4, <2>1 DEF PushLink
<1>5. ASSUME NEW t \in Threads, PushCount(t) PROVE TypeOK'
  BY <1>0, <1>5 DEF PushCount, NULL
<1>6. ASSUME NEW t \in Threads, PopFree(t) PROVE TypeOK'
  <2>1. node[p[t]].arg \in Items
    BY <1>0, <1>6 DEF PopFree, IndInv, InHand, NodeType
  <2> QED
    BY <1>0, <1>6, <2>1 DEF PopFree, CountLess, vnode_destroy, NodeSize, NULL
<1>7. ASSUME NEW t \in Threads, PopHead(t) PROVE TypeOK'
  <2>1. head \in DOMAIN node
    BY <1>0, <1>7 DEF PopHead, IndInv, ChainWellLinked, Linked, Chained
  <2>2. node[head].next \in Nat
    BY <1>0, <2>1 DEF NodeType
  <2>3. node' \in [DOMAIN node -> NodeType]
    BY <1>0, <1>7 DEF PopHead, HeadOff, NodeType, NULL
  <2>4. head' \in Nat /\ tail' \in Nat /\ p' \in [Threads -> Nat]
    BY <1>0, <1>7, <2>2 DEF PopHead, NULL
  <2> QED
    BY <1>0, <1>7, <2>3, <2>4 DEF PopHead
<1>8. ASSUME NEW t \in Threads, PopTail(t) PROVE TypeOK'
  <2>1. tail \in DOMAIN node
    BY <1>0, <1>8 DEF PopTail, IndInv, ChainWellLinked, Linked, Chained
  <2>2. node[tail].prev \in Nat
    BY <1>0, <2>1 DEF NodeType
  <2>3. node' \in [DOMAIN node -> NodeType]
    BY <1>0, <1>8, SMTT(20) DEF PopTail, TailOff, NodeType, NULL
  <2>4. head' \in Nat /\ tail' \in Nat /\ p' \in [Threads -> Nat]
    BY <1>0, <1>8, <2>2 DEF PopTail, NULL
  <2> QED
    BY <1>0, <1>8, <2>3, <2>4 DEF PopTail
<1>9. CASE Destroy
  <2>1. memUsage' = memUsage - HeaderSize /\ alive' = FALSE
    BY <1>9 DEF Destroy
  <2>2. UNCHANGED <<kind, nMaxSize, scarce, node, nNode, head, tail, size, mutex, pc, calls, p, result, item>>
    BY <1>9 DEF Destroy
  <2>3. memUsage' \in Int
    BY <1>0, <2>1 DEF HeaderSize
  <2> QED
    BY <1>0, <2>1, <2>2, <2>3
<1>10. CASE UNCHANGED vars
  BY <1>0, <1>10 DEF vars
<1> QED
  BY <1>1, <1>2, <1>3, <1>4, <1>5, <1>6, <1>7, <1>8, <1>9, <1>10
  DEF Next, Thread, Shared, Push, vqueue_pop, vstack_pop, PopNoHead, PopNoTail, Ended

(* A thread takes the mutex before it goes inside and gives it up when it  *)
(* leaves.                                                                 *)
LEMMA StepInside == IndInv /\ [Next]_vars => OneInside'
<1> SUFFICES ASSUME IndInv, [Next]_vars PROVE OneInside'
  OBVIOUS
<1>0. TypeOK /\ OneInside
  BY DEF IndInv, ChainWellLinked
<1> USE DEF Goto, Inside, OneInside, TypeOK, Labels
<1>1. ASSUME NEW t \in Threads, Lock(t) PROVE OneInside'
  BY <1>0, <1>1 DEF Lock, Enter
<1>2. ASSUME NEW t \in Threads, Unlock(t) PROVE OneInside'
  BY <1>0, <1>2 DEF Unlock
<1>3. ASSUME NEW t \in Threads, Call(t) \/ GetSize(t) \/ Return(t)
      PROVE  OneInside'
  BY <1>0, <1>3 DEF Call, GetSize, Return
<1>4. ASSUME NEW t \in Threads,
             Push(t) \/ PopFree(t) \/ PopEmpty(t) \/ PopHead(t) \/ PopTail(t)
      PROVE  OneInside'
  <2>1. /\ mutex' = mutex /\ calls' = calls /\ pc[t] \in Inside
        /\ \E l \in Inside : pc' = [pc EXCEPT ![t] = l]
    BY <1>4 DEF Push, PushFull, PushNoMemory, Fail, PushCreate, PushLink, PushCount, PopFree,
                PopEmpty, PopHead, PopTail
  <2> QED
    BY <1>0, <2>1
<1>5. CASE Destroy \/ UNCHANGED vars
  BY <1>0, <1>5 DEF Destroy, vars
<1> QED
  BY <1>1, <1>2, <1>3, <1>4, <1>5
  DEF Next, Thread, Shared, vqueue_pop, vstack_pop, PopNoHead, PopNoTail, Ended

(* What is inside stays as it is: a step that changes neither the chain    *)
(* nor what is in hand, nor the memory.                                    *)
LEMMA Same ==
    ASSUME IndInv, UNCHANGED <<listVars, p, memUsage, alive>>,
           \A t \in Threads : \/ pc'[t] = pc[t] /\ calls'[t] = calls[t]
                              \/ {pc[t], pc'[t]} \cap {"link", "count", "free"} = {}
    PROVE  Counted' /\ Linked' /\ InHand' /\ NoneBetween'
<1>1. Loose' = Loose /\ Uncounted' = Uncounted
  BY DEF Loose, Uncounted
<1>2. Stored' = Stored /\ Chained' = Chained
  BY <1>1 DEF Stored, Chained, listVars
<1>3. Counted'
  BY <1>2 DEF Counted, IndInv, ChainWellLinked, listVars, created
<1>4. Linked' /\ NoneBetween'
  BY <1>2 DEF Linked, NoneBetween, IndInv, ChainWellLinked, listVars
<1>5. InHand'
  <2>1. ASSUME NEW t \in Threads, pc'[t] \in {"link", "count", "free"}
        PROVE  pc[t] = pc'[t] /\ calls[t] = calls'[t]
    BY <2>1
  <2> QED
    BY <1>2, <2>1 DEF InHand, IndInv, listVars, created, NewNode, arg
<1> QED
  BY <1>3, <1>4, <1>5

LEMMA QuietStep ==
    ASSUME IndInv, NEW t \in Threads,
           \/ Call(t) \/ Lock(t) \/ GetSize(t) \/ Unlock(t) \/ Return(t)
           \/ PushFull(t) \/ PushNoMemory(t) \/ PopEmpty(t)
    PROVE  Counted' /\ Linked' /\ InHand' /\ NoneBetween'
<1>1. UNCHANGED <<listVars, p, memUsage, alive>>
  BY DEF Call, Lock, GetSize, Unlock, Return, PushFull, PushNoMemory, Fail, PopEmpty
<1>2. \A u \in Threads : \/ pc'[u] = pc[u] /\ calls'[u] = calls[u]
                         \/ {pc[u], pc'[u]} \cap {"link", "count", "free"} = {}
  BY DEF IndInv, ChainWellLinked, TypeOK, Goto,
         Call, Lock, GetSize, Unlock, Return, PushFull, PushNoMemory, Fail, PopEmpty
<1> QED
  BY <1>1, <1>2, Same

(* Nobody but the thread inside has anything in hand, before and after its *)
(* step.                                                                   *)
LEMMA Hands ==
    ASSUME IndInv, TypeOK', OneInside', NEW t \in Threads, t \in mutex, mutex' = mutex
    PROVE  /\ Loose = IF pc[t] \in {"link", "free"} THEN {p[t]} ELSE {}
           /\ Uncounted = IF pc[t] \in {"link", "count"} THEN {p[t]} ELSE {}
           /\ Loose' = IF pc'[t] \in {"link", "free"} THEN {p'[t]} ELSE {}
           /\ Uncounted' = IF pc'[t] \in {"link", "count"} THEN {p'[t]} ELSE {}
           /\ \A u \in Threads \ {t} : pc'[u] \notin {"link", "count", "free"}
<1>1. HandExact /\ HandExact'
  BY HandFacts, HandFactsNext DEF IndInv, ChainWellLinked
<1>2. \A u \in Threads \ {t} : pc'[u] \notin {"link", "count", "free"}
  BY DEF OneInside, Inside
<1> QED
  BY <1>1, <1>2 DEF HandExact

(* The node is created: neither in the chain nor counted. *)
LEMMA CreateStep ==
    ASSUME IndInv, TypeOK', OneInside', NEW t \in Threads, PushCreate(t)
    PROVE  Counted' /\ Linked' /\ InHand' /\ NoneBetween'
<1> DEFINE q == nNode + 1
<1>0. TypeOK /\ Counted /\ Linked /\ NoneBetween
  BY DEF IndInv, ChainWellLinked
<1>1. pc[t] = "test" /\ t \in mutex /\ mutex' = mutex /\ pc'[t] = "link" /\ p'[t] = q
  BY <1>0 DEF PushCreate, Goto, TypeOK, IndInv, OneInside, Inside
<1>2. q \notin DOMAIN node /\ q # NULL /\ q \in Nat /\ DOMAIN node' = DOMAIN node \cup {q}
  BY <1>0 DEF TypeOK, PushCreate, NULL
<1>3. Loose = {} /\ Uncounted = {} /\ Loose' = {q} /\ Uncounted' = {q}
  BY <1>1, Hands
<1>4. Chained' = DOMAIN node /\ Chained = DOMAIN node /\ Stored' = DOMAIN node /\ Stored = DOMAIN node
  BY <1>2, <1>3 DEF Chained, Stored
<1>5. /\ \A n \in DOMAIN node : node'[n] = node[n]
      /\ node'[q] = NewNode(t)
      /\ UNCHANGED <<nMaxSize, head, tail, size, alive>> /\ nNode' = q
      /\ memUsage' = memUsage + NodeSize
  BY <1>2 DEF PushCreate, created
<1>6. Counted'
  <2>1. Cardinality(DOMAIN node') = Cardinality(DOMAIN node) + 1 /\ Cardinality(DOMAIN node) \in Nat
    BY <1>0, <1>2, NodesFinite, FS_AddElement, FS_CardinalityType
  <2>2. size' = Cardinality(Stored') /\ (nMaxSize' >= 0 => size' <= nMaxSize')
    BY <1>0, <1>4, <1>5 DEF Counted
  <2>3. memUsage' = (IF alive' THEN HeaderSize ELSE 0) + NodeSize * Cardinality(DOMAIN node')
    BY <1>0, <1>5, <2>1 DEF Counted, HeaderSize, NodeSize
  <2> QED
    BY <2>2, <2>3 DEF Counted
<1>7. Linked' /\ NoneBetween'
  BY <1>0, <1>4, <1>5 DEF Linked, NoneBetween
<1>8. size < nMaxSize \/ nMaxSize < 0
  <2>1. nMaxSize \in Int /\ size \in Int /\ size # nMaxSize
    BY <1>0, SettingsAssumption DEF TypeOK, PushCreate, Full
  <2> QED
    BY <1>0, <2>1 DEF Counted
<1>9. InHand'
  <2>1. \A u \in Threads \ {t} : pc'[u] \notin {"link", "count", "free"}
    BY <1>1, Hands
  <2>2. node'[q] = NewNode(t)'
    BY <1>5 DEF PushCreate, NewNode, arg
  <2>3. nMaxSize \in Int /\ size \in Int
    BY <1>0, SettingsAssumption DEF TypeOK
  <2> QED
    BY <1>1, <1>2, <1>5, <1>8, <2>1, <2>2, <2>3 DEF InHand
<1> QED
  BY <1>6, <1>7, <1>9

(* The node is linked behind the tail, and is the tail. *)
LEMMA LinkStep ==
    ASSUME IndInv, TypeOK', OneInside', NEW t \in Threads, PushLink(t)
    PROVE  Counted' /\ Linked' /\ InHand' /\ NoneBetween'
<1>0. TypeOK /\ Counted /\ Linked /\ NoneBetween
  BY DEF IndInv, ChainWellLinked
<1>1. PICK q \in Nat : q = p[t]
  BY <1>0 DEF TypeOK
<1>2. PICK l \in Nat : l = tail
  BY <1>0 DEF TypeOK
<1>3. pc[t] = "link" /\ mutex' = mutex /\ pc'[t] = "count" /\ p' = p
  BY <1>0 DEF PushLink, Goto, TypeOK
<1>4. /\ t \in mutex /\ q = nNode /\ q \in DOMAIN node /\ q # NULL
      /\ node[q].prev = NULL /\ node[q].next = NULL
      /\ l # NULL => l \in DOMAIN node /\ l # q
  BY <1>0, <1>1, <1>2, <1>3, LinkSafe DEF TypeOK, NULL
<1>5. Loose = {q} /\ Uncounted = {q} /\ Loose' = {} /\ Uncounted' = {q}
  BY <1>1, <1>3, <1>4, Hands
<1>6. /\ UNCHANGED <<nNode, nMaxSize, size, alive, memUsage>>
      /\ tail' = q /\ head' = IF l = NULL THEN q ELSE head
      /\ node' = IF l = NULL THEN node ELSE LinkBehind(q)
  BY <1>1, <1>2 DEF PushLink, created
<1>7. DOMAIN node' = DOMAIN node
  BY <1>6 DEF LinkBehind
<1>8. Stored' = Stored /\ Chained' = Chained \cup {q} /\ q \notin Chained
  BY <1>4, <1>5, <1>7 DEF Stored, Chained
<1>9. Counted'
  BY <1>0, <1>6, <1>7, <1>8 DEF Counted
<1>10. \A n \in Chained : n \in Nat /\ n < q
  <2>1. \A n \in Chained : n \in 1 .. nNode /\ n # nNode
    BY <1>0, <1>4, <1>8 DEF TypeOK, Chained
  <2> QED
    BY <1>0, <1>4, <2>1 DEF TypeOK
<1>11. ASSUME l = NULL PROVE Linked' /\ NoneBetween'
  <2>1. Chained = {} /\ Chained' = {q} /\ node' = node /\ head' = q
    BY <1>0, <1>2, <1>6, <1>8, <1>11 DEF Linked
  <2> QED
    BY <1>4, <1>6, <2>1 DEF Linked, NoneBetween
<1>12. ASSUME l # NULL PROVE Linked' /\ NoneBetween'
  <2>1. /\ node'[l].next = q /\ node'[l].prev = node[l].prev
        /\ node'[q].prev = l /\ node'[q].next = NULL
        /\ \A n \in DOMAIN node \ {q, l} : node'[n] = node[n]
    BY <1>0, <1>2, <1>4, <1>6, <1>12, LinkEffect
  <2>2. l \in Chained /\ head \in Chained /\ head' = head /\ head # NULL
    BY <1>0, <1>2, <1>6, <1>12 DEF Linked
  <2>3. /\ \A n \in Chained' : head' <= n /\ n <= tail'
        /\ head' \in Chained' /\ tail' \in Chained' /\ tail' # NULL /\ head' # NULL
    BY <1>0, <1>4, <1>6, <1>8, <1>10, <2>2 DEF Linked
  <2>4. ASSUME NEW n \in Chained
        PROVE  /\ /\ node'[n].next \in Chained' /\ n < node'[n].next
                  /\ node'[node'[n].next].prev = n
               /\ IF n = head' THEN node'[n].prev = NULL
                  ELSE /\ node'[n].prev \in Chained' /\ node'[n].prev < n
                       /\ node'[node'[n].prev].next = n
               /\ \A m \in Chained' : m <= n \/ node'[n].next <= m
    <3>0. n # q /\ n \in DOMAIN node
      BY <1>8 DEF Chained
    <3>1. CASE n = l
      <4>1. n # head => node[n].prev # l
        BY <1>0, <1>10, <3>1 DEF Linked
      <4> QED
        BY <1>0, <1>2, <1>8, <1>10, <2>1, <2>2, <3>0, <3>1, <4>1 DEF Linked, Chained
    <3>2. CASE n # l
      <4>1. node'[n] = node[n]
        BY <2>1, <3>0, <3>2
      <4>2. PICK x \in Chained : x = node[n].next /\ n < x /\ node[x].prev = n
        BY <1>0, <1>2, <3>2 DEF Linked
      <4>3. x \in DOMAIN node /\ x # q /\ node'[x].prev = node[x].prev
        BY <1>8, <2>1, <4>2 DEF Chained
      <4>4. n # head => \E y \in Chained : y = node[n].prev /\ y < n /\ node[y].next = n /\ y # l
        BY <1>0, <1>2, <1>10 DEF Linked
      <4>5. n # head => /\ node[n].prev \in Chained' /\ node[n].prev < n
                       /\ node'[node[n].prev].next = n
        BY <1>8, <2>1, <4>4 DEF Chained
      <4>6. \A m \in Chained' : m <= n \/ node[n].next <= m
        BY <1>0, <1>2, <1>8, <1>10, <3>2, <4>2 DEF NoneBetween
      <4>7. n = head => node[n].prev = NULL
        BY <1>0 DEF Linked
      <4> QED
        BY <1>8, <2>2, <4>1, <4>2, <4>3, <4>5, <4>6, <4>7
    <3> QED
      BY <3>1, <3>2
  <2>5. /\ node'[q].next = NULL /\ q # head'
        /\ node'[q].prev \in Chained' /\ node'[q].prev < q /\ node'[node'[q].prev].next = q
    BY <1>8, <1>10, <2>1, <2>2
  <2>6. tail' = q /\ Chained' = Chained \cup {q} /\ q \notin Chained
    BY <1>6, <1>8
  <2>7. Linked'
    BY <2>3, <2>4, <2>5, <2>6 DEF Linked
  <2>8. NoneBetween'
    BY <2>4, <2>6 DEF NoneBetween
  <2> QED
    BY <2>7, <2>8
<1>13. node'[q].arg = arg(t)'
  <2>1. node[q].arg = arg(t) /\ calls' = calls
    BY <1>3, <1>4 DEF IndInv, InHand, NewNode, PushLink
  <2>2. node'[q].arg = node[q].arg
    BY <1>0, <1>2, <1>4, <1>6, LinkEffect
  <2> QED
    BY <2>1, <2>2 DEF arg
<1>14. InHand'
  <2>1. \A u \in Threads \ {t} : pc'[u] \notin {"link", "count", "free"}
    BY <1>3, <1>4, Hands
  <2> QED
    BY <1>1, <1>3, <1>4, <1>6, <1>13, <2>1 DEF InHand, IndInv
<1> QED
  BY <1>9, <1>11, <1>12, <1>14

(* The new tail is counted. *)
LEMMA CountStep ==
    ASSUME IndInv, TypeOK', OneInside', NEW t \in Threads, PushCount(t)
    PROVE  Counted' /\ Linked' /\ InHand' /\ NoneBetween'
<1>0. TypeOK /\ Counted /\ Linked /\ NoneBetween
  BY DEF IndInv, ChainWellLinked
<1>1. /\ pc[t] = "count" /\ t \in mutex /\ mutex' = mutex /\ pc'[t] = "unlock"
      /\ p[t] = tail /\ tail # NULL /\ (nMaxSize >= 0 => size < nMaxSize)
  BY <1>0 DEF PushCount, Goto, TypeOK, IndInv, OneInside, Inside, InHand
<1>2. Loose = {} /\ Uncounted = {tail} /\ Loose' = {} /\ Uncounted' = {}
  BY <1>1, Hands
<1>3. UNCHANGED <<node, nMaxSize, head, tail, alive, memUsage>> /\ size' = size + 1
  BY DEF PushCount, created
<1>4. tail \in DOMAIN node
  BY <1>0, <1>1 DEF Linked, Chained
<1>5. Chained' = Chained /\ Stored = DOMAIN node \ {tail} /\ Stored' = DOMAIN node
  BY <1>2, <1>3 DEF Chained, Stored
<1>6. Counted'
  <2>1. Cardinality(Stored) = Cardinality(DOMAIN node) - 1 /\ Cardinality(DOMAIN node) \in Nat
    BY <1>0, <1>4, <1>5, NodesFinite, FS_RemoveElement, FS_CardinalityType
  <2>2. nMaxSize \in Int /\ size \in Int
    BY <1>0, SettingsAssumption DEF TypeOK
  <2>3. size' = Cardinality(Stored')
    BY <1>0, <1>3, <1>5, <2>1, <2>2 DEF Counted
  <2> QED
    BY <1>0, <1>1, <1>3, <2>2, <2>3 DEF Counted
<1>7. Linked' /\ NoneBetween'
  BY <1>0, <1>3, <1>5 DEF Linked, NoneBetween
<1>8. InHand'
  BY <1>1, Hands DEF InHand
<1> QED
  BY <1>6, <1>7, <1>8

(* A node is taken out: what is left of the chain is well linked, and the  *)
(* node is counted until it is freed.                                      *)
LEMMA Taken ==
    ASSUME IndInv, TypeOK', OneInside', NEW t \in Threads, NEW h \in Chained,
           pc[t] = "take", Goto(t, "free"), p' = [p EXCEPT ![t] = h],
           DOMAIN node' = DOMAIN node,
           \A n \in Chained \ {h} : IF kind = "queue" THEN h < n ELSE n < h,
           UNCHANGED <<created, nNode, size, mutex, memUsage, calls, result, item, alive>>
    PROVE  Counted' /\ InHand' /\ Chained' = Chained \ {h} /\ Chained = DOMAIN node
<1>0. TypeOK /\ Counted
  BY DEF IndInv, ChainWellLinked
<1>1. t \in mutex /\ mutex' = mutex /\ pc'[t] = "free" /\ p'[t] = h /\ h \in DOMAIN node
  BY <1>0 DEF Goto, TypeOK, IndInv, OneInside, Inside, Chained
<1>2. Loose = {} /\ Uncounted = {} /\ Loose' = {h} /\ Uncounted' = {}
  BY <1>1, Hands
<1>3. Chained' = Chained \ {h} /\ Chained = DOMAIN node /\ Stored' = Stored
  BY <1>2 DEF Chained, Stored
<1>4. Counted'
  BY <1>0, <1>3 DEF Counted, created
<1>5. InHand'
  BY <1>1, <1>3, Hands DEF InHand, created
<1> QED
  BY <1>3, <1>4, <1>5

LEMMA HeadStep ==
    ASSUME IndInv, TypeOK', OneInside', NEW t \in Threads, PopHead(t)
    PROVE  Counted' /\ Linked' /\ InHand' /\ NoneBetween'
<1>0. TypeOK /\ Linked /\ NoneBetween
  BY DEF IndInv, ChainWellLinked
<1>1. PICK h \in Chained : h = head /\ h # NULL /\ h \in DOMAIN node
  BY <1>0 DEF PopHead, Linked, Chained
<1>2. PICK q \in Nat : q = node[h].next
  BY <1>0, <1>1 DEF TypeOK, NodeType
<1>3. /\ head' = IF q # NULL THEN q ELSE NULL
      /\ tail' = IF q # NULL THEN tail ELSE NULL
      /\ node' = IF q # NULL THEN HeadOff(q) ELSE node
  BY <1>1, <1>2 DEF PopHead
<1>4. DOMAIN node' = DOMAIN node
  BY <1>3 DEF HeadOff
<1>5. Counted' /\ InHand' /\ Chained' = Chained \ {h} /\ Chained = DOMAIN node
  <2>1. \A n \in Chained : n \in Nat
    BY <1>0 DEF Chained, TypeOK
  <2>2. \A n \in Chained \ {h} : h < n
    BY <1>0, <1>1, <2>1 DEF Linked
  <2> QED
    BY <1>1, <1>4, <2>2, Taken DEF PopHead
<1>6. \A n \in Chained : n \in Nat /\ n # NULL
  BY <1>0, <1>5 DEF TypeOK, NULL
<1>7. ASSUME q = NULL PROVE Linked' /\ NoneBetween'
  <2>1. h = tail
    <3>1. h # tail => node[h].next \in Chained
      BY <1>0, <1>1 DEF Linked
    <3> QED
      BY <1>2, <1>6, <1>7, <3>1
  <2>2. Chained = {h}
    BY <1>0, <1>1, <1>6, <2>1 DEF Linked
  <2> QED
    BY <1>3, <1>5, <1>7, <2>2 DEF Linked, NoneBetween
<1>8. ASSUME q # NULL PROVE Linked' /\ NoneBetween'
  <2>1. h # tail /\ q \in Chained /\ h < q /\ node[q].prev = h
    BY <1>0, <1>1, <1>2, <1>8 DEF Linked
  <2>2. /\ node'[q].prev = NULL /\ node'[q].next = node[q].next
        /\ \A n \in DOMAIN node \ {q, h} : node'[n] = node[n]
    BY <1>0, <1>1, <1>3, <1>5, <1>6, <1>8, <2>1, HeadEffect
  <2>3. head' = q /\ tail' = tail /\ tail \in Chained' /\ q \in Chained'
    BY <1>0, <1>1, <1>3, <1>5, <1>6, <1>8, <2>1 DEF Linked
  <2>4. \A n \in Chained' : q <= n /\ n <= tail
    BY <1>0, <1>1, <1>2, <1>5, <1>6, <2>1 DEF Linked, NoneBetween
  <2>5. ASSUME NEW n \in Chained'
        PROVE  /\ IF n = tail THEN node'[n].next = NULL
                  ELSE /\ node'[n].next \in Chained' /\ n < node'[n].next
                       /\ node'[node'[n].next].prev = n
               /\ IF n = q THEN node'[n].prev = NULL
                  ELSE /\ node'[n].prev \in Chained' /\ node'[n].prev < n
                       /\ node'[node'[n].prev].next = n
               /\ n # tail => \A m \in Chained' : m <= n \/ node'[n].next <= m
    <3>1. n \in Chained /\ n # h /\ n \in DOMAIN node /\ node'[n].next = node[n].next
          /\ (n # q => node'[n].prev = node[n].prev)
      BY <1>5, <2>2
    <3>2. n = tail => node'[n].next = NULL
      BY <1>0, <3>1 DEF Linked
    <3>3. ASSUME n # tail
          PROVE  \E x \in Chained : x = node[n].next /\ n < x /\ node[x].prev = n /\ x # h /\ x # q
      BY <1>0, <1>1, <1>6, <2>1, <3>1, <3>3 DEF Linked
    <3>4. n # tail => /\ node'[n].next \in Chained' /\ n < node'[n].next
                      /\ node'[node'[n].next].prev = n
      BY <1>5, <2>2, <3>1, <3>3
    <3>5. ASSUME n # q
          PROVE  \E x \in Chained : x = node[n].prev /\ x < n /\ node[x].next = n /\ x # h
      BY <1>0, <1>1, <1>2, <3>1, <3>5 DEF Linked
    <3>6. n # q => /\ node'[n].prev \in Chained' /\ node'[n].prev < n
                   /\ node'[node'[n].prev].next = n
      BY <1>5, <2>2, <3>1, <3>5
    <3>7. n # tail => \A m \in Chained' : m <= n \/ node'[n].next <= m
      BY <1>0, <1>5, <3>1 DEF NoneBetween
    <3> QED
      BY <2>2, <3>2, <3>4, <3>6, <3>7
  <2>6. tail # NULL /\ q # NULL
    BY <1>0, <1>1, <1>8 DEF Linked
  <2> QED
    BY <2>3, <2>4, <2>5, <2>6 DEF Linked, NoneBetween
<1> QED
  BY <1>5, <1>7, <1>8

LEMMA TailStep ==
    ASSUME IndInv, TypeOK', OneInside', NEW t \in Threads, PopTail(t)
    PROVE  Counted' /\ Linked' /\ InHand' /\ NoneBetween'
<1>0. TypeOK /\ Linked /\ NoneBetween
  BY DEF IndInv, ChainWellLinked
<1>1. PICK h \in Chained : h = tail /\ h # NULL /\ h \in DOMAIN node
  BY <1>0 DEF PopTail, Linked, Chained
<1>2. PICK q \in Nat : q = node[h].prev
  BY <1>0, <1>1 DEF TypeOK, NodeType
<1>3. /\ head' = IF q # NULL THEN head ELSE NULL
      /\ tail' = IF q # NULL THEN q ELSE NULL
      /\ q # NULL => node' = TailOff(q)
      /\ DOMAIN node' = DOMAIN node
  BY <1>1, <1>2 DEF PopTail, LastOne, TailOff
<1>5. Counted' /\ InHand' /\ Chained' = Chained \ {h} /\ Chained = DOMAIN node
  <2>1. \A n \in Chained : n \in Nat
    BY <1>0 DEF Chained, TypeOK
  <2>2. \A n \in Chained \ {h} : n < h
    BY <1>0, <1>1, <2>1 DEF Linked
  <2>3. kind # "queue"
    BY DEF PopTail
  <2> QED
    BY <1>1, <1>3, <2>2, <2>3, Taken DEF PopTail
<1>6. \A n \in Chained : n \in Nat /\ n # NULL
  BY <1>0, <1>5 DEF TypeOK, NULL
<1>7. ASSUME q = NULL PROVE Linked' /\ NoneBetween'
  <2>1. h = head
    BY <1>0, <1>1, <1>2, <1>6, <1>7 DEF Linked
  <2>2. Chained = {h}
    BY <1>0, <1>1, <1>6, <2>1 DEF Linked
  <2> QED
    BY <1>3, <1>5, <1>7, <2>2 DEF Linked, NoneBetween
<1>8. ASSUME q # NULL PROVE Linked' /\ NoneBetween'
  <2>1. h # head /\ q \in Chained /\ q < h /\ node[q].next = h
    BY <1>0, <1>1, <1>2, <1>8 DEF Linked
  <2>2. /\ node'[q].next = NULL /\ node'[q].prev = node[q].prev
        /\ \A n \in DOMAIN node \ {q, h} : node'[n] = node[n]
    BY <1>0, <1>1, <1>3, <1>5, <1>6, <1>8, <2>1, TailEffect
  <2>3. head' = head /\ tail' = q /\ head \in Chained' /\ q \in Chained'
    BY <1>0, <1>1, <1>3, <1>5, <1>6, <1>8, <2>1 DEF Linked
  <2>4. \A n \in Chained' : head <= n /\ n <= q
    BY <1>0, <1>1, <1>2, <1>5, <1>6, <2>1 DEF Linked, NoneBetween
  <2>5. ASSUME NEW n \in Chained'
        PROVE  /\ IF n = q THEN node'[n].next = NULL
                  ELSE /\ node'[n].next \in Chained' /\ n < node'[n].next
                       /\ node'[node'[n].next].prev = n
               /\ IF n = head THEN node'[n].prev = NULL
                  ELSE /\ node'[n].prev \in Chained' /\ node'[n].prev < n
                       /\ node'[node'[n].prev].next = n
               /\ n # q => \A m \in Chained' : m <= n \/ node'[n].next <= m
    <3>1. n \in Chained /\ n # h /\ n \in DOMAIN node /\ node'[n].prev = node[n].prev
          /\ (n # q => node'[n].next = node[n].next)
      BY <1>5, <2>2
    <3>2. n = head => node'[n].prev = NULL
      BY <1>0, <3>1 DEF Linked
    <3>3. ASSUME n # q
          PROVE  \E x \in Chained : x = node[n].next /\ n < x /\ node[x].prev = n /\ x # h
      BY <1>0, <1>1, <1>2, <3>1, <3>3 DEF Linked
    <3>4. n # q => /\ node'[n].next \in Chained' /\ n < node'[n].next
                   /\ node'[node'[n].next].prev = n
      BY <1>5, <2>2, <3>1, <3>3
    <3>5. ASSUME n # head
          PROVE  \E x \in Chained : x = node[n].prev /\ x < n /\ node[x].next = n /\ x # h /\ x # q
      BY <1>0, <1>1, <1>6, <2>1, <3>1, <3>5 DEF Linked
    <3>6. n # head => /\ node'[n].prev \in Chained' /\ node'[n].prev < n
                      /\ node'[node'[n].prev].next = n
      BY <1>5, <2>2, <3>1, <3>5
    <3>7. n # q => \A m \in Chained' : m <= n \/ node'[n].next <= m
      BY <1>0, <1>1, <1>5, <3>1 DEF NoneBetween
    <3> QED
      BY <2>2, <3>2, <3>4, <3>6, <3>7
  <2>6. head # NULL /\ q # NULL
    BY <1>0, <1>1, <1>8 DEF Linked
  <2> QED
    BY <2>3, <2>4, <2>5, <2>6 DEF Linked, NoneBetween
<1> QED
  BY <1>5, <1>7, <1>8

(* The node taken out is counted out and freed. *)
LEMMA FreeStep ==
    ASSUME IndInv, TypeOK', OneInside', NEW t \in Threads, PopFree(t)
    PROVE  Counted' /\ Linked' /\ InHand' /\ NoneBetween'
<1>0. TypeOK /\ Counted /\ Linked /\ NoneBetween
  BY DEF IndInv, ChainWellLinked
<1>1. PICK q \in DOMAIN node : q = p[t]
  BY DEF PopFree, IndInv, InHand
<1>2. pc[t] = "free" /\ t \in mutex /\ mutex' = mutex /\ pc'[t] = "unlock"
  BY <1>0 DEF PopFree, Goto, TypeOK, IndInv, OneInside, Inside
<1>3. Loose = {q} /\ Uncounted = {} /\ Loose' = {} /\ Uncounted' = {}
  BY <1>1, <1>2, Hands
<1>4. /\ DOMAIN node' = DOMAIN node \ {q} /\ \A n \in DOMAIN node \ {q} : node'[n] = node[n]
      /\ UNCHANGED <<nMaxSize, head, tail, alive>> /\ size' = size - 1
      /\ memUsage' = memUsage - NodeSize
  BY <1>1 DEF PopFree, vnode_destroy, CountLess, created
<1>5. Chained' = DOMAIN node' /\ Chained' = Chained /\ Stored = DOMAIN node /\ Stored' = DOMAIN node'
  BY <1>3, <1>4 DEF Chained, Stored
<1>6. Counted'
  <2>1. Cardinality(DOMAIN node') = Cardinality(DOMAIN node) - 1 /\ Cardinality(DOMAIN node) \in Nat
    BY <1>0, <1>4, NodesFinite, FS_RemoveElement, FS_CardinalityType
  <2>2. nMaxSize \in Int /\ size \in Int
    BY <1>0, SettingsAssumption DEF TypeOK
  <2>3. size' = Cardinality(Stored') /\ (nMaxSize' >= 0 => size' <= nMaxSize')
    BY <1>0, <1>4, <1>5, <2>1, <2>2 DEF Counted
  <2>4. memUsage' = (IF alive' THEN HeaderSize ELSE 0) + NodeSize * Cardinality(DOMAIN node')
    BY <1>0, <1>4, <2>1 DEF Counted, HeaderSize, NodeSize
  <2> QED
    BY <2>3, <2>4 DEF Counted
<1>7. \A n \in Chained : node'[n] = node[n]
  BY <1>4, <1>5
<1>8. Linked' /\ NoneBetween'
  BY <1>0, <1>4, <1>5, <1>7 DEF Linked, NoneBetween
<1>9. InHand'
  BY <1>2, Hands DEF InHand
<1> QED
  BY <1>6, <1>8, <1>9

(* The header is freed, the nodes stay. *)
LEMMA DestroyStep ==
    ASSUME IndInv, Destroy
    PROVE  Counted' /\ Linked' /\ InHand' /\ NoneBetween'
<1>0. TypeOK /\ Counted /\ Linked /\ NoneBetween
  BY DEF IndInv, ChainWellLinked
<1>1. UNCHANGED <<node, nMaxSize, head, tail, size, pc, p>>
  BY DEF Destroy, listVars, created
<1>2. Chained' = Chained /\ Stored' = Stored
  BY <1>1 DEF Chained, Loose, Stored, Uncounted
<1>3. alive = TRUE /\ alive' = FALSE /\ memUsage' = memUsage - HeaderSize
  BY <1>0 DEF Destroy, TypeOK
<1>4. Cardinality(DOMAIN node) \in Nat
  BY <1>0, NodesFinite, FS_CardinalityType
<1>5. Counted'
  BY <1>0, <1>1, <1>2, <1>3, <1>4 DEF Counted, HeaderSize, NodeSize
<1>6. Linked' /\ NoneBetween'
  BY <1>0, <1>1, <1>2 DEF Linked, NoneBetween
<1>7. InHand'
  BY DEF InHand, IndInv, Destroy, Done
<1> QED
  BY <1>5, <1>6, <1>7

(* A result is given where a call ends, and taken back on the return. *)
LEMMA StepResult ==
    ASSUME IndInv, [Next]_vars
    PROVE  NoResultYet'
<1>0. pc \in [Threads -> Labels] /\ result \in [Threads -> Int] /\ NoResultYet
  BY DEF IndInv, ChainWellLinked, TypeOK
<1>1. ASSUME NEW t \in Threads, Thread(t) PROVE NoResultYet'
  <2>1. \A u \in Threads \ {t} : pc'[u] = pc[u] /\ result'[u] = result[u]
    BY <1>0, <1>1 DEF Thread, Shared, Push, vqueue_pop, vstack_pop, Goto, Fail, Call, Lock, GetSize, Unlock,
         Return, PushFull, PushNoMemory, PushCreate, PushLink, PushCount, PopFree, PopHead, PopTail,
         PopNoHead, PopNoTail, PopEmpty
  <2>2. pc'[t] \notin {"unlock", "return"} => result'[t] = NoNumber
    BY <1>0, <1>1 DEF Thread, Shared, Push, vqueue_pop, vstack_pop, Goto, Fail, Call, Lock, GetSize, Unlock,
         Return, PushFull, PushNoMemory, PushCreate, PushLink, PushCount, PopFree, PopHead, PopTail,
         PopNoHead, PopNoTail, PopEmpty, NoResultYet
  <2> QED
    BY <1>0, <2>1, <2>2 DEF NoResultYet
<1> QED
  BY <1>0, <1>1 DEF Next, Destroy, Ended, vars, NoResultYet

LEMMA StepInvariant == IndInv /\ [Next]_vars => IndInv'
<1> SUFFICES ASSUME IndInv, [Next]_vars PROVE IndInv'
  OBVIOUS
<1>1. TypeOK' /\ OneInside'
  BY StepType, StepInside
<1>2. ASSUME NEW t \in Threads, Thread(t)
      PROVE  Counted' /\ Linked' /\ InHand' /\ NoneBetween'
  BY <1>1, <1>2, QuietStep, CreateStep, LinkStep, CountStep, HeadStep, TailStep, FreeStep
  DEF Thread, Shared, Push, vqueue_pop, vstack_pop, PopNoHead, PopNoTail
<1>4. Counted' /\ Linked' /\ InHand' /\ NoneBetween'
  <2>1. ASSUME UNCHANGED vars PROVE Counted' /\ Linked' /\ InHand' /\ NoneBetween'
    BY <2>1, Same DEF vars
  <2> QED
    BY <1>2, <2>1, DestroyStep DEF Next, Ended
<1> QED
  BY <1>1, <1>4, StepResult DEF IndInv, ChainWellLinked

LEMMA Invariance == Spec => []IndInv
  BY InitInvariant, StepInvariant, PTL DEF Spec

(* Whatever the threads push, pop and ask at once, the chain of a queue    *)
(* and of a stack is a doubly linked list of exactly its nodes from head   *)
(* to tail in the order of the pushes, the size is the number of items and *)
(* never over the capacity, and the memory accounting exact                *)
(* (vutil.c:1223-1302, 1354-1431).                                         *)
THEOREM ChainCorrect == Spec => []ChainWellLinked
  BY Invariance, PTL DEF IndInv

(* One thread at a time is inside, and what it has in hand is a node that  *)
(* is new, or the tail that is not counted and for which there is room, or *)
(* taken out (vutil.c:1229-1262, 1276-1302).                               *)
THEOREM OneAtATime == Spec => []IndInv
  BY Invariance

------------------------------------------------------------------------------
(***************************************************************************)
(* The items in the order of the nodes: a node's place is the number of    *)
(* stored nodes up to it.                                                  *)
(***************************************************************************)
RankIn(S, n) == Cardinality({m \in S : m <= n})

LEMMA RankBounds ==
    ASSUME NEW S, IsFiniteSet(S), S \subseteq Nat, NEW n \in S
    PROVE  RankIn(S, n) \in 1 .. Cardinality(S) /\ Cardinality(S) \in Nat
<1> DEFINE U == {m \in S : m <= n}
<1>1. U \subseteq S /\ n \in U
  OBVIOUS
<1>2. IsFiniteSet(U) /\ Cardinality(U) <= Cardinality(S) /\ Cardinality(U) \in Nat /\ Cardinality(S) \in Nat
  BY <1>1, FS_Subset, FS_CardinalityType
<1>3. Cardinality(U) # 0
  BY <1>1, <1>2, FS_EmptySet
<1> QED
  BY <1>2, <1>3 DEF RankIn

LEMMA RankMonotone ==
    ASSUME NEW S, IsFiniteSet(S), S \subseteq Nat, NEW a \in S, NEW b \in S, a < b
    PROVE  RankIn(S, a) < RankIn(S, b)
<1> DEFINE U == {m \in S : m <= a}
           W == {m \in S : m <= b}
<1>1. U \subseteq W /\ b \in W /\ b \notin U /\ W \subseteq S
  <2>1. \A m \in S : m <= a => m <= b
    OBVIOUS
  <2>2. b <= b /\ ~(b <= a)
    OBVIOUS
  <2> QED
    BY <2>1, <2>2
<1>2. IsFiniteSet(W) /\ IsFiniteSet(U)
  BY <1>1, FS_Subset
<1>3. Cardinality(U) < Cardinality(W)
  <2>1. U \subseteq W \ {b}
    BY <1>1
  <2>2. IsFiniteSet(W \ {b}) /\ Cardinality(W \ {b}) = Cardinality(W) - 1
    BY <1>1, <1>2, FS_RemoveElement
  <2>3. Cardinality(U) <= Cardinality(W \ {b})
    BY <2>1, <2>2, FS_Subset
  <2>4. Cardinality(U) \in Nat /\ Cardinality(W) \in Nat
    BY <1>2, FS_CardinalityType
  <2> QED
    BY <2>2, <2>3, <2>4
<1> QED
  BY <1>3 DEF RankIn

(* A node behind all others has the last place, and takes nobody's. *)
LEMMA RankAppend ==
    ASSUME NEW S, IsFiniteSet(S), S \subseteq Nat, NEW q \in Nat, \A n \in S : n < q
    PROVE  /\ \A n \in S : RankIn(S \cup {q}, n) = RankIn(S, n)
           /\ RankIn(S \cup {q}, q) = Cardinality(S) + 1
           /\ Cardinality(S \cup {q}) = Cardinality(S) + 1
<1>1. \A n \in S : {m \in S \cup {q} : m <= n} = {m \in S : m <= n}
  OBVIOUS
<1>2. {m \in S \cup {q} : m <= q} = S \cup {q}
  <2>1. \A m \in S \cup {q} : m <= q
    OBVIOUS
  <2> QED
    BY <2>1
<1>3. Cardinality(S \cup {q}) = Cardinality(S) + 1
  BY FS_AddElement
<1> QED
  BY <1>1, <1>2, <1>3 DEF RankIn

(* The first node leaves: everybody moves up by one place. *)
LEMMA RankTail ==
    ASSUME NEW S, IsFiniteSet(S), S \subseteq Nat, NEW q \in S, \A n \in S \ {q} : q < n
    PROVE  /\ \A n \in S \ {q} : RankIn(S \ {q}, n) = RankIn(S, n) - 1
           /\ RankIn(S, q) = 1
<1>1. ASSUME NEW n \in S \ {q} PROVE RankIn(S \ {q}, n) = RankIn(S, n) - 1
  <2> DEFINE U == {m \in S : m <= n}
             W == {m \in S \ {q} : m <= n}
  <2>1. W = U \ {q} /\ q \in U /\ U \subseteq S
    OBVIOUS
  <2>2. IsFiniteSet(U)
    BY <2>1, FS_Subset
  <2>3. Cardinality(W) = Cardinality(U) - 1
    BY <2>1, <2>2, FS_RemoveElement, SMTT(20)
  <2> QED
    BY <2>3 DEF RankIn
<1>2. {m \in S : m <= q} = {q}
  <2>1. \A m \in S : m <= q <=> m = q
    OBVIOUS
  <2> QED
    BY <2>1
<1>3. RankIn(S, q) = 1
  BY <1>2, FS_Singleton DEF RankIn
<1> QED
  BY <1>1, <1>3

(* The last node leaves. *)
LEMMA RankFront ==
    ASSUME NEW S, IsFiniteSet(S), S \subseteq Nat, NEW q \in S, \A n \in S \ {q} : n < q
    PROVE  /\ \A n \in S \ {q} : RankIn(S \ {q}, n) = RankIn(S, n)
           /\ RankIn(S, q) = Cardinality(S)
<1>1. ASSUME NEW n \in S \ {q} PROVE RankIn(S \ {q}, n) = RankIn(S, n)
  <2>1. {m \in S \ {q} : m <= n} = {m \in S : m <= n}
    OBVIOUS
  <2> QED
    BY <2>1 DEF RankIn
<1>2. {m \in S : m <= q} = S
  <2>1. \A m \in S : m <= q
    OBVIOUS
  <2> QED
    BY <2>1
<1> QED
  BY <1>1, <1>2 DEF RankIn

(* Every place is taken. *)
RanksFull == \A k \in 1 .. Cardinality(Stored) : \E n \in Stored : Rank(n) = k

Places ==
    /\ IsFiniteSet(Stored) /\ Stored \subseteq Nat /\ Stored \subseteq DOMAIN node
    /\ Cardinality(Stored) \in Nat
    /\ \A n \in Stored : Rank(n) = RankIn(Stored, n) /\ Rank(n) \in 1 .. Cardinality(Stored)
    /\ \A a, b \in Stored : Rank(a) = Rank(b) => a = b

LEMMA PlacesFacts == IndInv => Places
<1> SUFFICES ASSUME IndInv PROVE Places
  OBVIOUS
<1>0. TypeOK
  BY DEF IndInv, ChainWellLinked
<1>1. Stored \subseteq DOMAIN node /\ DOMAIN node \subseteq Nat
  BY <1>0 DEF Stored, TypeOK
<1>2. IsFiniteSet(Stored) /\ Cardinality(Stored) \in Nat
  BY <1>0, <1>1, NodesFinite, FS_Subset, FS_CardinalityType
<1>3. \A n \in Stored : Rank(n) = RankIn(Stored, n)
  BY DEF Rank, RankIn
<1>4. \A n \in Stored : Rank(n) \in 1 .. Cardinality(Stored)
  BY <1>1, <1>2, <1>3, RankBounds
<1>5. ASSUME NEW a \in Stored, NEW b \in Stored, a # b PROVE Rank(a) # Rank(b)
  <2>1. a \in Nat /\ b \in Nat /\ Rank(a) \in Int /\ Rank(b) \in Int
    BY <1>1, <1>4
  <2>2. Stored \subseteq Nat
    BY <1>1
  <2>3. a < b => RankIn(Stored, a) < RankIn(Stored, b)
    BY <1>2, <2>2, RankMonotone
  <2>4. b < a => RankIn(Stored, b) < RankIn(Stored, a)
    BY <1>2, <2>2, RankMonotone
  <2>5. Rank(a) = RankIn(Stored, a) /\ Rank(b) = RankIn(Stored, b)
    BY <1>3
  <2> QED
    BY <1>5, <2>1, <2>3, <2>4, <2>5
<1> QED
  BY <1>1, <1>2, <1>3, <1>4, <1>5 DEF Places

LEMMA PlacesFactsNext == IndInv' => Places'
BY PlacesFacts, PTL

(* The k-th item is that of the k-th node. *)
NthExact == \A k \in 1 .. Cardinality(Stored) : Nth(k) \in Stored /\ Rank(Nth(k)) = k

LEMMA NthFacts == RanksFull => NthExact
BY DEF RanksFull, NthExact, Nth

LEMMA NthFactsNext == RanksFull' => NthExact'
BY NthFacts, PTL

(* What the sequence is made of. *)
ItemsExact ==
    /\ storedItems \in Seq(Items)
    /\ Len(storedItems) = Cardinality(Stored)
    /\ \A n \in Stored : storedItems[Rank(n)] = node[n].arg
    /\ \A k \in 1 .. Cardinality(Stored) : \E n \in Stored : Rank(n) = k

LEMMA ItemsFacts == IndInv /\ RanksFull => ItemsExact
<1> SUFFICES ASSUME IndInv, RanksFull PROVE ItemsExact
  OBVIOUS
<1>0. TypeOK /\ Places /\ NthExact
  BY PlacesFacts, NthFacts DEF IndInv, ChainWellLinked
<1>1. \A n \in Stored : node[n].arg \in Items
  BY <1>0 DEF Places, TypeOK, NodeType
<1>2. \A k \in 1 .. Cardinality(Stored) : node[Nth(k)].arg \in Items
  BY <1>0, <1>1 DEF NthExact
<1>3. storedItems \in [1 .. Cardinality(Stored) -> Items]
  BY <1>2 DEF storedItems
<1>4. storedItems \in Seq(Items) /\ Len(storedItems) = Cardinality(Stored)
  BY <1>0, <1>3 DEF Places
<1>5. ASSUME NEW n \in Stored PROVE storedItems[Rank(n)] = node[n].arg
  <2>1. Rank(n) \in 1 .. Cardinality(Stored)
    BY <1>0 DEF Places
  <2>2. Nth(Rank(n)) \in Stored /\ Rank(Nth(Rank(n))) = Rank(n)
    BY <1>0, <2>1 DEF NthExact
  <2>3. Nth(Rank(n)) = n
    BY <1>0, <2>2 DEF Places
  <2>4. storedItems[Rank(n)] = node[Nth(Rank(n))].arg
    BY <2>1 DEF storedItems
  <2> QED
    BY <2>3, <2>4
<1> QED
  BY <1>4, <1>5 DEF ItemsExact, RanksFull

LEMMA ItemsFactsNext == IndInv' /\ RanksFull' => ItemsExact'
BY ItemsFacts, PTL

(* The sequence stays, grows at the end, loses its first or its last item, *)
(* as the set of stored nodes does.                                        *)
LEMMA SequenceSame ==
    ASSUME IndInv, RanksFull, IndInv',
           Stored' = Stored, \A n \in Stored : node'[n].arg = node[n].arg
    PROVE  RanksFull' /\ storedItems' = storedItems
<1>0. Places /\ Places' /\ ItemsExact
  BY PlacesFacts, PlacesFactsNext, ItemsFacts
<1>1. \A n \in Stored : Rank(n)' = Rank(n)
  BY <1>0 DEF Places
<1>2. RanksFull'
  BY <1>1 DEF RanksFull
<1>3. ItemsExact'
  BY <1>2, ItemsFactsNext
<1>4. \A k \in 1 .. Cardinality(Stored) : storedItems'[k] = storedItems[k]
  BY <1>0, <1>1, <1>3 DEF ItemsExact
<1> QED
  BY <1>0, <1>2, <1>3, <1>4, SeqEqual DEF ItemsExact

LEMMA SequenceAppend ==
    ASSUME IndInv, RanksFull, IndInv', NEW q \in Nat,
           Stored' = Stored \cup {q}, \A n \in Stored : n < q /\ node'[n].arg = node[n].arg
    PROVE  /\ RanksFull' /\ storedItems' = Append(storedItems, node'[q].arg)
           /\ Cardinality(Stored') = Cardinality(Stored) + 1
<1>0. Places /\ Places' /\ ItemsExact
  BY PlacesFacts, PlacesFactsNext, ItemsFacts
<1> DEFINE c == Cardinality(Stored)
<1>1. /\ \A n \in Stored : RankIn(Stored', n) = RankIn(Stored, n)
      /\ RankIn(Stored', q) = c + 1 /\ Cardinality(Stored') = c + 1
  BY <1>0, RankAppend DEF Places
<1>2. c \in Nat /\ q \in Stored' /\ Stored \subseteq Stored'
  BY <1>0 DEF Places
<1>3. (\A n \in Stored : Rank(n)' = Rank(n)) /\ Rank(q)' = c + 1
  <2>1. \A n \in Stored' : Rank(n)' = RankIn(Stored', n)
    BY <1>0 DEF Places
  <2>2. \A n \in Stored : Rank(n) = RankIn(Stored, n)
    BY <1>0 DEF Places
  <2> QED
    BY <1>1, <1>2, <2>1, <2>2
<1>4. RanksFull'
  <2>1. ASSUME NEW k \in 1 .. c + 1 PROVE \E n \in Stored' : Rank(n)' = k
    <3>1. CASE k = c + 1
      BY <1>2, <1>3, <3>1
    <3>2. CASE k # c + 1
      <4>1. k \in 1 .. c
        BY <1>2, <3>2
      <4>2. PICK n \in Stored : Rank(n) = k
        BY <4>1 DEF RanksFull
      <4> QED
        BY <1>2, <1>3, <4>2
    <3> QED
      BY <3>1, <3>2
  <2> QED
    BY <1>1, <2>1 DEF RanksFull
<1>5. ItemsExact'
  BY <1>4, ItemsFactsNext
<1> DEFINE x == node'[q].arg
           s == Append(storedItems, x)
<1>6. x \in Items /\ s \in Seq(Items) /\ Len(s) = c + 1 /\ s[c + 1] = x
      /\ \A k \in 1 .. c : s[k] = storedItems[k]
  <2>1. x \in Items
    BY <1>0, <1>2 DEF Places, IndInv, ChainWellLinked, TypeOK, NodeType
  <2>2. storedItems \in Seq(Items) /\ Len(storedItems) = c
    BY <1>0 DEF ItemsExact
  <2> QED
    BY <1>2, <2>1, <2>2
<1>7. storedItems'[c + 1] = x
  BY <1>2, <1>3, <1>5 DEF ItemsExact
<1>8. ASSUME NEW k \in 1 .. c PROVE storedItems'[k] = storedItems[k]
  <2>1. PICK n \in Stored : Rank(n) = k
    BY <1>8 DEF RanksFull
  <2>2. storedItems[k] = node[n].arg
    BY <1>0, <2>1 DEF ItemsExact
  <2>3. storedItems'[k] = node'[n].arg
    BY <1>2, <1>3, <1>5, <2>1 DEF ItemsExact
  <2> QED
    BY <2>2, <2>3
<1>9. \A k \in 1 .. c + 1 : storedItems'[k] = s[k]
  BY <1>2, <1>6, <1>7, <1>8
<1>10. storedItems' \in Seq(Items) /\ Len(storedItems') = c + 1
  BY <1>1, <1>5 DEF ItemsExact
<1> HIDE DEF s
<1>11. storedItems' = s
  BY <1>6, <1>9, <1>10, SeqEqual
<1> QED
  BY <1>1, <1>4, <1>11 DEF s

LEMMA SequenceTail ==
    ASSUME IndInv, RanksFull, IndInv', NEW q \in Stored,
           Stored' = Stored \ {q}, \A n \in Stored \ {q} : q < n /\ node'[n].arg = node[n].arg
    PROVE  /\ RanksFull' /\ storedItems # <<>>
           /\ Head(storedItems) = node[q].arg /\ storedItems' = Tail(storedItems)
<1>0. Places /\ Places' /\ ItemsExact
  BY PlacesFacts, PlacesFactsNext, ItemsFacts
<1> DEFINE c == Cardinality(Stored)
<1>1. /\ \A n \in Stored \ {q} : RankIn(Stored', n) = RankIn(Stored, n) - 1
      /\ RankIn(Stored, q) = 1
  BY <1>0, RankTail DEF Places
<1>2. c \in Nat /\ c >= 1 /\ Cardinality(Stored') = c - 1
  BY <1>0, FS_RemoveElement DEF Places
<1>3. (\A n \in Stored' : Rank(n)' = Rank(n) - 1) /\ Rank(q) = 1
  BY <1>0, <1>1 DEF Places
<1>4. ASSUME NEW k \in 1 .. c - 1 PROVE \E n \in Stored' : Rank(n) = k + 1 /\ Rank(n)' = k
  <2>1. k + 1 \in 1 .. c /\ k + 1 # 1 /\ k \in Int
    BY <1>2
  <2>2. PICK n \in Stored : Rank(n) = k + 1
    BY <2>1 DEF RanksFull
  <2>3. n \in Stored'
    BY <1>3, <2>1, <2>2
  <2> QED
    BY <1>3, <2>1, <2>2, <2>3
<1>5. RanksFull'
  BY <1>2, <1>4 DEF RanksFull
<1>6. ItemsExact'
  BY <1>5, ItemsFactsNext
<1>7. storedItems \in Seq(Items) /\ Len(storedItems) = c /\ storedItems # <<>>
  BY <1>0, <1>2 DEF ItemsExact
<1>8. Head(storedItems) = node[q].arg
  <2>1. storedItems[1] = node[q].arg
    BY <1>0, <1>3 DEF ItemsExact
  <2> QED
    BY <1>7, <2>1
<1> DEFINE s == Tail(storedItems)
<1>9. s \in Seq(Items) /\ Len(s) = c - 1 /\ \A k \in 1 .. c - 1 : s[k] = storedItems[k + 1]
  BY <1>2, <1>7, HeadTailProperties
<1>10. ASSUME NEW k \in 1 .. c - 1 PROVE storedItems'[k] = storedItems[k + 1]
  <2>1. PICK n \in Stored' : Rank(n) = k + 1 /\ Rank(n)' = k
    BY <1>4
  <2>2. storedItems[k + 1] = node[n].arg
    BY <1>0, <2>1 DEF ItemsExact
  <2>3. storedItems'[k] = node'[n].arg
    BY <1>6, <2>1 DEF ItemsExact
  <2> QED
    BY <2>1, <2>2, <2>3
<1>11. storedItems' \in Seq(Items) /\ Len(storedItems') = c - 1
  BY <1>2, <1>6 DEF ItemsExact
<1> HIDE DEF s
<1>12. storedItems' = s
  BY <1>9, <1>10, <1>11, SeqEqual
<1> QED
  BY <1>5, <1>7, <1>8, <1>12 DEF s

LEMMA SequenceFront ==
    ASSUME IndInv, RanksFull, IndInv', NEW q \in Stored,
           Stored' = Stored \ {q}, \A n \in Stored \ {q} : n < q /\ node'[n].arg = node[n].arg
    PROVE  /\ RanksFull' /\ storedItems # <<>>
           /\ storedItems[Len(storedItems)] = node[q].arg
           /\ storedItems' = SubSeq(storedItems, 1, Len(storedItems) - 1)
<1>0. Places /\ Places' /\ ItemsExact
  BY PlacesFacts, PlacesFactsNext, ItemsFacts
<1> DEFINE c == Cardinality(Stored)
<1>1. /\ \A n \in Stored \ {q} : RankIn(Stored', n) = RankIn(Stored, n)
      /\ RankIn(Stored, q) = c
  BY <1>0, RankFront, ZenonT(30) DEF Places
<1>2. c \in Nat /\ c >= 1 /\ Cardinality(Stored') = c - 1
  BY <1>0, FS_RemoveElement DEF Places
<1>3. (\A n \in Stored' : Rank(n)' = Rank(n)) /\ Rank(q) = c
  BY <1>0, <1>1 DEF Places
<1>4. ASSUME NEW k \in 1 .. c - 1 PROVE \E n \in Stored' : Rank(n) = k /\ Rank(n)' = k
  <2>1. k \in 1 .. c /\ k # c
    BY <1>2
  <2>2. PICK n \in Stored : Rank(n) = k
    BY <2>1 DEF RanksFull
  <2>3. n \in Stored'
    BY <1>3, <2>1, <2>2
  <2> QED
    BY <1>3, <2>2, <2>3
<1>5. RanksFull'
  BY <1>2, <1>4 DEF RanksFull
<1>6. ItemsExact'
  BY <1>5, ItemsFactsNext
<1>7. storedItems \in Seq(Items) /\ Len(storedItems) = c /\ storedItems # <<>>
  BY <1>0, <1>2 DEF ItemsExact
<1>8. storedItems[Len(storedItems)] = node[q].arg
  BY <1>0, <1>3, <1>7 DEF ItemsExact
<1> DEFINE s == SubSeq(storedItems, 1, c - 1)
<1>9. s \in Seq(Items) /\ Len(s) = c - 1 /\ \A k \in 1 .. c - 1 : s[k] = storedItems[k]
  <2>1. \A k \in 1 .. c - 1 : storedItems[k] \in Items
    BY <1>2, <1>7
  <2>2. /\ s \in Seq(Items) /\ Len(s) = IF 1 <= c - 1 THEN (c - 1) - 1 + 1 ELSE 0
        /\ \A k \in 1 .. (c - 1) - 1 + 1 : s[k] = storedItems[1 + k - 1]
    BY <1>2, <2>1, SubSeqProperties
  <2> QED
    BY <1>2, <2>2
<1>10. ASSUME NEW k \in 1 .. c - 1 PROVE storedItems'[k] = storedItems[k]
  <2>1. PICK n \in Stored' : Rank(n) = k /\ Rank(n)' = k
    BY <1>4
  <2>2. storedItems[k] = node[n].arg
    BY <1>0, <2>1 DEF ItemsExact
  <2>3. storedItems'[k] = node'[n].arg
    BY <1>6, <2>1 DEF ItemsExact
  <2> QED
    BY <2>1, <2>2, <2>3
<1>11. storedItems' \in Seq(Items) /\ Len(storedItems') = c - 1
  BY <1>2, <1>6 DEF ItemsExact
<1> HIDE DEF s
<1>12. storedItems' = s
  BY <1>9, <1>10, <1>11, SeqEqual
<1> QED
  BY <1>5, <1>7, <1>8, <1>12 DEF s

------------------------------------------------------------------------------
(* The steps of the threads as steps of BoundedSequence. *)

(* What a call looks like from outside, by where it is. *)
OpExact ==
    \A t \in Threads :
        /\ pc[t] = "idle" => Op(t) = [do |-> "none"]
        /\ pc[t] \in {"push", "test", "link", "count"} => Op(t) = [do |-> "push"]
        /\ pc[t] \in {"pop", "take", "free"} => Op(t) = [do |-> "pop"]
        /\ pc[t] = "getSize" => Op(t) = [do |-> "getSize"]
        /\ pc[t] \in {"unlock", "return"} /\ result[t] # NoNumber =>
             Op(t) = [do |-> "number", value |-> result[t]]
        /\ pc[t] \in {"unlock", "return"} /\ result[t] = NoNumber =>
             Op(t) = [do |-> "item", value |-> item[t]]

LEMMA OpFacts == OpExact
BY DEF OpExact, Op

LEMMA OpFactsNext == OpExact'
BY OpFacts, PTL

(* A step of one thread leaves the calls of the others alone. *)
LEMMA OthersKeepOp ==
    ASSUME IndInv, NEW t \in Threads, Thread(t), NEW u \in Threads, u # t
    PROVE  Op(u)' = Op(u)
<1>0. /\ pc \in [Threads -> Labels] /\ result \in [Threads -> Int]
      /\ item \in [Threads -> Items \cup {NoItem}]
  BY DEF IndInv, ChainWellLinked, TypeOK
<1>1. pc'[u] = pc[u] /\ result'[u] = result[u] /\ item'[u] = item[u]
  BY <1>0 DEF Thread, Shared, Push, vqueue_pop, vstack_pop, Goto, Fail, Call, Lock, GetSize, Unlock,
         Return, PushFull, PushNoMemory, PushCreate, PushLink, PushCount, PopFree, PopHead, PopTail,
         PopNoHead, PopNoTail, PopEmpty
<1>2. pc[u] \in Labels
  BY <1>0
<1> QED
  BY <1>1, <1>2, OpFacts, OpFactsNext DEF OpExact, Labels

LEMMA OpChange ==
    ASSUME NEW t \in Threads, NEW v, Op(t)' = v,
           \A u \in Threads \ {t} : Op(u)' = Op(u)
    PROVE  operation' = [operation EXCEPT ![t] = v]
BY DEF operation

LEMMA OpSame ==
    ASSUME \A t \in Threads : Op(t)' = Op(t)
    PROVE  operation' = operation
BY DEF operation

(* A step that stores and takes away nothing. *)
LEMMA StoreSame ==
    ASSUME IndInv, RanksFull, IndInv', UNCHANGED <<listVars, p>>,
           \A u \in Threads : \/ pc'[u] = pc[u]
                              \/ {pc[u], pc'[u]} \cap {"link", "count"} = {}
    PROVE  RanksFull' /\ storedItems' = storedItems
<1>1. Uncounted' = Uncounted
  BY DEF Uncounted
<1>2. Stored' = Stored /\ node' = node
  BY <1>1 DEF Stored, listVars
<1> QED
  BY <1>2, SequenceSame

LEMMA QuietImplements ==
    ASSUME IndInv, RanksFull, IndInv', NEW t \in Threads,
           \/ Call(t) \/ Lock(t) \/ GetSize(t) \/ Unlock(t) \/ Return(t)
           \/ PushFull(t) \/ PushNoMemory(t) \/ PopNoHead(t) \/ PopNoTail(t)
    PROVE  RanksFull' /\ [Sequence!Next]_(Sequence!vars)
<1>0. /\ pc \in [Threads -> Labels] /\ result \in [Threads -> Int]
      /\ item \in [Threads -> Items \cup {NoItem}] /\ calls \in [Threads -> 0 .. Calls]
      /\ NoResultYet
  BY DEF IndInv, ChainWellLinked, TypeOK
<1> USE DEF Goto, Fail, Labels, PopNoHead, PopNoTail, PopEmpty
<1>1. RanksFull' /\ storedItems' = storedItems /\ created' = created
  <2>1. UNCHANGED <<listVars, p>>
    BY DEF Call, Lock, GetSize, Unlock, Return, PushFull, PushNoMemory
  <2>2. \A u \in Threads : \/ pc'[u] = pc[u]
                           \/ {pc[u], pc'[u]} \cap {"link", "count"} = {}
    BY <1>0 DEF Call, Lock, GetSize, Unlock, Return, PushFull, PushNoMemory
  <2> QED
    BY <2>1, <2>2, StoreSame DEF listVars
<1>2. \A u \in Threads \ {t} : Op(u)' = Op(u)
  BY OthersKeepOp DEF Thread, Shared, Push, vqueue_pop, vstack_pop
<1>3. operation[t] = Op(t)
  BY DEF operation
<1>4. Len(storedItems) = Cardinality(Stored) /\ size = Cardinality(Stored) /\ size \in Nat
  BY ItemsFacts, PlacesFacts DEF ItemsExact, Places, IndInv, ChainWellLinked, Counted
<1>5. ASSUME Call(t) PROVE Sequence!Call(t)
  <2>1. PICK o \in {"push", "pop", "getSize"} : pc'[t] = o
    BY <1>0, <1>5 DEF Call
  <2>2. Op(t)' = [do |-> o]
    BY <2>1, OpFactsNext DEF OpExact
  <2>3. operation' = [operation EXCEPT ![t] = [do |-> o]]
    BY <1>2, <2>2, OpChange
  <2>4. Op(t) = [do |-> "none"] /\ calls[t] < Calls /\ calls' = calls
    BY <1>5, OpFacts DEF Call, OpExact
  <2> QED
    BY <1>1, <1>3, <2>3, <2>4 DEF Sequence!Call, Sequence!NoOp, Sequence!Called, Sequence!created, created
<1>6. ASSUME Lock(t) \/ Unlock(t) PROVE UNCHANGED Sequence!vars
  <2>1. /\ \/ pc[t] \in {"push"} /\ pc'[t] = "test"
           \/ pc[t] \in {"pop"} /\ pc'[t] = "take"
           \/ pc[t] = "unlock" /\ pc'[t] = "return"
        /\ calls' = calls /\ result' = result /\ item' = item
    BY <1>0, <1>6 DEF Lock, Unlock
  <2>2. Op(t)' = Op(t)
    BY <2>1, OpFacts, OpFactsNext DEF OpExact
  <2>3. operation' = operation
    BY <1>2, <2>2, OpSame
  <2> QED
    BY <1>1, <2>1, <2>3 DEF Sequence!vars, Sequence!created, created
<1>7. ASSUME GetSize(t) PROVE Sequence!DoGetSize(t)
  <2>1. pc[t] = "getSize" /\ pc'[t] = "return" /\ result'[t] = size /\ size # NoNumber /\ calls' = calls
    BY <1>0, <1>4, <1>7 DEF GetSize, NoNumber
  <2>2. Op(t) = [do |-> "getSize"]
    BY <2>1, OpFacts DEF OpExact
  <2>3. Op(t)' = [do |-> "number", value |-> size]
    BY <2>1, OpFactsNext DEF OpExact
  <2>4. operation' = [operation EXCEPT ![t] = [do |-> "number", value |-> Len(storedItems)]]
    BY <1>2, <1>4, <2>3, OpChange
  <2> QED
    BY <1>1, <1>3, <2>1, <2>2, <2>4
    DEF Sequence!DoGetSize, Sequence!Called, Sequence!Number, Sequence!created, created
<1>8. ASSUME PushFull(t) \/ PushNoMemory(t) PROVE Sequence!DoPush(t)
  <2>1. /\ pc[t] = "test" /\ pc'[t] = "unlock" /\ result'[t] = FAIL /\ FAIL # NoNumber /\ calls' = calls
        /\ size = nMaxSize \/ scarce
    BY <1>0, <1>8 DEF PushFull, PushNoMemory, Full, FAIL, NoNumber
  <2>2. Op(t) = [do |-> "push"]
    BY <2>1, OpFacts DEF OpExact
  <2>3. Op(t)' = [do |-> "number", value |-> FAIL]
    BY <2>1, OpFactsNext DEF OpExact
  <2>4. operation' = [operation EXCEPT ![t] = [do |-> "number", value |-> FAIL]]
    BY <1>2, <2>3, OpChange
  <2> QED
    BY <1>1, <1>3, <1>4, <2>1, <2>2, <2>4
    DEF Sequence!DoPush, Sequence!Called, Sequence!Number, Sequence!FAIL, FAIL, Sequence!created, created
<1>9. ASSUME PopNoHead(t) \/ PopNoTail(t) PROVE Sequence!DoPop(t)
  <2>1. /\ pc[t] = "take" /\ pc'[t] = "unlock" /\ result'[t] = NoNumber /\ item'[t] = NoItem
        /\ calls' = calls /\ mutex' = mutex /\ (head = NULL \/ tail = NULL)
    BY <1>0, <1>9 DEF NoResultYet
  <2>2. Op(t) = [do |-> "pop"]
    BY <2>1, OpFacts DEF OpExact
  <2>3. Op(t)' = [do |-> "item", value |-> NoItem]
    BY <2>1, OpFactsNext DEF OpExact
  <2>4. operation' = [operation EXCEPT ![t] = [do |-> "item", value |-> NoItem]]
    BY <1>2, <2>3, OpChange
  <2>5. storedItems = <<>>
    <3>1. Chained = {} /\ Loose = {}
      <4>1. t \in mutex
        BY <2>1 DEF IndInv, OneInside, Inside
      <4>2. Loose = {}
        BY <2>1, <4>1, HandFacts DEF HandExact, IndInv, ChainWellLinked
      <4> QED
        BY <2>1, <4>2 DEF IndInv, ChainWellLinked, Linked
    <3>2. Stored = {}
      BY <3>1 DEF Chained, Stored
    <3>3. Len(storedItems) = 0 /\ storedItems \in Seq(Items)
      BY <1>4, <3>2, ItemsFacts, FS_EmptySet DEF ItemsExact
    <3> QED
      BY <3>3
  <2>6. operation[t] = [do |-> "pop"] /\ UNCHANGED <<kind, nMaxSize, scarce, calls, storedItems>>
    BY <1>1, <1>3, <2>1, <2>2 DEF created
  <2> QED
    BY <2>4, <2>5, <2>6, Zenon
    DEF Sequence!DoPop, Sequence!Called, Sequence!Item, Sequence!created
<1>10. ASSUME Return(t) PROVE Sequence!Return(t)
  <2>1. pc[t] = "return" /\ pc'[t] = "idle" /\ calls' = [calls EXCEPT ![t] = @ + 1]
    BY <1>0, <1>10 DEF Return
  <2>2. Op(t) = [do |-> "number", value |-> result[t]] \/ Op(t) = [do |-> "item", value |-> item[t]]
    BY <2>1, OpFacts DEF OpExact
  <2>3. Op(t)' = [do |-> "none"]
    BY <2>1, OpFactsNext DEF OpExact
  <2>4. operation' = [operation EXCEPT ![t] = [do |-> "none"]]
    BY <1>2, <2>3, OpChange
  <2>5. operation[t].do \in {"number", "item"}
    BY <1>3, <2>2
  <2> QED
    BY <1>1, <2>1, <2>4, <2>5 DEF Sequence!Return, Sequence!NoOp, Sequence!created, created
<1> QED
  BY <1>1, <1>5, <1>6, <1>7, <1>8, <1>9, <1>10 DEF Sequence!Next

(* A node taken out still carries its item, and so do its neighbours. *)
LEMMA HeadKeeps ==
    ASSUME TypeOK, NEW t \in Threads, PopHead(t)
    PROVE  DOMAIN node' = DOMAIN node /\ \A n \in DOMAIN node : node'[n].arg = node[n].arg
<1>1. PICK q : node' = HeadOff(q) \/ node' = node
  BY DEF PopHead
<1>2. ASSUME NEW n \in DOMAIN node PROVE HeadOff(q)[n].arg = node[n].arg
  BY DEF HeadOff, TypeOK, NodeType
<1>3. DOMAIN HeadOff(q) = DOMAIN node
  BY DEF HeadOff
<1> QED
  BY <1>1, <1>2, <1>3

LEMMA TailKeeps ==
    ASSUME TypeOK, NEW t \in Threads, PopTail(t)
    PROVE  DOMAIN node' = DOMAIN node /\ \A n \in DOMAIN node : node'[n].arg = node[n].arg
<1> DEFINE last == [node EXCEPT ![tail].prev = NULL]
<1>1. PICK q : node' = TailOff(q) \/ node' = last
  BY DEF PopTail
<1>2. ASSUME NEW n \in DOMAIN node PROVE TailOff(q)[n].arg = node[n].arg /\ last[n].arg = node[n].arg
  BY DEF TailOff, TypeOK, NodeType
<1>3. DOMAIN TailOff(q) = DOMAIN node /\ DOMAIN last = DOMAIN node
  BY DEF TailOff
<1> HIDE DEF last
<1> QED
  BY <1>1, <1>2, <1>3

(* The steps inside that the sequence does not see: the node is created,   *)
(* linked, and taken out.                                                  *)
LEMMA InsideImplements ==
    ASSUME IndInv, RanksFull, IndInv', NEW t \in Threads,
           PushCreate(t) \/ PushLink(t) \/ PopHead(t) \/ PopTail(t)
    PROVE  RanksFull' /\ [Sequence!Next]_(Sequence!vars)
<1>0. /\ pc \in [Threads -> Labels] /\ p \in [Threads -> Nat] /\ TypeOK
      /\ TypeOK' /\ OneInside'
  BY DEF IndInv, ChainWellLinked, TypeOK
<1>1. /\ mutex' = mutex /\ created' = created /\ calls' = calls
      /\ pc[t] \in {"test", "link", "take"}
      /\ \/ pc[t] = "test" /\ pc'[t] = "link"
         \/ pc[t] = "link" /\ pc'[t] = "count"
         \/ pc[t] = "take" /\ pc'[t] = "free"
  BY <1>0 DEF PushCreate, PushLink, PopHead, PopTail, Goto
<1>2. t \in mutex
  BY <1>1 DEF IndInv, OneInside, Inside
<1>3. Stored' = Stored /\ \A n \in Stored : node'[n].arg = node[n].arg
  <2>1. CASE PushCreate(t)
    <3>1. DOMAIN node' = DOMAIN node \cup {nNode + 1} /\ nNode + 1 \notin DOMAIN node
      BY <1>0, <2>1 DEF PushCreate, TypeOK
    <3>2. Uncounted = {} /\ Uncounted' = {nNode + 1}
      BY <1>0, <1>1, <1>2, <2>1, Hands DEF PushCreate, Goto
    <3> QED
      BY <2>1, <3>1, <3>2 DEF Stored, PushCreate
  <2>2. CASE PushLink(t)
    <3>1. /\ p[t] \in DOMAIN node
          /\ tail # NULL => tail \in DOMAIN node /\ tail # p[t]
      BY <2>2, LinkSafe DEF PushLink
    <3>2. DOMAIN node' = DOMAIN node /\ \A n \in DOMAIN node : node'[n].arg = node[n].arg
      <4>1. CASE tail = NULL
        BY <2>2, <4>1 DEF PushLink
      <4>2. CASE tail # NULL
        BY <1>0, <2>2, <3>1, <4>2, LinkEffect DEF PushLink
      <4> QED
        BY <4>1, <4>2
    <3>3. Uncounted' = Uncounted
      BY <1>0, <1>1, <1>2, <2>2, Hands DEF PushLink, Goto
    <3> QED
      BY <3>2, <3>3 DEF Stored
  <2>3. CASE PopHead(t) \/ PopTail(t)
    <3>1. Uncounted' = {} /\ Uncounted = {}
      BY <1>0, <1>1, <1>2, <2>3, Hands DEF PopHead, PopTail, Goto
    <3>2. DOMAIN node' = DOMAIN node /\ \A n \in DOMAIN node : node'[n].arg = node[n].arg
      BY <1>0, <2>3, HeadKeeps, TailKeeps
    <3> QED
      BY <3>1, <3>2 DEF Stored
  <2> QED
    BY <2>1, <2>2, <2>3
<1>4. RanksFull' /\ storedItems' = storedItems
  BY <1>3, SequenceSame
<1>5. Op(t)' = Op(t)
  BY <1>1, OpFacts, OpFactsNext DEF OpExact
<1>6. \A u \in Threads \ {t} : Op(u)' = Op(u)
  BY OthersKeepOp DEF Thread, Shared, Push, vqueue_pop, vstack_pop
<1>7. operation' = operation
  BY <1>5, <1>6, OpSame
<1> QED
  BY <1>1, <1>4, <1>7 DEF Sequence!vars, Sequence!created, created

(* A push takes effect where its node is counted. *)
LEMMA CountImplements ==
    ASSUME IndInv, RanksFull, IndInv', NEW t \in Threads, PushCount(t)
    PROVE  RanksFull' /\ [Sequence!Next]_(Sequence!vars)
<1>0. /\ pc \in [Threads -> Labels] /\ result \in [Threads -> Int] /\ TypeOK
      /\ TypeOK' /\ OneInside' /\ Counted /\ Linked
  BY DEF IndInv, ChainWellLinked, TypeOK
<1>1. /\ mutex' = mutex /\ created' = created /\ calls' = calls /\ node' = node
      /\ pc[t] = "count" /\ pc'[t] = "unlock" /\ result'[t] = size + 1
      /\ p[t] = tail /\ tail # NULL /\ node[tail].arg = arg(t)
      /\ (nMaxSize >= 0 => size < nMaxSize) /\ t \in mutex
  BY <1>0 DEF PushCount, Goto, IndInv, InHand, OneInside, Inside
<1>2. Loose = {} /\ Uncounted = {tail} /\ Uncounted' = {}
  BY <1>0, <1>1, Hands
<1>3. PICK q \in Nat : q = tail
  BY <1>0 DEF TypeOK
<1>4. q \in DOMAIN node /\ Stored' = Stored \cup {q} /\ Stored = DOMAIN node \ {q}
  <2>1. tail \in Chained
    BY <1>0, <1>1 DEF Linked
  <2>2. q \in DOMAIN node /\ Stored = DOMAIN node \ {q} /\ Stored' = DOMAIN node
    BY <1>1, <1>2, <1>3, <2>1 DEF Chained, Stored
  <2> QED
    BY <2>2
<1>5. \A n \in Stored : n < q /\ node'[n].arg = node[n].arg
  <2>1. \A n \in Stored : n \in Chained /\ n # q /\ n \in Nat
    BY <1>0, <1>2, <1>4 DEF Chained, TypeOK
  <2> QED
    BY <1>0, <1>1, <1>3, <2>1 DEF Linked
<1>6. RanksFull' /\ storedItems' = Append(storedItems, node'[q].arg)
  BY <1>4, <1>5, SequenceAppend
<1>7. Len(storedItems) = Cardinality(Stored) /\ size = Cardinality(Stored) /\ size \in Nat
  BY <1>0, ItemsFacts, PlacesFacts DEF ItemsExact, Places, Counted
<1>8. storedItems' = Append(storedItems, <<t, calls[t]>>)
  BY <1>1, <1>3, <1>6 DEF arg
<1>9. Op(t) = [do |-> "push"]
  BY <1>1, OpFacts DEF OpExact
<1>10. size + 1 # NoNumber /\ Len(storedItems) # nMaxSize
  <2>1. nMaxSize \in Int
    BY <1>0, SettingsAssumption DEF TypeOK
  <2> QED
    BY <1>1, <1>7, <2>1 DEF NoNumber
<1>11. Op(t)' = [do |-> "number", value |-> size + 1]
  BY <1>1, <1>10, OpFactsNext DEF OpExact
<1>12. \A u \in Threads \ {t} : Op(u)' = Op(u)
  BY OthersKeepOp DEF Thread, Shared, Push
<1>13. operation' = [operation EXCEPT ![t] = [do |-> "number", value |-> Len(storedItems) + 1]]
  BY <1>7, <1>11, <1>12, OpChange
<1>14. operation[t] = [do |-> "push"]
  BY <1>9 DEF operation
<1>15. Sequence!DoPush(t)
  BY <1>1, <1>8, <1>10, <1>13, <1>14
  DEF Sequence!DoPush, Sequence!Called, Sequence!Number, Sequence!created, created
<1> QED
  BY <1>6, <1>15 DEF Sequence!Next

(* A pop takes effect where its node is counted out. *)
LEMMA FreeImplements ==
    ASSUME IndInv, RanksFull, IndInv', NEW t \in Threads, PopFree(t)
    PROVE  RanksFull' /\ [Sequence!Next]_(Sequence!vars)
<1>0. /\ pc \in [Threads -> Labels] /\ item \in [Threads -> Items \cup {NoItem}] /\ TypeOK
      /\ TypeOK' /\ OneInside' /\ NoResultYet
  BY DEF IndInv, ChainWellLinked, TypeOK
<1>1. PICK q \in DOMAIN node : q = p[t] /\ \A n \in Chained : IF kind = "queue" THEN q < n ELSE n < q
  BY DEF PopFree, IndInv, InHand
<1>2. /\ mutex' = mutex /\ created' = created /\ calls' = calls
      /\ pc[t] = "free" /\ pc'[t] = "unlock" /\ t \in mutex
      /\ result'[t] = NoNumber /\ item'[t] = node[q].arg
      /\ DOMAIN node' = DOMAIN node \ {q}
      /\ \A n \in DOMAIN node \ {q} : node'[n] = node[n]
  BY <1>0, <1>1 DEF PopFree, vnode_destroy, Goto, IndInv, OneInside, Inside, NoResultYet
<1>3. Loose = {q} /\ Uncounted = {} /\ Uncounted' = {}
  BY <1>0, <1>1, <1>2, Hands
<1>4. q \in Stored /\ Stored' = Stored \ {q} /\ Chained = Stored \ {q}
  BY <1>1, <1>2, <1>3 DEF Stored, Chained
<1>5. \A n \in Stored \ {q} : node'[n].arg = node[n].arg
  BY <1>2 DEF Stored
<1>6. Op(t) = [do |-> "pop"]
  BY <1>2, OpFacts DEF OpExact
<1>7. Op(t)' = [do |-> "item", value |-> node[q].arg]
  BY <1>2, OpFactsNext DEF OpExact
<1>8. \A u \in Threads \ {t} : Op(u)' = Op(u)
  BY OthersKeepOp DEF Thread, Shared
<1>9. operation' = [operation EXCEPT ![t] = [do |-> "item", value |-> node[q].arg]]
  BY <1>7, <1>8, OpChange
<1>10. operation[t] = [do |-> "pop"]
  BY <1>6 DEF operation
<1>11. ASSUME kind = "queue" PROVE RanksFull' /\ Sequence!DoPop(t)
  <2>1. /\ RanksFull' /\ storedItems # <<>>
        /\ Head(storedItems) = node[q].arg /\ storedItems' = Tail(storedItems)
    BY <1>1, <1>4, <1>5, <1>11, SequenceTail
  <2> QED
    BY <1>2, <1>9, <1>10, <1>11, <2>1
    DEF Sequence!DoPop, Sequence!Called, Sequence!Item, Sequence!created, created
<1>12. ASSUME kind # "queue" PROVE RanksFull' /\ Sequence!DoPop(t)
  <2>1. /\ RanksFull' /\ storedItems # <<>>
        /\ storedItems[Len(storedItems)] = node[q].arg
        /\ storedItems' = SubSeq(storedItems, 1, Len(storedItems) - 1)
    BY <1>1, <1>4, <1>5, <1>12, SequenceFront
  <2>2. kind = "stack"
    BY <1>0, <1>12, SettingsAssumption DEF TypeOK
  <2> QED
    BY <1>2, <1>9, <1>10, <2>1, <2>2
    DEF Sequence!DoPop, Sequence!Called, Sequence!Item, Sequence!created, created
<1> QED
  BY <1>11, <1>12 DEF Sequence!Next

LEMMA InitImplements == Init => RanksFull /\ Sequence!Init
<1> SUFFICES ASSUME Init PROVE RanksFull /\ Sequence!Init
  OBVIOUS
<1>1. Stored = {}
  BY DEF Init, Stored
<1>2. RanksFull
  BY <1>1, FS_EmptySet DEF RanksFull
<1>3. Len(storedItems) = 0 /\ storedItems \in Seq(Items)
  BY <1>1, <1>2, ItemsFacts, InitInvariant, FS_EmptySet DEF ItemsExact
<1>4. storedItems = <<>>
  BY <1>3
<1>5. operation = [t \in Threads |-> [do |-> "none"]]
  <2>1. \A t \in Threads : Op(t) = [do |-> "none"]
    BY OpFacts DEF OpExact, Init
  <2> QED
    BY <2>1 DEF operation
<1> QED
  BY <1>2, <1>4, <1>5 DEF Init, Sequence!Init, Sequence!NoOp

LEMMA StepImplements ==
    ASSUME IndInv, RanksFull, IndInv', [Next]_vars
    PROVE  RanksFull' /\ [Sequence!Next]_(Sequence!vars)
<1>1. ASSUME NEW t \in Threads, Thread(t) PROVE RanksFull' /\ [Sequence!Next]_(Sequence!vars)
  BY <1>1, QuietImplements, InsideImplements, CountImplements, FreeImplements
  DEF Thread, Shared, Push, vqueue_pop, vstack_pop
<1>2. ASSUME Destroy \/ UNCHANGED vars PROVE RanksFull' /\ UNCHANGED Sequence!vars
  <2>1. UNCHANGED <<listVars, p, pc, calls, result, item>>
    BY <1>2 DEF Destroy, vars
  <2>2. RanksFull' /\ storedItems' = storedItems
    BY <2>1, StoreSame
  <2>3. operation' = operation
    BY <2>1 DEF operation, Op
  <2> QED
    BY <2>1, <2>2, <2>3 DEF Sequence!vars, Sequence!created, listVars, created
<1> QED
  BY <1>1, <1>2 DEF Next, Ended

(* Pushes, pops and getSize of any number of threads are linearizable      *)
(* operations of a bounded FIFO, or LIFO: each has the effect and the      *)
(* result it would have alone, at one instant between its call and its     *)
(* return, getSize although it takes no mutex (vutil.c:1217-1302,          *)
(* 1348-1431).                                                             *)
THEOREM SequenceImplemented == Spec => ImplementsSequence
<1>1. Init => IndInv /\ RanksFull /\ Sequence!Init
  BY InitInvariant, InitImplements
<1>2. IndInv /\ RanksFull /\ [Next]_vars =>
        IndInv' /\ RanksFull' /\ [Sequence!Next]_(Sequence!vars)
  BY StepInvariant, StepImplements
<1> QED
  BY <1>1, <1>2, PTL DEF Spec, ImplementsSequence, Sequence!Spec
==============================================================================
