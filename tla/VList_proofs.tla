----------------------------- MODULE VList_proofs -----------------------------
(* The list of vutil.c stays linked and in order, and its loops visit what *)
(* they have to, for any number of threads, values and insertions.  IndInv *)
(* is the inductive invariant.                                             *)
EXTENDS VList, FiniteSetTheorems, SequenceTheorems, TLAPS

NodeR == [arg : Items, prev : Nat, next : Nat]

(* The nodes of f are s[1] .. s[n], in this order from h to t. *)
Chain(f, h, t, n, s) ==
    /\ n \in Nat /\ s \in [1 .. n -> DOMAIN f]
    /\ \A i, j \in 1 .. n : s[i] = s[j] => i = j
    /\ \A m \in DOMAIN f : \E i \in 1 .. n : s[i] = m
    /\ h = IF n = 0 THEN NULL ELSE s[1]
    /\ t = IF n = 0 THEN NULL ELSE s[n]
    /\ \A i \in 1 .. n : /\ f[s[i]].prev = IF i = 1 THEN NULL ELSE s[i - 1]
                         /\ f[s[i]].next = IF i = n THEN NULL ELSE s[i + 1]

(* Item x goes before y in a list whose users insert from way. *)
ItemsInOrder(way, x, y) ==
    CASE way = NONE  -> x[2] < y[2]
      [] way = FIRST -> x[1] < y[1] \/ (x[1] = y[1] /\ y[2] < x[2])
      [] way = LAST  -> y[1] < x[1] \/ (x[1] = y[1] /\ x[2] < y[2])

Sorted(way, f, n, s) ==
    \A i, j \in 1 .. n : i < j => ItemsInOrder(way, f[s[i]].arg, f[s[j]].arg)

Before(n, s, x, y) == \E i, j \in 1 .. n : i <= j /\ s[i] = x /\ s[j] = y

(* A walk from x in one of the directions comes to y. *)
Toward(way, n, s, x, y) == IF way = FIRST THEN Before(n, s, x, y) ELSE Before(n, s, y, x)

Ahead(way, n, s, m) == cur # NULL /\ Toward(way, n, s, cur, m)

Seen(t) == {seen[t][j] : j \in DOMAIN seen[t]}

LoopSound(t, n, s) ==
    pc[t] = "loop" =>
       /\ cur \in DOMAIN node \cup {NULL}
       /\ p[t] # NULL => p[t] \in DOMAIN node /\ node[p[t]].arg \in Seen(t)
       /\ \A m \in DOMAIN node : Ahead(loop[t].from, n, s, m) => node[m].arg \notin Seen(t)
       /\ \A x \in owed[t] :
             /\ x[1] \in loop[t].filter
             /\ x[2] \in DOMAIN node /\ node[x[2]].arg = x /\ Ahead(loop[t].from, n, s, x[2])

Shape(s) ==
    /\ Chain(node, head, tail, size, s) /\ Sorted(from, node, size, s)
    /\ \A t \in Threads : LoopSound(t, size, s)

Numbered ==
    /\ \A m \in DOMAIN node : node[m].arg[2] = m
    /\ items = {node[m].arg : m \in DOMAIN node}
    /\ memUsage = HeaderSize + (NodeSize + IntSize) * size

Exclusive ==
    /\ \A t, u \in mutex : t = u
    /\ \A t \in Threads : pc[t] # "idle" <=> t \in mutex

Visits(t) ==
    /\ \A j, k \in DOMAIN seen[t] : seen[t][j] = seen[t][k] => j = k
    /\ \A x \in Seen(t) : x[2] <= nNode
    /\ pc[t] \in {"idle", "locked"} => seen[t] = <<>>
    /\ pc[t] # "loop" => p[t] = NULL /\ owed[t] = {}

IndInv ==
    /\ TypeOK /\ Numbered /\ Exclusive
    /\ size \in Nat /\ \E s \in [1 .. size -> DOMAIN node] : Shape(s)
    /\ \A t \in Threads : Visits(t)
------------------------------------------------------------------------------
(* What an insertion and a deletion do to a chain. *)

InsertAt(n, s, k, x) ==
    [i \in 1 .. n + 1 |-> IF i < k THEN s[i] ELSE IF i = k THEN x ELSE s[i - 1]]

LEMMA InsertFacts ==
    ASSUME NEW n \in Nat, NEW s, NEW k \in 1 .. n + 1, NEW x
    PROVE  /\ DOMAIN InsertAt(n, s, k, x) = 1 .. n + 1
           /\ InsertAt(n, s, k, x) = [i \in 1 .. n + 1 |-> InsertAt(n, s, k, x)[i]]
           /\ InsertAt(n, s, k, x)[k] = x
           /\ \A i \in 1 .. n : i < k => i \in 1 .. n + 1 /\ InsertAt(n, s, k, x)[i] = s[i]
           /\ \A i \in 1 .. n : k <= i => i + 1 \in 1 .. n + 1 /\ InsertAt(n, s, k, x)[i + 1] = s[i]
           /\ \A j \in 1 .. n + 1 : \/ j = k
                                    \/ j < k /\ j \in 1 .. n
                                    \/ k < j /\ j - 1 \in 1 .. n /\ k <= j - 1 /\ j - 1 + 1 = j
  BY DEF InsertAt

(* g is f with the node x linked between a and b. *)
Linked(f, g, x, a, b) ==
    /\ DOMAIN g = DOMAIN f \cup {x}
    /\ g[x].prev = a /\ g[x].next = b
    /\ \A y \in DOMAIN f : /\ g[y].arg = f[y].arg
                           /\ g[y].prev = IF y = b THEN x ELSE f[y].prev
                           /\ g[y].next = IF y = a THEN x ELSE f[y].next

(* a and b are the nodes before and after place k. *)
Between(n, s, k, a, b) ==
    /\ a = IF k = 1 THEN NULL ELSE s[k - 1]
    /\ b = IF k = n + 1 THEN NULL ELSE s[k]

(* The head and the tail, once x is between a and b. *)
Ends(x, a, b, h, t, h2, t2) ==
    /\ h2 = IF a = NULL THEN x ELSE h
    /\ t2 = IF b = NULL THEN x ELSE t

LEMMA InsertChain ==
    ASSUME NEW f, NEW g, NEW h, NEW t, NEW n, NEW s, Chain(f, h, t, n, s),
           NULL \notin DOMAIN f, NEW k \in 1 .. n + 1, NEW x, x \notin DOMAIN f, x # NULL,
           NEW a, NEW b, Linked(f, g, x, a, b), Between(n, s, k, a, b),
           NEW h2, NEW t2, Ends(x, a, b, h, t, h2, t2)
    PROVE  Chain(g, h2, t2, n + 1, InsertAt(n, s, k, x))
<1>h. h2 = (IF a = NULL THEN x ELSE h) /\ t2 = (IF b = NULL THEN x ELSE t)
  BY DEF Ends
<1>ab. a = (IF k = 1 THEN NULL ELSE s[k - 1]) /\ b = (IF k = n + 1 THEN NULL ELSE s[k])
  BY DEF Between
<1>g. /\ DOMAIN g = DOMAIN f \cup {x} /\ g[x].prev = a /\ g[x].next = b
      /\ \A y \in DOMAIN f : /\ g[y].prev = IF y = b THEN x ELSE f[y].prev
                             /\ g[y].next = IF y = a THEN x ELSE f[y].next
  BY DEF Linked
<1>1. /\ n \in Nat /\ s \in [1 .. n -> DOMAIN f]
      /\ \A i, j \in 1 .. n : s[i] = s[j] => i = j
      /\ \A m \in DOMAIN f : \E i \in 1 .. n : s[i] = m
      /\ h = IF n = 0 THEN NULL ELSE s[1]
      /\ t = IF n = 0 THEN NULL ELSE s[n]
      /\ \A i \in 1 .. n : /\ f[s[i]].prev = IF i = 1 THEN NULL ELSE s[i - 1]
                           /\ f[s[i]].next = IF i = n THEN NULL ELSE s[i + 1]
  BY DEF Chain
<1>0. n \in Nat /\ k \in Nat /\ 1 <= k /\ k <= n + 1
  BY <1>1
<1>2. PICK r : r = InsertAt(n, s, k, x)
  OBVIOUS
<1>3. /\ DOMAIN r = 1 .. n + 1 /\ r = [i \in 1 .. n + 1 |-> r[i]] /\ r[k] = x
      /\ \A i \in 1 .. n : i < k => i \in 1 .. n + 1 /\ r[i] = s[i]
      /\ \A i \in 1 .. n : k <= i => i + 1 \in 1 .. n + 1 /\ r[i + 1] = s[i]
      /\ \A j \in 1 .. n + 1 : \/ j = k
                               \/ j < k /\ j \in 1 .. n
                               \/ k < j /\ j - 1 \in 1 .. n /\ k <= j - 1 /\ j - 1 + 1 = j
  BY <1>1, <1>2, InsertFacts
<1>4. \A j \in 1 .. n + 1 : \/ j = k /\ r[j] = x
                            \/ j < k /\ j \in 1 .. n /\ r[j] = s[j] /\ r[j] \in DOMAIN f
                            \/ k < j /\ j - 1 \in 1 .. n /\ r[j] = s[j - 1] /\ r[j] \in DOMAIN f
  <2> SUFFICES ASSUME NEW j \in 1 .. n + 1
               PROVE  \/ j = k /\ r[j] = x
                      \/ j < k /\ j \in 1 .. n /\ r[j] = s[j] /\ r[j] \in DOMAIN f
                      \/ k < j /\ j - 1 \in 1 .. n /\ r[j] = s[j - 1] /\ r[j] \in DOMAIN f
    OBVIOUS
  <2>1. CASE k < j /\ j - 1 \in 1 .. n /\ k <= j - 1 /\ j - 1 + 1 = j
    <3>1. r[j - 1 + 1] = s[j - 1]
      BY <1>3, <2>1
    <3>2. s[j - 1] \in DOMAIN f
      BY <1>1, <2>1
    <3> QED
      BY <2>1, <3>1, <3>2
  <2>2. CASE j < k /\ j \in 1 .. n
    <3>1. r[j] = s[j] /\ s[j] \in DOMAIN f
      BY <1>1, <1>3, <2>2
    <3> QED
      BY <2>2, <3>1
  <2>3. CASE j = k
    BY <1>3, <2>3
  <2> QED
    BY <1>3, <2>1, <2>2, <2>3
<1>5. n + 1 \in Nat /\ r \in [1 .. n + 1 -> DOMAIN g]
  <2>1. \A j \in 1 .. n + 1 : r[j] \in DOMAIN g
    BY <1>g, <1>4
  <2> QED
    BY <1>1, <1>3, <2>1
<1>6. \A i, j \in 1 .. n + 1 : r[i] = r[j] => i = j
  <2> SUFFICES ASSUME NEW i \in 1 .. n + 1, NEW j \in 1 .. n + 1, r[i] = r[j] PROVE i = j
    OBVIOUS
  <2>1. i = k <=> j = k
    BY <1>4
  <2>2. CASE i < k /\ j < k
    BY <1>1, <1>4, <2>2
  <2>3. CASE k < i /\ k < j
    <3>1. i - 1 = j - 1
      BY <1>1, <1>4, <2>3
    <3> QED
      BY <3>1
  <2>4. CASE i < k /\ k < j
    <3>1. i = j - 1
      BY <1>0, <1>1, <1>4, <2>4
    <3> QED
      BY <2>4, <3>1
  <2>5. CASE k < i /\ j < k
    <3>1. j = i - 1
      BY <1>0, <1>1, <1>4, <2>5
    <3> QED
      BY <2>5, <3>1
  <2> QED
    BY <2>1, <2>2, <2>3, <2>4, <2>5
<1>7. \A m \in DOMAIN g : \E i \in 1 .. n + 1 : r[i] = m
  <2> SUFFICES ASSUME NEW m \in DOMAIN f PROVE \E i \in 1 .. n + 1 : r[i] = m
    BY <1>g, <1>3
  <2>1. PICK i \in 1 .. n : s[i] = m
    BY <1>1
  <2>2. i < k \/ k <= i
    BY <1>1
  <2> QED
    BY <1>3, <2>1, <2>2
<1>8. a = NULL <=> k = 1
  <2>1. k # 1 => s[k - 1] \in DOMAIN f
    BY <1>1
  <2> QED
    BY <1>ab, <2>1
<1>9. b = NULL <=> k = n + 1
  <2>1. k # n + 1 => s[k] \in DOMAIN f
    BY <1>1
  <2> QED
    BY <1>ab, <2>1
<1>10. h2 = r[1]
  <2>1. CASE k = 1
    BY <1>h, <1>3, <1>8, <2>1
  <2>2. CASE k # 1
    <3>1. 1 \in 1 .. n /\ 1 < k /\ n # 0
      BY <1>1, <2>2
    <3> QED
      BY <1>h, <1>1, <1>3, <1>8, <2>2, <3>1
  <2> QED
    BY <2>1, <2>2
<1>11. t2 = r[n + 1]
  <2>1. CASE k = n + 1
    BY <1>h, <1>3, <1>9, <2>1
  <2>2. CASE k # n + 1
    <3>1. n \in 1 .. n /\ k <= n /\ n # 0
      BY <1>1, <2>2
    <3> QED
      BY <1>h, <1>1, <1>3, <1>9, <2>2, <3>1
  <2> QED
    BY <2>1, <2>2
<1>12. ASSUME NEW i \in 1 .. n
       PROVE  (s[i] = a <=> i + 1 = k) /\ (s[i] = b <=> i = k) /\ s[i] \in DOMAIN f /\ s[i] # x
  <2>1. s[i] \in DOMAIN f
    BY <1>1
  <2>2. k # 1 => k - 1 \in 1 .. n
    BY <1>1
  <2>3. s[i] = a <=> i + 1 = k
    <3>1. k = 1 => i + 1 # k
      BY <1>1
    <3> QED
      BY <1>ab, <1>1, <2>1, <2>2, <3>1
  <2>4. s[i] = b <=> i = k
    <3>1. k = n + 1 => b = NULL /\ i # k
      BY <1>0, <1>1, <1>ab
    <3>2. k # n + 1 => k \in 1 .. n /\ b = s[k]
      BY <1>0, <1>1, <1>ab
    <3> QED
      BY <1>1, <2>1, <3>1, <3>2
  <2> QED
    BY <2>1, <2>3, <2>4
<1>13. ASSUME NEW j \in 1 .. n + 1
       PROVE  /\ g[r[j]].prev = IF j = 1 THEN NULL ELSE r[j - 1]
              /\ g[r[j]].next = IF j = n + 1 THEN NULL ELSE r[j + 1]
  <2>1. CASE j = k
    <3>1. k # 1 => r[j - 1] = s[k - 1]
      <4>1. k # 1 => k - 1 \in 1 .. n /\ k - 1 < k
        BY <1>1
      <4> QED
        BY <1>3, <2>1, <4>1
    <3>2. k # n + 1 => r[j + 1] = s[k]
      <4>1. k # n + 1 => k \in 1 .. n /\ k <= k
        BY <1>0
      <4> QED
        BY <1>3, <2>1, <4>1
    <3> QED
      BY <1>ab, <1>g, <1>3, <2>1, <3>1, <3>2
  <2>2. CASE j < k
    <3>1. j \in 1 .. n /\ r[j] = s[j]
      BY <1>4, <2>2
    <3>2. j # 1 => r[j - 1] = s[j - 1]
      <4>1. j # 1 => j - 1 \in 1 .. n /\ j - 1 < k
        BY <1>0, <2>2, <3>1
      <4> QED
        BY <1>3, <4>1
    <3>3. g[s[j]].prev = f[s[j]].prev
      <4>1. s[j] # b /\ s[j] \in DOMAIN f
        BY <1>12, <2>2, <3>1
      <4> QED
        BY <1>g, <4>1
    <3>4. j + 1 = k => g[s[j]].next = x /\ r[j + 1] = x /\ j # n + 1
      BY <1>g, <1>3, <1>12, <3>1
    <3>5. j + 1 # k => /\ g[s[j]].next = f[s[j]].next /\ r[j + 1] = s[j + 1]
                       /\ j # n /\ j # n + 1
      <4>1. j + 1 # k => j + 1 \in 1 .. n /\ j + 1 < k
        BY <1>1, <2>2, <3>1
      <4>2. j + 1 # k => s[j] # a /\ s[j] \in DOMAIN f
        BY <1>12, <3>1
      <4>3. j + 1 # k => g[s[j]].next = f[s[j]].next
        BY <1>g, <4>2
      <4>4. j + 1 # k => r[j + 1] = s[j + 1]
        BY <1>3, <4>1
      <4>5. j + 1 # k => j # n /\ j # n + 1
        BY <1>0, <3>1, <4>1
      <4> QED
        BY <4>3, <4>4, <4>5
    <3> QED
      BY <1>1, <3>1, <3>2, <3>3, <3>4, <3>5
  <2>3. CASE k < j
    <3>0. PICK i : i = j - 1
      OBVIOUS
    <3>1. i \in 1 .. n /\ j = i + 1 /\ r[j] = s[i] /\ k <= i
      BY <1>4, <2>3, <3>0
    <3>2. j # n + 1 => r[j + 1] = s[i + 1] /\ i # n
      <4>1. j # n + 1 => i + 1 \in 1 .. n /\ k <= i + 1
        BY <1>1, <3>1
      <4> QED
        BY <1>3, <3>1, <4>1
    <3>3. g[s[i]].next = f[s[i]].next
      <4>1. s[i] # a /\ s[i] \in DOMAIN f
        BY <1>12, <3>1
      <4> QED
        BY <1>g, <4>1
    <3>4. i = k => g[s[i]].prev = x /\ r[j - 1] = x
      <4>1. i = k => s[i] = b /\ s[i] \in DOMAIN f
        BY <1>12, <3>1
      <4> QED
        BY <1>g, <1>3, <3>0, <4>1
    <3>5. i # k => /\ g[s[i]].prev = f[s[i]].prev /\ r[j - 1] = s[i - 1] /\ i # 1
      <4>1. i # k => i - 1 \in 1 .. n /\ k <= i - 1 /\ i - 1 + 1 = i /\ i # 1
        BY <1>1, <3>1
      <4>2. i # k => r[i - 1 + 1] = s[i - 1]
        BY <1>3, <4>1
      <4>3. i # k => s[i] # b /\ s[i] \in DOMAIN f
        BY <1>12, <3>1
      <4>4. i # k => g[s[i]].prev = f[s[i]].prev
        BY <1>g, <4>3
      <4> QED
        BY <3>0, <4>1, <4>2, <4>4
    <3>6. i = n => j = n + 1
      BY <3>1
    <3>7. j # 1
      BY <2>3
    <3>8. g[r[j]].prev = IF j = 1 THEN NULL ELSE r[j - 1]
      <4>1. i # k => g[s[i]].prev = s[i - 1]
        BY <1>1, <3>1, <3>5
      <4> QED
        BY <3>1, <3>4, <3>5, <3>7, <4>1
    <3>9. g[r[j]].next = IF j = n + 1 THEN NULL ELSE r[j + 1]
      <4>1. g[s[i]].next = IF i = n THEN NULL ELSE s[i + 1]
        BY <1>1, <3>1, <3>3
      <4>2. j = n + 1 => i = n
        BY <1>0, <3>1
      <4> QED
        BY <3>1, <3>2, <3>6, <4>1, <4>2
    <3> QED
      BY <3>8, <3>9
  <2>4. j = k \/ j < k \/ k < j
    BY <1>1
  <2> QED
    BY <2>1, <2>2, <2>3, <2>4
<1>14. n + 1 # 0
  BY <1>1
<1> QED
  BY <1>h, <1>2, <1>5, <1>6, <1>7, <1>10, <1>11, <1>13, <1>14 DEF Chain

(* A node stays where it is with respect to the others. *)
LEMMA InsertBefore ==
    ASSUME NEW n \in Nat, NEW s, NEW k \in 1 .. n + 1, NEW x, NEW y, NEW z, y # x, z # x
    PROVE  Before(n + 1, InsertAt(n, s, k, x), y, z) <=> Before(n, s, y, z)
<1>0. n \in Nat /\ k \in Nat
  OBVIOUS
<1>1. PICK r : r = InsertAt(n, s, k, x)
  OBVIOUS
<1>2. /\ r[k] = x
      /\ \A i \in 1 .. n : i < k => i \in 1 .. n + 1 /\ r[i] = s[i]
      /\ \A i \in 1 .. n : k <= i => i + 1 \in 1 .. n + 1 /\ r[i + 1] = s[i]
      /\ \A j \in 1 .. n + 1 : \/ j = k
                               \/ j < k /\ j \in 1 .. n
                               \/ k < j /\ j - 1 \in 1 .. n /\ k <= j - 1 /\ j - 1 + 1 = j
  BY <1>1, InsertFacts
<1>3. ASSUME NEW i \in 1 .. n + 1, r[i] # x
      PROVE  \E j \in 1 .. n : s[j] = r[i] /\ i = IF j < k THEN j ELSE j + 1
  <2>1. CASE i < k /\ i \in 1 .. n
    BY <1>2, <2>1
  <2>2. CASE k < i /\ i - 1 \in 1 .. n /\ k <= i - 1 /\ i - 1 + 1 = i
    <3>1. PICK j \in 1 .. n : j = i - 1
      BY <2>2
    <3>2. k <= j /\ i = j + 1 /\ ~(j < k)
      BY <1>0, <2>2, <3>1
    <3> QED
      BY <1>2, <3>2
  <2> QED
    BY <1>2, <1>3, <2>1, <2>2
<1>4. ASSUME NEW j \in 1 .. n
      PROVE  \E i \in 1 .. n + 1 : r[i] = s[j] /\ i = IF j < k THEN j ELSE j + 1
  <2>1. j < k \/ (k <= j /\ ~(j < k))
    BY <1>0
  <2> QED
    BY <1>2, <2>1
<1>5. ASSUME NEW i \in 1 .. n, NEW j \in 1 .. n
      PROVE  i <= j <=> (IF i < k THEN i ELSE i + 1) <= (IF j < k THEN j ELSE j + 1)
  BY <1>0
<1>6. ASSUME Before(n, s, y, z) PROVE Before(n + 1, r, y, z)
  <2>1. PICK i, j \in 1 .. n : i <= j /\ s[i] = y /\ s[j] = z
    BY <1>6 DEF Before
  <2>2. PICK a \in 1 .. n + 1 : r[a] = s[i] /\ a = IF i < k THEN i ELSE i + 1
    BY <1>4
  <2>3. PICK b \in 1 .. n + 1 : r[b] = s[j] /\ b = IF j < k THEN j ELSE j + 1
    BY <1>4
  <2>4. a <= b
    BY <1>5, <2>1, <2>2, <2>3
  <2> QED
    BY <2>1, <2>2, <2>3, <2>4 DEF Before
<1>7. ASSUME Before(n + 1, r, y, z) PROVE Before(n, s, y, z)
  <2>1. PICK a, b \in 1 .. n + 1 : a <= b /\ r[a] = y /\ r[b] = z
    BY <1>7 DEF Before
  <2>2. PICK i \in 1 .. n : s[i] = r[a] /\ a = IF i < k THEN i ELSE i + 1
    BY <1>3, <2>1
  <2>3. PICK j \in 1 .. n : s[j] = r[b] /\ b = IF j < k THEN j ELSE j + 1
    BY <1>3, <2>1
  <2>4. i <= j
    BY <1>5, <2>1, <2>2, <2>3
  <2> QED
    BY <2>1, <2>2, <2>3, <2>4 DEF Before
<1> QED
  BY <1>1, <1>6, <1>7

(* The chain without its k-th node. *)
Drop(n, s, k) == [i \in 1 .. n - 1 |-> IF i < k THEN s[i] ELSE s[i + 1]]

(* What it has at i was at o[i]. *)
Skips(n, s, k, o) ==
    /\ \A i \in Int : o[i] = IF i < k THEN i ELSE i + 1
    /\ \A i \in 1 .. n - 1 : Drop(n, s, k)[i] = s[o[i]] /\ o[i] \in 1 .. n /\ o[i] # k
    /\ \A i, j \in 1 .. n - 1 : /\ o[i] = o[j] => i = j
                                /\ i <= j <=> o[i] <= o[j]
                                /\ i < j <=> o[i] < o[j]
    /\ \A i \in 1 .. n : i # k => \E j \in 1 .. n - 1 : o[j] = i

LEMMA DropFacts ==
    ASSUME NEW n \in Nat, NEW s, NEW k \in 1 .. n
    PROVE  \E o : Skips(n, s, k, o)
<1>0. PICK o : o = [i \in Int |-> IF i < k THEN i ELSE i + 1]
  OBVIOUS
<1>1. \A i \in Int : o[i] = IF i < k THEN i ELSE i + 1
  BY <1>0
<1>2. \A i \in 1 .. n - 1 : Drop(n, s, k)[i] = s[o[i]] /\ o[i] \in 1 .. n /\ o[i] # k
  BY <1>1 DEF Drop
<1>3. \A i, j \in 1 .. n - 1 : /\ o[i] = o[j] => i = j
                               /\ i <= j <=> o[i] <= o[j]
                               /\ i < j <=> o[i] < o[j]
  BY <1>1
<1>4. ASSUME NEW i \in 1 .. n, i # k PROVE \E j \in 1 .. n - 1 : o[j] = i
  <2>1. CASE i < k
    <3>1. i \in 1 .. n - 1 /\ o[i] = i
      BY <1>1, <2>1
    <3> QED
      BY <3>1
  <2>2. CASE k < i
    <3>1. i - 1 \in 1 .. n - 1 /\ o[i - 1] = i
      BY <1>1, <2>2
    <3> QED
      BY <3>1
  <2> QED
    BY <1>4, <2>1, <2>2
<1>5. Skips(n, s, k, o)
  BY <1>1, <1>2, <1>3, <1>4 DEF Skips
<1> QED
  BY <1>5

LEMMA DropBefore ==
    ASSUME NEW n \in Nat, NEW s, NEW k \in 1 .. n, NEW y, NEW z, y # s[k], z # s[k]
    PROVE  Before(n - 1, Drop(n, s, k), y, z) <=> Before(n, s, y, z)
<1>0. PICK o : Skips(n, s, k, o)
  BY DropFacts
<1>1. PICK r : r = Drop(n, s, k)
  OBVIOUS
<1>2. /\ \A i \in 1 .. n - 1 : r[i] = s[o[i]] /\ o[i] \in 1 .. n /\ o[i] # k
      /\ \A i, j \in 1 .. n - 1 : i <= j <=> o[i] <= o[j]
      /\ \A i \in 1 .. n : i # k => \E j \in 1 .. n - 1 : o[j] = i
  BY <1>0, <1>1 DEF Skips
<1>3. ASSUME Before(n, s, y, z) PROVE Before(n - 1, r, y, z)
  <2>1. PICK i, j \in 1 .. n : i <= j /\ s[i] = y /\ s[j] = z
    BY <1>3 DEF Before
  <2>2. PICK a \in 1 .. n - 1 : o[a] = i
    BY <1>2, <2>1
  <2>3. PICK b \in 1 .. n - 1 : o[b] = j
    BY <1>2, <2>1
  <2>4. a <= b /\ r[a] = y /\ r[b] = z
    BY <1>2, <2>1, <2>2, <2>3
  <2> QED
    BY <2>4 DEF Before
<1>4. ASSUME Before(n - 1, r, y, z) PROVE Before(n, s, y, z)
  <2>1. PICK a, b \in 1 .. n - 1 : a <= b /\ r[a] = y /\ r[b] = z
    BY <1>4 DEF Before
  <2>2. o[a] \in 1 .. n /\ o[b] \in 1 .. n /\ o[a] <= o[b] /\ s[o[a]] = y /\ s[o[b]] = z
    BY <1>2, <2>1
  <2> QED
    BY <2>2 DEF Before
<1> QED
  BY <1>1, <1>3, <1>4

(* g is f with the node x unlinked. *)
Unlinked(f, g, x) ==
    /\ DOMAIN g = DOMAIN f \ {x}
    /\ \A y \in DOMAIN f \ {x} :
          /\ g[y].arg = f[y].arg
          /\ g[y].next = IF y = f[x].prev THEN f[x].next ELSE f[y].next
          /\ g[y].prev = IF y = f[x].next THEN f[x].prev ELSE f[y].prev

(* The head and the tail, once x is gone. *)
EndsWithout(f, x, h, t, h2, t2) ==
    /\ h2 = IF f[x].prev = NULL THEN f[x].next ELSE h
    /\ t2 = IF f[x].next = NULL THEN f[x].prev ELSE t

LEMMA DropChain ==
    ASSUME NEW f, NEW g, NEW h, NEW t, NEW h2, NEW t2, NEW n, NEW s, Chain(f, h, t, n, s),
           NULL \notin DOMAIN f, NEW q \in 1 .. n, NEW x, x = s[q],
           Unlinked(f, g, x), EndsWithout(f, x, h, t, h2, t2)
    PROVE  Chain(g, h2, t2, n - 1, Drop(n, s, q))
<1>w. /\ DOMAIN g = DOMAIN f \ {x}
      /\ \A y \in DOMAIN f \ {x} :
            /\ g[y].next = IF y = f[x].prev THEN f[x].next ELSE f[y].next
            /\ g[y].prev = IF y = f[x].next THEN f[x].prev ELSE f[y].prev
  BY DEF Unlinked
<1>e. /\ h2 = (IF f[x].prev = NULL THEN f[x].next ELSE h)
      /\ t2 = (IF f[x].next = NULL THEN f[x].prev ELSE t)
  BY DEF EndsWithout
<1>1. /\ n \in Nat /\ \A i \in 1 .. n : s[i] \in DOMAIN f
      /\ \A i, j \in 1 .. n : s[i] = s[j] => i = j
      /\ \A m \in DOMAIN f : \E i \in 1 .. n : s[i] = m
      /\ h = (IF n = 0 THEN NULL ELSE s[1])
      /\ t = (IF n = 0 THEN NULL ELSE s[n])
      /\ \A i \in 1 .. n : /\ f[s[i]].prev = IF i = 1 THEN NULL ELSE s[i - 1]
                           /\ f[s[i]].next = IF i = n THEN NULL ELSE s[i + 1]
  BY DEF Chain
<1>b. /\ n \in Nat /\ \A i \in 1 .. n : s[i] \in DOMAIN f
      /\ \A i, j \in 1 .. n : s[i] = s[j] => i = j
      /\ \A m \in DOMAIN f : \E i \in 1 .. n : s[i] = m
  BY <1>1
<1>c. n \in Nat
  BY <1>1
<1>a. PICK o : Skips(n, s, q, o)
  BY <1>c, DropFacts
<1>0. PICK r : r = Drop(n, s, q)
  OBVIOUS
<1>d. n - 1 \in Nat /\ DOMAIN r = 1 .. n - 1 /\ r = [i \in 1 .. n - 1 |-> r[i]]
  BY <1>0, <1>c DEF Drop
<1>2. /\ \A i \in 1 .. n - 1 : r[i] = s[o[i]] /\ o[i] \in 1 .. n /\ o[i] # q
      /\ \A i, j \in 1 .. n - 1 : o[i] = o[j] => i = j
      /\ \A i \in 1 .. n : i # q => \E j \in 1 .. n - 1 : o[j] = i
  BY <1>0, <1>a DEF Skips
<1>3. /\ q \in Nat /\ 1 <= q /\ q <= n /\ n \in Nat
      /\ \A i \in Int : o[i] = IF i < q THEN i ELSE i + 1
  BY <1>a, <1>c DEF Skips
<1>4. \A i \in 1 .. n - 1 : r[i] \in DOMAIN f /\ r[i] # x
  BY <1>b, <1>2
<1>5. r \in [1 .. n - 1 -> DOMAIN g]
  BY <1>d, <1>4, <1>w
<1>6. \A i, j \in 1 .. n - 1 : r[i] = r[j] => i = j
  BY <1>b, <1>2
<1>10. \A m \in DOMAIN g : \E i \in 1 .. n - 1 : r[i] = m
  <2> SUFFICES ASSUME NEW m \in DOMAIN g PROVE \E i \in 1 .. n - 1 : r[i] = m
    OBVIOUS
  <2>1. PICK i \in 1 .. n : s[i] = m /\ i # q
    BY <1>b, <1>w
  <2> QED
    BY <1>2, <2>1
<1>7. /\ f[x].prev = (IF q = 1 THEN NULL ELSE s[q - 1])
      /\ f[x].next = (IF q = n THEN NULL ELSE s[q + 1])
      /\ (q # 1 => q - 1 \in 1 .. n) /\ (q # n => q + 1 \in 1 .. n)
      /\ f[x].prev = NULL <=> q = 1
      /\ f[x].next = NULL <=> q = n
  <2>1. (q # 1 => q - 1 \in 1 .. n) /\ (q # n => q + 1 \in 1 .. n)
    BY <1>1, <1>3
  <2> QED
    BY <1>1, <2>1
<1>8. /\ h2 = IF n - 1 = 0 THEN NULL ELSE r[1]
      /\ t2 = IF n - 1 = 0 THEN NULL ELSE r[n - 1]
  <2>1. n - 1 # 0 => 1 \in 1 .. n - 1 /\ n - 1 \in 1 .. n - 1
    BY <1>3
  <2>2. n - 1 # 0 => /\ o[1] = IF q = 1 THEN 2 ELSE 1
                     /\ o[n - 1] = IF q = n THEN n - 1 ELSE n
    BY <1>3
  <2>3. n - 1 = 0 => q = 1 /\ q = n
    BY <1>3
  <2>4. n - 1 # 0 => r[1] = (IF q = 1 THEN s[2] ELSE s[1]) /\ r[n - 1] = (IF q = n THEN s[n - 1] ELSE s[n])
    BY <1>2, <2>1, <2>2
  <2>5. n # 0 /\ h = s[1] /\ t = s[n]
    BY <1>1, <1>3
  <2>6. h2 = IF n - 1 = 0 THEN NULL ELSE r[1]
    <3>1. q = 1 => f[x].prev = NULL /\ h2 = f[x].next
      BY <1>7, <1>e
    <3>2. q # 1 => h2 = s[1] /\ n - 1 # 0
      BY <1>7, <1>e, <2>3, <2>5
    <3>3. q = 1 => f[x].next = IF n - 1 = 0 THEN NULL ELSE s[2]
      BY <1>3, <1>7
    <3> QED
      BY <2>4, <3>1, <3>2, <3>3
  <2>7. t2 = IF n - 1 = 0 THEN NULL ELSE r[n - 1]
    <3>1. q = n => f[x].next = NULL /\ t2 = f[x].prev
      BY <1>7, <1>e
    <3>2. q # n => t2 = s[n] /\ n - 1 # 0
      BY <1>7, <1>e, <2>3, <2>5
    <3>3. q = n => f[x].prev = IF n - 1 = 0 THEN NULL ELSE s[n - 1]
      BY <1>3, <1>7
    <3> QED
      BY <2>4, <3>1, <3>2, <3>3
  <2> QED
    BY <2>6, <2>7
<1>9. ASSUME NEW i \in 1 .. n - 1
      PROVE  /\ g[r[i]].prev = IF i = 1 THEN NULL ELSE r[i - 1]
             /\ g[r[i]].next = IF i = n - 1 THEN NULL ELSE r[i + 1]
  <2>0. PICK k : k = o[i]
    OBVIOUS
  <2>1. /\ k \in 1 .. n /\ k # q /\ r[i] = s[k] /\ s[k] \in DOMAIN f \ {x}
        /\ i \in Nat /\ k \in Nat /\ 1 <= i /\ i <= n - 1
        /\ k = IF i < q THEN i ELSE i + 1
    BY <1>2, <1>3, <1>4, <2>0
  <2>2. /\ g[r[i]].next = IF s[k] = f[x].prev THEN f[x].next ELSE f[s[k]].next
        /\ g[r[i]].prev = IF s[k] = f[x].next THEN f[x].prev ELSE f[s[k]].prev
    BY <1>w, <2>1
  <2>3. /\ s[k] = f[x].prev <=> k = q - 1
        /\ s[k] = f[x].next <=> k = q + 1
    <3>1. q = 1 => f[x].prev = NULL /\ s[k] # NULL /\ k # q - 1
      BY <1>7, <2>1
    <3>2. q = n => f[x].next = NULL /\ s[k] # NULL /\ k # q + 1
      BY <1>1, <1>7, <2>1
    <3> QED
      BY <1>1, <1>7, <2>1, <3>1, <3>2
  <2>4. i # 1 => /\ i - 1 \in 1 .. n - 1 /\ r[i - 1] = s[o[i - 1]]
                 /\ o[i - 1] = IF i - 1 < q THEN i - 1 ELSE i
    BY <1>2, <1>3, <2>1
  <2>5. i # n - 1 => /\ i + 1 \in 1 .. n - 1 /\ r[i + 1] = s[o[i + 1]]
                     /\ o[i + 1] = IF i + 1 < q THEN i + 1 ELSE i + 2
    BY <1>2, <1>3, <2>1
  <2>6. /\ f[s[k]].prev = IF k = 1 THEN NULL ELSE s[k - 1]
        /\ f[s[k]].next = IF k = n THEN NULL ELSE s[k + 1]
    BY <1>1, <2>1
  <2>7. g[r[i]].prev = IF i = 1 THEN NULL ELSE r[i - 1]
    <3>1. CASE k = q + 1
      <4>1. i = q
        BY <1>3, <2>1, <3>1
      <4>2. i # 1 => o[i - 1] = q - 1
        BY <1>3, <2>4, <4>1
      <4> QED
        BY <1>7, <2>2, <2>3, <2>4, <3>1, <4>1, <4>2
    <3>2. CASE k # q + 1
      <4>1. i = 1 => k = 1
        BY <1>3, <2>1, <3>2
      <4>2. i # 1 => k # 1 /\ o[i - 1] = k - 1
        BY <1>3, <2>1, <2>4, <3>2
      <4> QED
        BY <2>2, <2>3, <2>4, <2>6, <3>2, <4>1, <4>2
    <3> QED
      BY <3>1, <3>2
  <2>8. g[r[i]].next = IF i = n - 1 THEN NULL ELSE r[i + 1]
    <3>1. CASE k = q - 1
      <4>1. i = q - 1
        BY <1>3, <2>1, <3>1
      <4>2. i # n - 1 => o[i + 1] = q + 1 /\ q # n
        BY <1>3, <2>5, <4>1
      <4>3. i = n - 1 => q = n
        BY <1>3, <4>1
      <4> QED
        BY <1>7, <2>2, <2>3, <2>5, <3>1, <4>2, <4>3
    <3>2. CASE k # q - 1
      <4>1. i = n - 1 => k = n
        BY <1>3, <2>1, <3>2
      <4>2. i # n - 1 => k # n /\ o[i + 1] = k + 1
        BY <1>3, <2>1, <2>5, <3>2
      <4> QED
        BY <2>2, <2>3, <2>5, <2>6, <3>2, <4>1, <4>2
    <3> QED
      BY <3>1, <3>2
  <2> QED
    BY <2>7, <2>8
<1> QED
  BY <1>0, <1>d, <1>5, <1>6, <1>8, <1>9, <1>10 DEF Chain

------------------------------------------------------------------------------
(* Walking the chain. *)

(* r is the chain s, read in the direction of way. *)
Path(way, n, s, r) ==
    /\ n \in Nat /\ r \in [1 .. n -> DOMAIN node]
    /\ \A i, j \in 1 .. n : r[i] = r[j] => i = j
    /\ \A m \in DOMAIN node : \E i \in 1 .. n : r[i] = m
    /\ End(way) = IF n = 0 THEN NULL ELSE r[1]
    /\ \A i \in 1 .. n : Beyond(way, r[i]) = IF i = n THEN NULL ELSE r[i + 1]
    /\ \A i, j \in 1 .. n : Toward(way, n, s, r[i], r[j]) <=> i <= j

LEMMA BeforeIs ==
    ASSUME NEW n \in Nat, NEW s, \A i, j \in 1 .. n : s[i] = s[j] => i = j
    PROVE  \A i, j \in 1 .. n : Before(n, s, s[i], s[j]) <=> i <= j
<1> SUFFICES ASSUME NEW i \in 1 .. n, NEW j \in 1 .. n
             PROVE  Before(n, s, s[i], s[j]) <=> i <= j
  OBVIOUS
<1>1. ASSUME Before(n, s, s[i], s[j]) PROVE i <= j
  <2>1. PICK a, b \in 1 .. n : a <= b /\ s[a] = s[i] /\ s[b] = s[j]
    BY <1>1 DEF Before
  <2> QED
    BY <2>1
<1> QED
  BY <1>1 DEF Before

LEMMA PathExists ==
    ASSUME NEW n, NEW s, Chain(node, head, tail, n, s), NEW way \in {FIRST, LAST}
    PROVE  \E r : Path(way, n, s, r)
<1>1. /\ n \in Nat /\ s \in [1 .. n -> DOMAIN node]
      /\ \A i, j \in 1 .. n : s[i] = s[j] => i = j
      /\ \A m \in DOMAIN node : \E i \in 1 .. n : s[i] = m
  BY DEF Chain
<1>2. /\ head = IF n = 0 THEN NULL ELSE s[1]
      /\ tail = IF n = 0 THEN NULL ELSE s[n]
      /\ \A i \in 1 .. n : /\ node[s[i]].prev = IF i = 1 THEN NULL ELSE s[i - 1]
                           /\ node[s[i]].next = IF i = n THEN NULL ELSE s[i + 1]
  BY DEF Chain
<1>3. \A i, j \in 1 .. n : Before(n, s, s[i], s[j]) <=> i <= j
  BY <1>1, BeforeIs
<1>4. CASE way = FIRST
  <2>1. End(way) = head /\ \A m : Beyond(way, m) = node[m].next
    BY <1>4 DEF End, Beyond
  <2>2. \A x, y : Toward(way, n, s, x, y) <=> Before(n, s, x, y)
    BY <1>4 DEF Toward
  <2>3. Path(way, n, s, s)
    BY <1>1, <1>2, <1>3, <2>1, <2>2 DEF Path
  <2> QED
    BY <2>3
<1>5. CASE way = LAST
  <2>0. FIRST # LAST
    BY DEF FIRST, LAST
  <2>1. End(way) = tail /\ \A m : Beyond(way, m) = node[m].prev
    BY <1>5, <2>0 DEF End, Beyond
  <2>2. \A x, y : Toward(way, n, s, x, y) <=> Before(n, s, y, x)
    BY <1>5, <2>0 DEF Toward
  <2>3. PICK r : r = [i \in 1 .. n |-> s[n + 1 - i]]
    OBVIOUS
  <2>4. \A i \in 1 .. n : r[i] = s[n + 1 - i] /\ n + 1 - i \in 1 .. n
    BY <1>1, <2>3
  <2>5. r \in [1 .. n -> DOMAIN node]
    BY <1>1, <2>3, <2>4
  <2>6. \A i, j \in 1 .. n : r[i] = r[j] => i = j
    BY <1>1, <2>4
  <2>7. \A m \in DOMAIN node : \E i \in 1 .. n : r[i] = m
    <3> SUFFICES ASSUME NEW m \in DOMAIN node PROVE \E i \in 1 .. n : r[i] = m
      OBVIOUS
    <3>1. PICK i \in 1 .. n : s[i] = m
      BY <1>1
    <3>2. n + 1 - i \in 1 .. n /\ n + 1 - (n + 1 - i) = i
      BY <1>1
    <3>3. r[n + 1 - i] = m
      BY <2>4, <3>1, <3>2
    <3> QED
      BY <3>2, <3>3
  <2>8. End(way) = IF n = 0 THEN NULL ELSE r[1]
    <3>1. n # 0 => 1 \in 1 .. n /\ n + 1 - 1 = n
      BY <1>1
    <3> QED
      BY <1>2, <2>1, <2>4, <3>1
  <2>9. ASSUME NEW i \in 1 .. n PROVE Beyond(way, r[i]) = IF i = n THEN NULL ELSE r[i + 1]
    <3>1. PICK k : k = n + 1 - i
      OBVIOUS
    <3>2. k \in 1 .. n /\ r[i] = s[k] /\ (i = n <=> k = 1)
      BY <1>1, <2>4, <3>1
    <3>3. i # n => i + 1 \in 1 .. n /\ n + 1 - (i + 1) = k - 1
      BY <1>1, <3>1
    <3>4. i # n => r[i + 1] = s[k - 1]
      BY <2>4, <3>3
    <3>5. Beyond(way, s[k]) = IF k = 1 THEN NULL ELSE s[k - 1]
      BY <1>2, <2>1, <3>2
    <3> QED
      BY <3>2, <3>4, <3>5
  <2>10. \A i, j \in 1 .. n : Toward(way, n, s, r[i], r[j]) <=> i <= j
    <3> SUFFICES ASSUME NEW i \in 1 .. n, NEW j \in 1 .. n
                 PROVE  Toward(way, n, s, r[i], r[j]) <=> i <= j
      OBVIOUS
    <3>1. PICK k, l \in 1 .. n : k = n + 1 - i /\ l = n + 1 - j /\ r[i] = s[k] /\ r[j] = s[l]
      BY <2>4
    <3>2. Toward(way, n, s, r[i], r[j]) <=> l <= k
      BY <1>3, <2>2, <3>1
    <3> QED
      BY <1>1, <3>1, <3>2
  <2>11. Path(way, n, s, r)
    BY <1>1, <2>5, <2>6, <2>7, <2>8, <2>9, <2>10 DEF Path
  <2> QED
    BY <2>11
<1> QED
  BY <1>4, <1>5

(* Sets of numbers have a least element. *)

LEMMA NatMin ==
    ASSUME NEW S \in SUBSET Nat, S # {}
    PROVE  \E m \in S : \A n \in S : m <= n
<1> DEFINE F == {0 .. n : n \in S}
<1>1. IsWellFoundedOn(StrictSubsetOrdering(Nat), FiniteSubsetsOf(Nat))
  BY FS_StrictSubsetOrderingWellFounded
<1>2. F \subseteq FiniteSubsetsOf(Nat)
  <2>1. ASSUME NEW n \in S PROVE IsFiniteSet(0 .. n)
    BY FS_Interval
  <2> QED
    BY <2>1 DEF FiniteSubsetsOf
<1>3. PICK X \in F : \A Y \in F : ~ (<<Y, X>> \in StrictSubsetOrdering(Nat))
  <2>1. F # {}
    OBVIOUS
  <2> HIDE DEF F
  <2> QED
    BY <1>1, <1>2, <2>1, WFMin
<1>4. PICK m \in S : X = 0 .. m
  OBVIOUS
<1>5. ASSUME NEW n \in S, n < m PROVE FALSE
  <2>1. <<0 .. n, 0 .. m>> \in StrictSubsetOrdering(Nat)
    <3>1. 0 .. n \in SUBSET Nat /\ 0 .. m \in SUBSET Nat
      OBVIOUS
    <3>2. 0 .. n \subseteq 0 .. m /\ m \in 0 .. m /\ m \notin 0 .. n
      BY <1>5
    <3> QED
      BY <3>1, <3>2 DEF StrictSubsetOrdering
  <2> QED
    BY <1>3, <1>4, <2>1
<1> QED
  BY <1>5

(* What holds at the end, and at i when at i + 1, holds everywhere. *)
LEMMA Backwards ==
    ASSUME NEW n \in Nat, NEW S, n + 1 \in S,
           \A i \in 1 .. n : i + 1 \in S => i \in S
    PROVE  \A i \in 1 .. n + 1 : i \in S
<1> DEFINE B == {d \in 0 .. n : n + 1 - d \notin S}
<1>1. B = {}
  <2> SUFFICES ASSUME B # {} PROVE FALSE
    OBVIOUS
  <2>1. B \in SUBSET Nat
    OBVIOUS
  <2>2. PICK m \in B : \A d \in B : m <= d
    <3> HIDE DEF B
    <3> QED
      BY <2>1, NatMin
  <2>3. m \in 0 .. n /\ n + 1 - m \notin S
    BY <2>2
  <2>4. m # 0
    BY <2>3
  <2>5. m - 1 \in 0 .. n /\ m - 1 \notin B
    BY <2>2, <2>3, <2>4
  <2>6. n + 1 - (m - 1) \in S
    BY <2>5
  <2>7. n + 1 - (m - 1) = (n + 1 - m) + 1 /\ n + 1 - m \in 1 .. n
    BY <2>3, <2>4
  <2> QED
    BY <2>3, <2>6, <2>7
<1>2. ASSUME NEW i \in 1 .. n + 1 PROVE i \in S
  <2>1. n + 1 - i \in 0 .. n /\ n + 1 - (n + 1 - i) = i
    OBVIOUS
  <2>2. n + 1 - i \notin B
    BY <1>1, Zenon
  <2>3. n + 1 - (n + 1 - i) \in S
    BY <2>1, <2>2, Zenon
  <2> QED
    BY <2>1, <2>3, Zenon
<1> QED
  BY <1>2

(* Where a walk begins and how it goes on. *)
LEMMA PathSteps ==
    ASSUME NEW n, NEW s, Chain(node, head, tail, n, s), NEW way \in {FIRST, LAST},
           NULL \notin DOMAIN node
    PROVE  /\ End(way) = NULL <=> DOMAIN node = {}
           /\ End(way) # NULL => /\ End(way) \in DOMAIN node
                                 /\ \A x \in DOMAIN node : Toward(way, n, s, End(way), x)
           /\ \A z \in DOMAIN node :
                /\ Beyond(way, z) \in DOMAIN node \cup {NULL}
                /\ Toward(way, n, s, z, z)
                /\ \A x \in DOMAIN node : (x # z /\ Toward(way, n, s, z, x))
                     <=> (Beyond(way, z) # NULL /\ Toward(way, n, s, Beyond(way, z), x))
<1>1. PICK r : Path(way, n, s, r)
  BY PathExists
<1>2. /\ n \in Nat /\ r \in [1 .. n -> DOMAIN node]
      /\ \A i, j \in 1 .. n : r[i] = r[j] => i = j
      /\ \A m \in DOMAIN node : \E i \in 1 .. n : r[i] = m
      /\ End(way) = IF n = 0 THEN NULL ELSE r[1]
      /\ \A i \in 1 .. n : Beyond(way, r[i]) = IF i = n THEN NULL ELSE r[i + 1]
      /\ \A i, j \in 1 .. n : Toward(way, n, s, r[i], r[j]) <=> i <= j
  BY <1>1 DEF Path
<1>3. n # 0 => 1 \in 1 .. n /\ \A i \in 1 .. n : 1 <= i
  BY <1>2
<1>4. End(way) = NULL <=> DOMAIN node = {}
  BY <1>2, <1>3
<1>5. End(way) # NULL => /\ End(way) \in DOMAIN node
                         /\ \A x \in DOMAIN node : Toward(way, n, s, End(way), x)
  <2> SUFFICES ASSUME End(way) # NULL
               PROVE  /\ End(way) \in DOMAIN node
                      /\ \A x \in DOMAIN node : Toward(way, n, s, End(way), x)
    OBVIOUS
  <2>1. End(way) = r[1] /\ 1 \in 1 .. n /\ \A i \in 1 .. n : 1 <= i
    BY <1>2, <1>3
  <2>2. \A x \in DOMAIN node : Toward(way, n, s, r[1], x)
    <3> SUFFICES ASSUME NEW x \in DOMAIN node PROVE Toward(way, n, s, r[1], x)
      OBVIOUS
    <3>1. PICK i \in 1 .. n : r[i] = x
      BY <1>2
    <3>2. Toward(way, n, s, r[1], r[i])
      BY <1>2, <2>1
    <3> QED
      BY <3>1, <3>2
  <2> QED
    BY <1>2, <2>1, <2>2
<1>6. ASSUME NEW z \in DOMAIN node
      PROVE  /\ Beyond(way, z) \in DOMAIN node \cup {NULL}
             /\ Toward(way, n, s, z, z)
             /\ \A x \in DOMAIN node : (x # z /\ Toward(way, n, s, z, x))
                  <=> (Beyond(way, z) # NULL /\ Toward(way, n, s, Beyond(way, z), x))
  <2>1. PICK i \in 1 .. n : r[i] = z
    BY <1>2
  <2>2. i # n => i + 1 \in 1 .. n
    BY <1>2
  <2>3. Beyond(way, z) = IF i = n THEN NULL ELSE r[i + 1]
    BY <1>2, <2>1
  <2>4. Toward(way, n, s, z, z)
    BY <1>2, <2>1
  <2>5. ASSUME NEW x \in DOMAIN node
        PROVE  (x # z /\ Toward(way, n, s, z, x))
                 <=> (Beyond(way, z) # NULL /\ Toward(way, n, s, Beyond(way, z), x))
    <3>1. PICK j \in 1 .. n : r[j] = x
      BY <1>2
    <3>2. (x # z /\ Toward(way, n, s, z, x)) <=> i < j
      BY <1>2, <2>1, <3>1
    <3>3. CASE i = n
      <4>1. ~(i < j)
        BY <1>2, <3>3
      <4> QED
        BY <2>3, <3>2, <3>3, <4>1
    <3>4. CASE i # n
      <4>1. Toward(way, n, s, r[i + 1], r[j]) <=> i + 1 <= j
        BY <1>2, <2>2, <3>4
      <4>2. i + 1 <= j <=> i < j
        BY <1>2
      <4>3. r[i + 1] # NULL
        BY <1>2, <2>2, <3>4
      <4> QED
        BY <2>3, <3>1, <3>2, <3>4, <4>1, <4>2, <4>3
    <3> QED
      BY <3>3, <3>4
  <2> QED
    BY <1>2, <2>2, <2>3, <2>4, <2>5
<1> QED
  BY <1>4, <1>5, <1>6

(* The recursion of searchFalse, vlist_searchFrom and Passing, which stop  *)
(* at the nodes of S.                                                      *)
Walks(way, S, w) ==
    w = [m \in DOMAIN node \cup {NULL} |-> IF m = NULL \/ m \in S THEN m ELSE w[Beyond(way, m)]]

LEMMA WalkExists ==
    ASSUME NEW n, NEW s, Chain(node, head, tail, n, s), NEW way \in {FIRST, LAST},
           NULL \notin DOMAIN node, NEW S
    PROVE  \E w : Walks(way, S, w)
<1>1. PICK r : Path(way, n, s, r)
  BY PathExists
<1>2. /\ n \in Nat /\ r \in [1 .. n -> DOMAIN node]
      /\ \A i, j \in 1 .. n : r[i] = r[j] => i = j
      /\ \A m \in DOMAIN node : \E i \in 1 .. n : r[i] = m
      /\ \A i \in 1 .. n : Beyond(way, r[i]) = IF i = n THEN NULL ELSE r[i + 1]
  BY <1>1 DEF Path
<1> DEFINE hits(i) == {j \in i .. n : r[j] \in S}
           leastOf(M) == CHOOSE m \in M : \A j \in M : m <= j
           first(i) == IF hits(i) = {} THEN NULL ELSE r[leastOf(hits(i))]
           pos(m)   == CHOOSE i \in 1 .. n : r[i] = m
           w        == [m \in DOMAIN node \cup {NULL} |-> IF m = NULL THEN NULL ELSE first(pos(m))]
<1>3. ASSUME NEW i \in 1 .. n, r[i] \in S
      PROVE  first(i) = r[i]
  <2>1. i \in hits(i) /\ hits(i) \subseteq Nat /\ \A j \in hits(i) : i <= j
    BY <1>2, <1>3
  <2>2. \A m \in hits(i) : (\A j \in hits(i) : m <= j) => m = i
    <3> HIDE DEF hits
    <3> QED
      BY <2>1
  <2>3. leastOf(hits(i)) = i
    <3> HIDE DEF hits
    <3> QED
      BY <2>1, <2>2
  <2> HIDE DEF leastOf, hits
  <2> QED
    BY <2>1, <2>3
<1>4. ASSUME NEW i \in 1 .. n, r[i] \notin S
      PROVE  first(i) = first(i + 1)
  <2>1. hits(i) = hits(i + 1)
    BY <1>2, <1>4
  <2> HIDE DEF leastOf, hits
  <2> QED
    BY <2>1
<1>5. first(n + 1) = NULL
  <2>1. hits(n + 1) = {}
    BY <1>2
  <2> HIDE DEF leastOf, hits
  <2> QED
    BY <2>1
<1>6. ASSUME NEW m \in DOMAIN node
      PROVE  /\ pos(m) \in 1 .. n /\ r[pos(m)] = m
             /\ \A i \in 1 .. n : r[i] = m => pos(m) = i
  BY <1>2
<1> HIDE DEF first, pos
<1>7. w = [m \in DOMAIN node \cup {NULL} |-> w[m]] /\ w[NULL] = NULL
      /\ \A m \in DOMAIN node : w[m] = first(pos(m))
  OBVIOUS
<1> HIDE DEF w
<1>8. ASSUME NEW m \in DOMAIN node
      PROVE  w[m] = IF m \in S THEN m ELSE w[Beyond(way, m)]
  <2>1. PICK i \in 1 .. n : i = pos(m) /\ r[i] = m
    BY <1>6
  <2>2. CASE m \in S
    BY <1>3, <1>7, <2>1, <2>2
  <2>3. CASE m \notin S
    <3>1. w[m] = first(i + 1)
      BY <1>4, <1>7, <2>1, <2>3
    <3>2. i = n => w[Beyond(way, m)] = first(i + 1)
      BY <1>2, <1>5, <1>7, <2>1
    <3>3. i # n => Beyond(way, m) = r[i + 1] /\ i + 1 \in 1 .. n
      BY <1>2, <2>1
    <3>4. i # n => w[Beyond(way, m)] = first(i + 1)
      BY <1>2, <1>6, <1>7, <3>3
    <3> QED
      BY <2>3, <3>1, <3>2, <3>4
  <2> QED
    BY <2>2, <2>3
<1>9. \A m \in DOMAIN node \cup {NULL} :
          w[m] = IF m = NULL \/ m \in S THEN m ELSE w[Beyond(way, m)]
  BY <1>7, <1>8
<1>10. Walks(way, S, w)
  BY <1>7, <1>9 DEF Walks
<1> QED
  BY <1>10

(* z is the first node of S that a walk from m comes to, or NULL if there  *)
(* is none.                                                                *)
Stops(way, n, s, S, m, z) ==
    IF z = NULL
    THEN \A x \in DOMAIN node : Toward(way, n, s, m, x) => x \notin S
    ELSE /\ z \in DOMAIN node /\ z \in S /\ Toward(way, n, s, m, z)
         /\ \A x \in DOMAIN node : Toward(way, n, s, m, x) /\ x \in S => Toward(way, n, s, z, x)

LEMMA WalkStops ==
    ASSUME NEW n, NEW s, Chain(node, head, tail, n, s), NEW way \in {FIRST, LAST},
           NULL \notin DOMAIN node, NEW S, NEW w, Walks(way, S, w)
    PROVE  w[NULL] = NULL /\ \A m \in DOMAIN node : Stops(way, n, s, S, m, w[m])
<1>1. PICK r : Path(way, n, s, r)
  BY PathExists
<1>2. /\ n \in Nat /\ r \in [1 .. n -> DOMAIN node]
      /\ \A m \in DOMAIN node : \E i \in 1 .. n : r[i] = m
      /\ \A i \in 1 .. n : Beyond(way, r[i]) = IF i = n THEN NULL ELSE r[i + 1]
      /\ \A i, j \in 1 .. n : Toward(way, n, s, r[i], r[j]) <=> i <= j
  BY <1>1 DEF Path
<1>3. w[NULL] = NULL /\ \A m \in DOMAIN node : w[m] = IF m \in S THEN m ELSE w[Beyond(way, m)]
  BY DEF Walks
<1> DEFINE pt(i) == IF i = n + 1 THEN NULL ELSE r[i]
           to(i) == \/ w[pt(i)] = NULL /\ \A j \in i .. n : r[j] \notin S
                    \/ \E j \in i .. n : /\ w[pt(i)] = r[j] /\ r[j] \in S
                                         /\ \A k \in i .. n : r[k] \in S => j <= k
           T == {i \in 1 .. n + 1 : to(i)}
<1>4. n + 1 \in T
  BY <1>2, <1>3
<1>5. ASSUME NEW i \in 1 .. n, i + 1 \in T PROVE i \in T
  <2>1. pt(i) = r[i] /\ r[i] \in DOMAIN node /\ Beyond(way, r[i]) = pt(i + 1) /\ i \in i .. n
    BY <1>2
  <2>2. CASE r[i] \in S
    <3>1. w[pt(i)] = r[i]
      BY <1>3, <2>1, <2>2
    <3>2. \A k \in i .. n : i <= k
      BY <1>2
    <3>3. i \in 1 .. n + 1
      BY <1>2
    <3> HIDE DEF pt
    <3> QED
      BY <2>1, <2>2, <3>1, <3>2, <3>3
  <2>3. CASE r[i] \notin S
    <3>1. w[pt(i)] = w[pt(i + 1)]
      <4> HIDE DEF pt
      <4> QED
        BY <1>3, <2>1, <2>3
    <3>2. \A j \in i .. n : j = i \/ j \in i + 1 .. n
      BY <1>2
    <3>3. i \in 1 .. n + 1 /\ \A j \in i + 1 .. n : j \in i .. n
      BY <1>2
    <3> HIDE DEF pt
    <3>4. to(i + 1)
      BY <1>5
    <3>5. to(i)
      BY <2>3, <3>1, <3>2, <3>3, <3>4
    <3> QED
      BY <3>3, <3>5
  <2> QED
    BY <2>2, <2>3
<1>6. \A i \in 1 .. n + 1 : i \in T
  <2> HIDE DEF T
  <2> QED
    BY <1>2, <1>4, <1>5, Backwards
<1>7. ASSUME NEW m \in DOMAIN node PROVE Stops(way, n, s, S, m, w[m])
  <2>1. PICK i \in 1 .. n : r[i] = m
    BY <1>2
  <2>2. i \in T /\ pt(i) = m
    <3>1. i \in 1 .. n + 1 /\ i # n + 1
      BY <1>2
    <3> HIDE DEF T
    <3> QED
      BY <1>6, <2>1, <3>1
  <2>3. \/ w[m] = NULL /\ \A j \in i .. n : r[j] \notin S
        \/ \E j \in i .. n : /\ w[m] = r[j] /\ r[j] \in S
                             /\ \A k \in i .. n : r[k] \in S => j <= k
    <3> HIDE DEF pt
    <3> QED
      BY <2>2
  <2>4. ASSUME NEW x \in DOMAIN node, Toward(way, n, s, m, x)
        PROVE  \E k \in i .. n : r[k] = x
    <3>1. PICK k \in 1 .. n : r[k] = x
      BY <1>2
    <3>2. i <= k
      BY <1>2, <2>1, <2>4, <3>1
    <3> QED
      BY <1>2, <3>1, <3>2
  <2>5. CASE w[m] = NULL /\ \A j \in i .. n : r[j] \notin S
    BY <2>4, <2>5 DEF Stops
  <2>6. ASSUME NEW j \in i .. n, w[m] = r[j], r[j] \in S,
               \A k \in i .. n : r[k] \in S => j <= k
        PROVE  Stops(way, n, s, S, m, w[m])
    <3>1. j \in 1 .. n /\ i <= j
      BY <1>2
    <3>2. r[j] \in DOMAIN node /\ r[j] # NULL /\ Toward(way, n, s, m, r[j])
      BY <1>2, <2>1, <3>1
    <3>3. ASSUME NEW x \in DOMAIN node, Toward(way, n, s, m, x), x \in S
          PROVE  Toward(way, n, s, r[j], x)
      <4>1. PICK k \in i .. n : r[k] = x
        BY <2>4, <3>3
      <4>2. k \in 1 .. n /\ j <= k
        BY <1>2, <2>6, <3>3, <4>1
      <4> QED
        BY <1>2, <3>1, <4>1, <4>2
    <3> QED
      BY <2>6, <3>2, <3>3 DEF Stops
  <2> QED
    BY <2>3, <2>5, <2>6
<1> QED
  BY <1>3, <1>7

(* A walk from an end. *)
LEMMA WalkFromEnd ==
    ASSUME NEW n, NEW s, Chain(node, head, tail, n, s), NEW way \in {FIRST, LAST},
           NULL \notin DOMAIN node, NEW S, NEW w, Walks(way, S, w)
    PROVE  IF w[End(way)] = NULL THEN \A x \in DOMAIN node : x \notin S
           ELSE /\ w[End(way)] \in DOMAIN node /\ w[End(way)] \in S
                /\ \A x \in DOMAIN node : x \in S => Toward(way, n, s, w[End(way)], x)
<1>1. w[NULL] = NULL /\ \A m \in DOMAIN node : Stops(way, n, s, S, m, w[m])
  BY WalkStops
<1>2. /\ End(way) = NULL <=> DOMAIN node = {}
      /\ End(way) # NULL => /\ End(way) \in DOMAIN node
                            /\ \A x \in DOMAIN node : Toward(way, n, s, End(way), x)
  BY PathSteps
<1>3. CASE End(way) = NULL
  BY <1>1, <1>2, <1>3
<1>4. CASE End(way) # NULL
  <2>1. Stops(way, n, s, S, End(way), w[End(way)])
    BY <1>1, <1>2, <1>4
  <2> QED
    BY <1>2, <1>4, <2>1 DEF Stops
<1> QED
  BY <1>3, <1>4

FalseWalks(way, v, w) ==
    w = [m \in DOMAIN node \cup {NULL} |->
           IF m # NULL /\ GoesOn(m, v) THEN w[Beyond(way, m)] ELSE m]

LEMMA SearchFalseStops ==
    ASSUME NEW n, NEW s, Chain(node, head, tail, n, s), NEW way \in {FIRST, LAST},
           NULL \notin DOMAIN node, NEW v, NEW z, z = searchFalse(way, v)
    PROVE  IF z = NULL THEN \A x \in DOMAIN node : GoesOn(x, v)
           ELSE /\ z \in DOMAIN node /\ ~GoesOn(z, v)
                /\ \A x \in DOMAIN node : ~GoesOn(x, v) => Toward(way, n, s, z, x)
<1>1. PICK S : S = {m \in DOMAIN node : ~GoesOn(m, v)}
  OBVIOUS
<1>2. ASSUME NEW w PROVE FalseWalks(way, v, w) <=> Walks(way, S, w)
  <2>1. \A m \in DOMAIN node \cup {NULL} :
          (IF m # NULL /\ GoesOn(m, v) THEN w[Beyond(way, m)] ELSE m)
            = IF m = NULL \/ m \in S THEN m ELSE w[Beyond(way, m)]
    BY <1>1
  <2> QED
    BY <2>1 DEF FalseWalks, Walks
<1>3. PICK w : w = CHOOSE u : FalseWalks(way, v, u)
  OBVIOUS
<1>4. \E u : FalseWalks(way, v, u)
  BY <1>2, WalkExists
<1>5. FalseWalks(way, v, w)
  BY <1>3, <1>4, Zenon
<1>6. z = w[End(way)]
  BY <1>3, Zenon DEF searchFalse, FalseWalks
<1>7. Walks(way, S, w)
  BY <1>2, <1>5
<1>8. IF w[End(way)] = NULL THEN \A x \in DOMAIN node : x \notin S
      ELSE /\ w[End(way)] \in DOMAIN node /\ w[End(way)] \in S
           /\ \A x \in DOMAIN node : x \in S => Toward(way, n, s, w[End(way)], x)
  BY <1>7, WalkFromEnd
<1> QED
  BY <1>1, <1>6, <1>8

EqualWalks(way, v, w) ==
    w = [m \in DOMAIN node \cup {NULL} |->
           IF m # NULL /\ Value(m) # v THEN w[Beyond(way, m)] ELSE m]

LEMMA SearchFromFinds ==
    ASSUME NEW n, NEW s, Chain(node, head, tail, n, s), NEW way \in {FIRST, LAST},
           NULL \notin DOMAIN node, NEW v, vlist_searchFrom(way, v) # NULL
    PROVE  vlist_searchFrom(way, v) \in DOMAIN node
<1>1. PICK S : S = {m \in DOMAIN node : Value(m) = v}
  OBVIOUS
<1>2. ASSUME NEW w PROVE EqualWalks(way, v, w) <=> Walks(way, S, w)
  <2>1. \A m \in DOMAIN node \cup {NULL} :
          (IF m # NULL /\ Value(m) # v THEN w[Beyond(way, m)] ELSE m)
            = IF m = NULL \/ m \in S THEN m ELSE w[Beyond(way, m)]
    BY <1>1
  <2> QED
    BY <2>1 DEF EqualWalks, Walks
<1>3. PICK w : w = CHOOSE u : EqualWalks(way, v, u)
  OBVIOUS
<1>4. \E u : EqualWalks(way, v, u)
  BY <1>2, WalkExists
<1>5. EqualWalks(way, v, w)
  BY <1>3, <1>4, Zenon
<1>6. vlist_searchFrom(way, v) = w[End(way)]
  BY <1>3, Zenon DEF vlist_searchFrom, EqualWalks
<1>7. Walks(way, S, w)
  BY <1>2, <1>5
<1>8. w[End(way)] = NULL \/ w[End(way)] \in DOMAIN node
  BY <1>7, WalkFromEnd
<1> QED
  BY <1>6, <1>8

PassingWalks(t, w) ==
    w = [m \in DOMAIN node \cup {NULL} |->
           IF m = NULL \/ Value(m) \in loop[t].filter THEN m ELSE w[Beyond(loop[t].from, m)]]

(* Where a loop goes on from the cursor. *)
LEMMA PassingIs ==
    ASSUME NEW n, NEW s, Chain(node, head, tail, n, s), NEW t, loop[t].from \in {FIRST, LAST},
           NULL \notin DOMAIN node, cur \in DOMAIN node \cup {NULL}, NEW z, z = Passing(t)
    PROVE  IF z = NULL
           THEN \A x \in DOMAIN node : Ahead(loop[t].from, n, s, x) => Value(x) \notin loop[t].filter
           ELSE /\ z \in DOMAIN node /\ Value(z) \in loop[t].filter
                /\ Ahead(loop[t].from, n, s, z)
                /\ \A x \in DOMAIN node : Ahead(loop[t].from, n, s, x) /\ Value(x) \in loop[t].filter
                                            => Toward(loop[t].from, n, s, z, x)
<1>0. PICK way : way = loop[t].from
  OBVIOUS
<1>1. PICK S : S = {m \in DOMAIN node : Value(m) \in loop[t].filter}
  OBVIOUS
<1>2. ASSUME NEW w PROVE PassingWalks(t, w) <=> Walks(way, S, w)
  <2>1. \A m \in DOMAIN node \cup {NULL} :
          (IF m = NULL \/ Value(m) \in loop[t].filter THEN m ELSE w[Beyond(loop[t].from, m)])
            = IF m = NULL \/ m \in S THEN m ELSE w[Beyond(way, m)]
    BY <1>0, <1>1
  <2> QED
    BY <2>1 DEF PassingWalks, Walks
<1>3. PICK w : w = CHOOSE u : PassingWalks(t, u)
  OBVIOUS
<1>4. \E u : PassingWalks(t, u)
  BY <1>0, <1>2, WalkExists
<1>5. PassingWalks(t, w)
  BY <1>3, <1>4, Zenon
<1>6. z = w[cur]
  BY <1>3, Zenon DEF Passing, PassingWalks
<1>7. Walks(way, S, w)
  BY <1>2, <1>5
<1>8. w[NULL] = NULL /\ \A m \in DOMAIN node : Stops(way, n, s, S, m, w[m])
  BY <1>0, <1>7, WalkStops
<1>9. CASE cur = NULL
  BY <1>6, <1>8, <1>9 DEF Ahead
<1>10. CASE cur # NULL
  <2>1. Stops(way, n, s, S, cur, z)
    BY <1>6, <1>8, <1>10
  <2> QED
    BY <1>0, <1>1, <1>10, <2>1 DEF Stops, Ahead
<1> QED
  BY <1>9, <1>10

------------------------------------------------------------------------------
(* Insertion. *)

LEMMA Types ==
    ASSUME TypeOK
    PROVE  /\ NULL \notin DOMAIN node /\ nNode + 1 \notin DOMAIN node
           /\ nNode \in Nat /\ nNode + 1 \in Nat /\ nNode + 1 # NULL
           /\ node \in [DOMAIN node -> NodeR]
           /\ \A m \in DOMAIN node : m \in Nat /\ m <= nNode /\ m < nNode + 1
           /\ \A m \in DOMAIN node : Value(m) \in Int
<1>1. nNode \in Nat /\ DOMAIN node \subseteq 1 .. nNode /\ node \in [DOMAIN node -> NodeR]
  BY DEF TypeOK, NodeR
<1>2. \A m \in DOMAIN node : node[m].arg \in Values \X (1 .. MaxNodes)
  BY <1>1 DEF NodeR, Items
<1>3. \A m \in DOMAIN node : Value(m) \in Int
  BY <1>2, ValuesAssumption DEF Value
<1> QED
  BY <1>1, <1>3 DEF NULL

LEMMA LinkEffect ==
    ASSUME NEW x \in Nat, NEW new \in NodeR, node \in [DOMAIN node -> NodeR], x \notin DOMAIN node
    PROVE  /\ Link(x, new) \in [DOMAIN node \cup {x} -> NodeR]
           /\ Link(x, new)[x] = new
           /\ Linked(node, Link(x, new), x, new.prev, new.next)
<1>1. PICK g : g = Link(x, new)
  OBVIOUS
<1>2. /\ g = [m \in DOMAIN node \cup {x} |-> g[m]] /\ g[x] = new
      /\ \A m \in DOMAIN node : g[m] = [node[m] EXCEPT !.prev = IF m = new.next THEN x ELSE @,
                                                       !.next = IF m = new.prev THEN x ELSE @]
  BY <1>1 DEF Link
<1>3. ASSUME NEW m \in DOMAIN node
      PROVE  /\ g[m] \in NodeR /\ g[m].arg = node[m].arg
             /\ g[m].prev = IF m = new.next THEN x ELSE node[m].prev
             /\ g[m].next = IF m = new.prev THEN x ELSE node[m].next
  <2>1. node[m] \in NodeR
    OBVIOUS
  <2>2. PICK a, b \in Nat : /\ a = IF m = new.next THEN x ELSE node[m].prev
                            /\ b = IF m = new.prev THEN x ELSE node[m].next
    BY <2>1 DEF NodeR
  <2>3. g[m] = [node[m] EXCEPT !.prev = a, !.next = b]
    BY <1>2, <2>2
  <2>4. /\ [node[m] EXCEPT !.prev = a, !.next = b] \in NodeR
        /\ [node[m] EXCEPT !.prev = a, !.next = b].arg = node[m].arg
        /\ [node[m] EXCEPT !.prev = a, !.next = b].prev = a
        /\ [node[m] EXCEPT !.prev = a, !.next = b].next = b
    BY <2>1 DEF NodeR
  <2> QED
    BY <2>2, <2>3, <2>4
<1>4. g \in [DOMAIN node \cup {x} -> NodeR]
  BY <1>2, <1>3
<1>5. Linked(node, g, x, new.prev, new.next)
  BY <1>2, <1>3 DEF Linked
<1> QED
  BY <1>1, <1>2, <1>4, <1>5

(* The new node of vlist_insertFrom. *)
New(v) ==
    LET n  == nNode + 1
        at == IF from = NONE THEN NULL ELSE searchFalse(from, v)
    IN  CASE from = LAST /\ at = NULL  -> NewNode(v, n, NULL, head)
          [] from = LAST /\ at # NULL  -> NewNode(v, n, at, node[at].next)
          [] from # LAST /\ at = NULL  -> NewNode(v, n, tail, NULL)
          [] from # LAST /\ at # NULL  -> NewNode(v, n, node[at].prev, at)

(* It goes to where its item belongs. *)
LEMMA PlaceFor ==
    ASSUME TypeOK, Numbered, NEW s, Chain(node, head, tail, size, s),
           Sorted(from, node, size, s), NEW v \in Values, NEW x, x = nNode + 1
    PROVE  \E k \in 1 .. size + 1 :
             /\ New(v) = NewNode(v, x, IF k = 1 THEN NULL ELSE s[k - 1],
                                       IF k = size + 1 THEN NULL ELSE s[k])
             /\ \A i \in 1 .. size : i < k => ItemsInOrder(from, node[s[i]].arg, <<v, x>>)
             /\ \A i \in 1 .. size : k <= i => ItemsInOrder(from, <<v, x>>, node[s[i]].arg)
<1> DEFINE Fits(k) ==
             /\ New(v) = NewNode(v, x, IF k = 1 THEN NULL ELSE s[k - 1],
                                       IF k = size + 1 THEN NULL ELSE s[k])
             /\ \A i \in 1 .. size : i < k => ItemsInOrder(from, node[s[i]].arg, <<v, x>>)
             /\ \A i \in 1 .. size : k <= i => ItemsInOrder(from, <<v, x>>, node[s[i]].arg)
<1>1. /\ size \in Nat /\ s \in [1 .. size -> DOMAIN node]
      /\ \A i, j \in 1 .. size : s[i] = s[j] => i = j
      /\ \A m \in DOMAIN node : \E i \in 1 .. size : s[i] = m
  BY DEF Chain
<1>2. /\ head = IF size = 0 THEN NULL ELSE s[1]
      /\ tail = IF size = 0 THEN NULL ELSE s[size]
      /\ \A i \in 1 .. size : /\ node[s[i]].prev = IF i = 1 THEN NULL ELSE s[i - 1]
                              /\ node[s[i]].next = IF i = size THEN NULL ELSE s[i + 1]
  BY DEF Chain
<1>3. /\ NULL \notin DOMAIN node /\ x \in Nat /\ \A m \in DOMAIN node : m \in Nat /\ m < x
      /\ \A m \in DOMAIN node : Value(m) \in Int
      /\ v \in Int
  BY Types, ValuesAssumption
<1>4. \A m \in DOMAIN node : node[m].arg[1] = Value(m) /\ node[m].arg[2] = m
  BY DEF Numbered, Value
<1>5. /\ FIRST # LAST /\ FIRST # NONE /\ LAST # NONE /\ FIRST \in {FIRST, LAST} /\ LAST \in {FIRST, LAST}
      /\ from \in {NONE, FIRST, LAST}
  BY DEF FIRST, LAST, NONE, TypeOK
<1>6. <<v, x>>[1] = v /\ <<v, x>>[2] = x
  OBVIOUS
<1>7. \A i, j \in 1 .. size : Before(size, s, s[i], s[j]) <=> i <= j
  BY <1>1, BeforeIs
<1>8. CASE from = NONE
  <2>1. New(v) = NewNode(v, x, tail, NULL)
    BY <1>5, <1>8 DEF New
  <2>2. \A m \in DOMAIN node : ItemsInOrder(from, node[m].arg, <<v, x>>)
    BY <1>3, <1>4, <1>5, <1>6, <1>8 DEF ItemsInOrder
  <2>3. size + 1 \in 1 .. size + 1 /\ (size = 0 <=> size + 1 = 1) /\ size + 1 - 1 = size
        /\ \A i \in 1 .. size : ~(size + 1 <= i)
    BY <1>1
  <2>4. Fits(size + 1)
    BY <1>1, <1>2, <2>1, <2>2, <2>3
  <2> QED
    BY <2>3, <2>4
<1>9. CASE from = FIRST
  <2>0. PICK z : z = searchFalse(FIRST, v)
    OBVIOUS
  <2>1. IF z = NULL THEN \A m \in DOMAIN node : GoesOn(m, v)
        ELSE /\ z \in DOMAIN node /\ ~GoesOn(z, v)
             /\ \A m \in DOMAIN node : ~GoesOn(m, v) => Toward(FIRST, size, s, z, m)
    BY <1>3, <1>5, <2>0, SearchFalseStops
  <2>2. New(v) = IF z = NULL THEN NewNode(v, x, tail, NULL) ELSE NewNode(v, x, node[z].prev, z)
    BY <1>5, <1>9, <2>0 DEF New
  <2>3. \A a, b : ItemsInOrder(from, a, b) <=> a[1] < b[1] \/ (a[1] = b[1] /\ b[2] < a[2])
    BY <1>5, <1>9 DEF ItemsInOrder
  <2>4. CASE z = NULL
    <3>1. \A m \in DOMAIN node : ItemsInOrder(from, node[m].arg, <<v, x>>)
      BY <1>4, <1>6, <2>1, <2>3, <2>4 DEF GoesOn
    <3>2. size + 1 \in 1 .. size + 1 /\ (size = 0 <=> size + 1 = 1) /\ size + 1 - 1 = size
          /\ \A i \in 1 .. size : ~(size + 1 <= i)
      BY <1>1
    <3>3. Fits(size + 1)
      BY <1>1, <1>2, <2>2, <2>4, <3>1, <3>2
    <3> QED
      BY <3>2, <3>3
  <2>5. CASE z # NULL
    <3>1. PICK k \in 1 .. size : s[k] = z
      BY <1>1, <2>1, <2>5
    <3>2. k \in 1 .. size + 1 /\ k # size + 1 /\ k \in Nat
      BY <1>1
    <3>3. New(v) = NewNode(v, x, IF k = 1 THEN NULL ELSE s[k - 1], IF k = size + 1 THEN NULL ELSE s[k])
      BY <1>2, <2>2, <2>5, <3>1, <3>2
    <3>4. ASSUME NEW i \in 1 .. size, i < k PROVE ItemsInOrder(from, node[s[i]].arg, <<v, x>>)
      <4>1. ~Before(size, s, s[k], s[i])
        BY <1>1, <1>7, <3>4
      <4>2. GoesOn(s[i], v)
        BY <1>1, <2>1, <2>5, <3>1, <4>1 DEF Toward
      <4> QED
        BY <1>1, <1>4, <1>6, <2>3, <4>2 DEF GoesOn
    <3>5. ASSUME NEW i \in 1 .. size, k <= i PROVE ItemsInOrder(from, <<v, x>>, node[s[i]].arg)
      <4>1. s[i] \in DOMAIN node /\ s[k] \in DOMAIN node /\ s[i] < x /\ s[i] \in Nat /\ x \in Nat
        BY <1>1, <1>3
      <4>2. v <= Value(s[k])
        BY <1>3, <2>1, <2>5, <3>1, <4>1 DEF GoesOn
      <4>3. i # k => ItemsInOrder(from, node[s[k]].arg, node[s[i]].arg)
        BY <3>2, <3>5, <1>1 DEF Sorted
      <4>4. Value(s[k]) <= Value(s[i])
        BY <1>3, <1>4, <2>3, <4>1, <4>3
      <4>5. v <= Value(s[i])
        BY <1>3, <4>1, <4>2, <4>4
      <4> QED
        BY <1>3, <1>4, <1>6, <2>3, <4>1, <4>5
    <3>6. Fits(k)
      BY <3>3, <3>4, <3>5
    <3> QED
      BY <3>2, <3>6
  <2> QED
    BY <2>4, <2>5
<1>10. CASE from = LAST
  <2>0. PICK z : z = searchFalse(LAST, v)
    OBVIOUS
  <2>1. IF z = NULL THEN \A m \in DOMAIN node : GoesOn(m, v)
        ELSE /\ z \in DOMAIN node /\ ~GoesOn(z, v)
             /\ \A m \in DOMAIN node : ~GoesOn(m, v) => Toward(LAST, size, s, z, m)
    BY <1>3, <1>5, <2>0, SearchFalseStops
  <2>2. New(v) = IF z = NULL THEN NewNode(v, x, NULL, head) ELSE NewNode(v, x, z, node[z].next)
    BY <1>5, <1>10, <2>0 DEF New
  <2>3. \A a, b : ItemsInOrder(from, a, b) <=> b[1] < a[1] \/ (a[1] = b[1] /\ a[2] < b[2])
    BY <1>5, <1>10 DEF ItemsInOrder
  <2>4. CASE z = NULL
    <3>1. \A m \in DOMAIN node : ItemsInOrder(from, <<v, x>>, node[m].arg)
      BY <1>4, <1>6, <2>1, <2>3, <2>4 DEF GoesOn
    <3>2. 1 \in 1 .. size + 1 /\ (size = 0 <=> 1 = size + 1) /\ \A i \in 1 .. size : ~(i < 1)
      BY <1>1
    <3>3. Fits(1)
      BY <1>1, <1>2, <2>2, <2>4, <3>1, <3>2
    <3> QED
      BY <3>2, <3>3
  <2>5. CASE z # NULL
    <3>0. PICK j \in 1 .. size : s[j] = z
      BY <1>1, <2>1, <2>5
    <3>1. PICK k : k = j + 1
      OBVIOUS
    <3>2. /\ k \in 1 .. size + 1 /\ k # 1 /\ k \in Nat /\ j \in Nat /\ k - 1 = j
          /\ k = size + 1 <=> j = size
      BY <1>1, <3>1
    <3>3. New(v) = NewNode(v, x, IF k = 1 THEN NULL ELSE s[k - 1], IF k = size + 1 THEN NULL ELSE s[k])
      BY <1>2, <2>2, <2>5, <3>0, <3>1, <3>2
    <3>4. ASSUME NEW i \in 1 .. size, k <= i PROVE ItemsInOrder(from, <<v, x>>, node[s[i]].arg)
      <4>1. ~Before(size, s, s[i], s[j])
        BY <1>1, <1>7, <3>1, <3>2, <3>4
      <4>2. GoesOn(s[i], v)
        BY <1>1, <1>5, <2>1, <2>5, <3>0, <4>1 DEF Toward
      <4> QED
        BY <1>1, <1>4, <1>6, <2>3, <4>2 DEF GoesOn
    <3>5. ASSUME NEW i \in 1 .. size, i < k PROVE ItemsInOrder(from, node[s[i]].arg, <<v, x>>)
      <4>1. s[i] \in DOMAIN node /\ s[j] \in DOMAIN node /\ s[i] < x /\ s[i] \in Nat /\ x \in Nat
        BY <1>1, <1>3
      <4>2. v <= Value(s[j])
        BY <1>3, <2>1, <2>5, <3>0, <4>1 DEF GoesOn
      <4>3. i # j => i < j
        BY <1>1, <3>1, <3>2, <3>5
      <4>4. i # j => ItemsInOrder(from, node[s[i]].arg, node[s[j]].arg)
        BY <4>3 DEF Sorted
      <4>5. Value(s[j]) <= Value(s[i])
        BY <1>3, <1>4, <2>3, <4>1, <4>4
      <4>6. v <= Value(s[i])
        BY <1>3, <4>1, <4>2, <4>5
      <4> QED
        BY <1>3, <1>4, <1>6, <2>3, <4>1, <4>6
    <3>6. Fits(k)
      BY <3>3, <3>4, <3>5
    <3> QED
      BY <3>2, <3>6
  <2> QED
    BY <2>4, <2>5
<1> QED
  BY <1>5, <1>8, <1>9, <1>10

LEMMA InsertSorted ==
    ASSUME NEW way, NEW f, NEW g, NEW n \in Nat, NEW s, NEW k \in 1 .. n + 1, NEW x, NEW y,
           Sorted(way, f, n, s),
           \A i \in 1 .. n : g[s[i]].arg = f[s[i]].arg, g[x].arg = y,
           \A i \in 1 .. n : i < k => ItemsInOrder(way, f[s[i]].arg, y),
           \A i \in 1 .. n : k <= i => ItemsInOrder(way, y, f[s[i]].arg)
    PROVE  Sorted(way, g, n + 1, InsertAt(n, s, k, x))
<1>0. n \in Nat /\ k \in Nat
  OBVIOUS
<1>1. PICK r : r = InsertAt(n, s, k, x)
  OBVIOUS
<1>2. /\ r[k] = x
      /\ \A i \in 1 .. n : i < k => r[i] = s[i]
      /\ \A i \in 1 .. n : k <= i => r[i + 1] = s[i]
      /\ \A j \in 1 .. n + 1 : \/ j = k
                               \/ j < k /\ j \in 1 .. n
                               \/ k < j /\ j - 1 \in 1 .. n /\ k <= j - 1 /\ j - 1 + 1 = j
  BY <1>0, <1>1 DEF InsertAt
<1>3. \A i, j \in 1 .. n : i < j => ItemsInOrder(way, f[s[i]].arg, f[s[j]].arg)
  BY DEF Sorted
<1>4. ASSUME NEW j \in 1 .. n + 1
      PROVE  \/ j = k /\ r[j] = x /\ g[r[j]].arg = y
             \/ \E i \in 1 .. n : /\ g[r[j]].arg = f[s[i]].arg
                                  /\ j = IF i < k THEN i ELSE i + 1
  <2>1. CASE j < k /\ j \in 1 .. n
    BY <1>2, <2>1
  <2>2. CASE k < j /\ j - 1 \in 1 .. n /\ k <= j - 1 /\ j - 1 + 1 = j
    <3>1. PICK i \in 1 .. n : i = j - 1
      BY <2>2
    <3>2. k <= i /\ ~(i < k) /\ j = i + 1 /\ r[j] = s[i]
      BY <1>0, <1>2, <2>2, <3>1
    <3> QED
      BY <3>2
  <2>3. CASE j = k
    BY <1>2, <2>3
  <2> QED
    BY <1>2, <2>1, <2>2, <2>3
<1>5. ASSUME NEW i \in 1 .. n + 1, NEW j \in 1 .. n + 1, i < j
      PROVE  ItemsInOrder(way, g[r[i]].arg, g[r[j]].arg)
  <2>1. CASE i = k /\ g[r[i]].arg = y
    <3>1. PICK b \in 1 .. n : g[r[j]].arg = f[s[b]].arg /\ k <= b
      <4>1. j # k
        BY <1>0, <1>5, <2>1
      <4>2. PICK b \in 1 .. n : /\ g[r[j]].arg = f[s[b]].arg
                                /\ j = IF b < k THEN b ELSE b + 1
        BY <1>4, <4>1
      <4>3. k <= b
        BY <1>0, <1>5, <2>1, <4>2
      <4> QED
        BY <4>2, <4>3
    <3> QED
      BY <2>1, <3>1
  <2>2. ASSUME NEW a \in 1 .. n, g[r[i]].arg = f[s[a]].arg,
               i = IF a < k THEN a ELSE a + 1
        PROVE  ItemsInOrder(way, g[r[i]].arg, g[r[j]].arg)
    <3>1. CASE j = k /\ g[r[j]].arg = y
      <4>1. a < k
        BY <1>0, <1>5, <2>2, <3>1
      <4> QED
        BY <2>2, <3>1, <4>1
    <3>2. ASSUME NEW b \in 1 .. n, g[r[j]].arg = f[s[b]].arg,
                 j = IF b < k THEN b ELSE b + 1
          PROVE  ItemsInOrder(way, g[r[i]].arg, g[r[j]].arg)
      <4>1. a < b
        BY <1>0, <1>5, <2>2, <3>2
      <4> QED
        BY <1>3, <2>2, <3>2, <4>1
    <3> QED
      BY <1>4, <3>1, <3>2
  <2> QED
    BY <1>4, <2>1, <2>2
<1> QED
  BY <1>1, <1>5 DEF Sorted

LEMMA InsertStep ==
    ASSUME IndInv, NEW t \in Threads, NEW v \in Values, Insert(t, v)
    PROVE  IndInv'
<1>0. TypeOK /\ Numbered /\ Exclusive /\ size \in Nat /\ \A u \in Threads : Visits(u)
  BY DEF IndInv
<1>1. PICK s \in [1 .. size -> DOMAIN node] : Shape(s)
  BY DEF IndInv
<1>2. Chain(node, head, tail, size, s) /\ Sorted(from, node, size, s)
      /\ \A u \in Threads : LoopSound(u, size, s)
  BY <1>1 DEF Shape
<1>3. PICK x, new : x = nNode + 1 /\ new = New(v)
  OBVIOUS
<1>4. /\ nNode < MaxNodes /\ nNode' = x /\ items' = items \cup {<<v, x>>}
      /\ node' = Link(x, new)
      /\ head' = (IF new.prev = NULL THEN x ELSE head)
      /\ tail' = (IF new.next = NULL THEN x ELSE tail)
      /\ size' = size + 1 /\ memUsage' = memUsage + NodeSize + IntSize /\ cur' = cur
      /\ UNCHANGED <<mutex, from, pc, loop, p, seen, owed>>
  BY <1>3 DEF Insert, vlist_insertFrom, New
<1>5. PICK k \in 1 .. size + 1 :
             /\ new = NewNode(v, x, IF k = 1 THEN NULL ELSE s[k - 1],
                                    IF k = size + 1 THEN NULL ELSE s[k])
             /\ \A i \in 1 .. size : i < k => ItemsInOrder(from, node[s[i]].arg, <<v, x>>)
             /\ \A i \in 1 .. size : k <= i => ItemsInOrder(from, <<v, x>>, node[s[i]].arg)
  BY <1>0, <1>2, <1>3, PlaceFor
<1>6. /\ NULL \notin DOMAIN node /\ x \notin DOMAIN node /\ x \in Nat /\ x # NULL
      /\ node \in [DOMAIN node -> NodeR] /\ \A m \in DOMAIN node : m \in Nat /\ m < x
      /\ nNode \in Nat
  BY <1>0, <1>3, Types
<1>7. <<v, x>> \in Items
  <2>1. x \in 1 .. MaxNodes
    BY <1>3, <1>4, <1>6, MaxNodesAssumption
  <2> QED
    BY <2>1 DEF Items
<1>8. PICK a, b : /\ a = IF k = 1 THEN NULL ELSE s[k - 1]
                  /\ b = IF k = size + 1 THEN NULL ELSE s[k]
  OBVIOUS
<1>9. new = [arg |-> <<v, x>>, prev |-> a, next |-> b] /\ a \in Nat /\ b \in Nat
  <2>1. k # 1 => k - 1 \in 1 .. size
    BY <1>0
  <2>2. k # size + 1 => k \in 1 .. size
    BY <1>0
  <2> QED
    BY <1>5, <1>6, <1>8, <2>1, <2>2 DEF NewNode, NULL
<1>10. new \in NodeR /\ new.arg = <<v, x>> /\ new.prev = a /\ new.next = b
  BY <1>7, <1>9 DEF NodeR
<1>l. /\ Link(x, new) \in [DOMAIN node \cup {x} -> NodeR]
      /\ Link(x, new)[x] = new
      /\ Linked(node, Link(x, new), x, a, b)
  BY <1>6, <1>10, LinkEffect
<1>11. /\ node' \in [DOMAIN node \cup {x} -> NodeR] /\ node'[x] = new
       /\ \A m \in DOMAIN node : node'[m].arg = node[m].arg
  BY <1>4, <1>l DEF Linked
<1>12. DOMAIN node' = DOMAIN node \cup {x}
  BY <1>11
<1>13. TypeOK'
  <2>0. DOMAIN node \subseteq 1 .. nNode
    BY <1>0 DEF TypeOK
  <2>1. nNode' \in 0 .. MaxNodes /\ DOMAIN node' \subseteq 1 .. nNode'
    <3>1. nNode' = nNode + 1 /\ nNode < MaxNodes
      BY <1>3, <1>4
    <3> QED
      BY <1>3, <1>6, <1>12, <2>0, <3>1, MaxNodesAssumption
  <2>2. node' \in [DOMAIN node' -> [arg : Items, prev : Nat, next : Nat]]
    BY <1>11, <1>12 DEF NodeR
  <2>3. head' \in Nat /\ tail' \in Nat /\ size' \in Int /\ memUsage' \in Int /\ cur' \in Nat
    BY <1>0, <1>4, <1>6 DEF TypeOK, NodeSize, IntSize
  <2> QED
    BY <1>0, <1>4, <1>7, <2>1, <2>2, <2>3 DEF TypeOK
<1>14. Numbered'
  <2>1. \A m \in DOMAIN node' : node'[m].arg[2] = m
    BY <1>0, <1>10, <1>11, <1>12 DEF Numbered
  <2>2. items' = {node'[m].arg : m \in DOMAIN node'}
    <3>1. items = {node[m].arg : m \in DOMAIN node}
      BY <1>0 DEF Numbered
    <3>2. node'[x].arg = <<v, x>>
      BY <1>10, <1>11
    <3>3. \A m \in DOMAIN node : node'[m].arg = node[m].arg
      BY <1>11
    <3> QED
      <4>1. {node'[m].arg : m \in DOMAIN node'} = {node[m].arg : m \in DOMAIN node} \cup {<<v, x>>}
        BY <1>12, <3>2, <3>3
      <4> QED
        BY <1>4, <3>1, <4>1
  <2>3. memUsage' = HeaderSize + (NodeSize + IntSize) * size'
    BY <1>0, <1>4 DEF Numbered, HeaderSize, NodeSize, IntSize
  <2> QED
    BY <2>1, <2>2, <2>3 DEF Numbered
<1>15. Exclusive' /\ size' \in Nat
  BY <1>0, <1>4 DEF Exclusive
<1>16. \A u \in Threads : Visits(u)'
  <2>1. ASSUME NEW u \in Threads PROVE Visits(u)'
    <3>1. Visits(u)
      BY <1>0
    <3>2. \A y \in Seen(u) : y[2] <= nNode'
      <4>1. ASSUME NEW y \in Seen(u) PROVE y[2] <= nNode'
        <5>1. y[2] \in 1 .. MaxNodes
          BY <1>0 DEF TypeOK, Seen, Items
        <5>2. y[2] <= nNode
          BY <3>1 DEF Visits
        <5> QED
          BY <1>3, <1>4, <1>6, <5>1, <5>2
      <4> QED
        BY <4>1
    <3>3. Seen(u)' = Seen(u)
      BY <1>4 DEF Seen
    <3> QED
      BY <1>4, <3>1, <3>2, <3>3 DEF Visits
  <2> QED
    BY <2>1
<1>17. PICK r : r = InsertAt(size, s, k, x)
  OBVIOUS
<1>18. Chain(node', head', tail', size', r)
  <2>1. PICK g, h2, t2 : g = node' /\ h2 = head' /\ t2 = tail'
    OBVIOUS
  <2>2. Chain(node, head, tail, size, s)
    BY <1>2
  <2>3. Linked(node, g, x, a, b)
    BY <1>4, <1>l, <2>1
  <2>4. Ends(x, a, b, head, tail, h2, t2)
    BY <1>4, <1>10, <2>1 DEF Ends
  <2>5. Between(size, s, k, a, b)
    BY <1>8 DEF Between
  <2>6. NULL \notin DOMAIN node /\ x \notin DOMAIN node /\ x # NULL
    BY <1>6
  <2>7. Chain(g, h2, t2, size + 1, InsertAt(size, s, k, x))
    BY <2>2, <2>3, <2>4, <2>5, <2>6, InsertChain
  <2>8. size' = size + 1
    BY <1>4
  <2> QED
    BY <1>17, <2>1, <2>7, <2>8
<1>19. Sorted(from', node', size', r)
  <2>1. \A i \in 1 .. size : node'[s[i]].arg = node[s[i]].arg
    BY <1>1, <1>11
  <2>2. node'[x].arg = <<v, x>>
    BY <1>10, <1>11
  <2>3. Sorted(from, node', size + 1, r)
    BY <1>0, <1>2, <1>5, <1>17, <2>1, <2>2, InsertSorted
  <2> QED
    BY <1>4, <2>3
<1>20. ASSUME NEW u \in Threads PROVE LoopSound(u, size, r)'
  <2> SUFFICES ASSUME pc[u] = "loop"
               PROVE  /\ cur' \in DOMAIN node' \cup {NULL}
                      /\ p'[u] # NULL => p'[u] \in DOMAIN node' /\ node'[p'[u]].arg \in Seen(u)'
                      /\ \A m \in DOMAIN node' :
                            Ahead(loop[u].from, size, r, m)' => node'[m].arg \notin Seen(u)'
                      /\ \A y \in owed'[u] :
                            /\ y[1] \in loop'[u].filter
                            /\ y[2] \in DOMAIN node' /\ node'[y[2]].arg = y
                            /\ Ahead(loop[u].from, size, r, y[2])'
    BY <1>4 DEF LoopSound
  <2>1. /\ cur \in DOMAIN node \cup {NULL}
        /\ p[u] # NULL => p[u] \in DOMAIN node /\ node[p[u]].arg \in Seen(u)
        /\ \A m \in DOMAIN node : Ahead(loop[u].from, size, s, m) => node[m].arg \notin Seen(u)
        /\ \A y \in owed[u] :
             /\ y[1] \in loop[u].filter
             /\ y[2] \in DOMAIN node /\ node[y[2]].arg = y /\ Ahead(loop[u].from, size, s, y[2])
    BY <1>2 DEF LoopSound
  <2>2. Seen(u)' = Seen(u) /\ cur' = cur /\ loop' = loop /\ p' = p /\ owed' = owed
    BY <1>4 DEF Seen
  <2>3. \A m \in DOMAIN node : Ahead(loop[u].from, size, r, m)' <=> Ahead(loop[u].from, size, s, m)
    <3>1. ASSUME NEW m \in DOMAIN node, cur # NULL
          PROVE  Toward(loop[u].from, size + 1, r, cur, m) <=> Toward(loop[u].from, size, s, cur, m)
      <4>1. cur # x /\ m # x
        BY <1>6, <2>1, <3>1
      <4> QED
        BY <1>0, <1>17, <4>1, InsertBefore DEF Toward
    <3>2. \A m : Ahead(loop[u].from, size, r, m)' <=>
                   (cur # NULL /\ Toward(loop[u].from, size + 1, r, cur, m))
      BY <1>4, <2>2 DEF Ahead
    <3> QED
      BY <3>1, <3>2 DEF Ahead
  <2>4. node'[x].arg \notin Seen(u)
    <3>1. \A y \in Seen(u) : y[2] <= nNode
      BY <1>0 DEF Visits
    <3>2. <<v, x>>[2] = x /\ ~(x <= nNode)
      BY <1>3, <1>6
    <3> QED
      BY <1>10, <1>11, <3>1, <3>2
  <2> QED
    BY <1>11, <1>12, <2>1, <2>2, <2>3, <2>4
<1>21. \E z \in [1 .. size' -> DOMAIN node'] : Shape(z)'
  <2>1. r \in [1 .. size' -> DOMAIN node']
    BY <1>18 DEF Chain
  <2>2. Shape(r)'
    <3>1. Chain(node, head, tail, size, r)'
      BY <1>18
    <3>2. Sorted(from, node, size, r)'
      BY <1>19
    <3>3. \A u \in Threads : LoopSound(u, size, r)'
      BY <1>20
    <3> QED
      BY <3>1, <3>2, <3>3 DEF Shape
  <2> QED
    BY <2>1, <2>2
<1> QED
  BY <1>13, <1>14, <1>15, <1>16, <1>21 DEF IndInv

------------------------------------------------------------------------------
(* delete *)

LEMMA DropSorted ==
    ASSUME NEW way, NEW f, NEW g, NEW n \in Nat, NEW s, NEW k \in 1 .. n,
           Sorted(way, f, n, s),
           \A i \in 1 .. n : i # k => g[s[i]].arg = f[s[i]].arg
    PROVE  Sorted(way, g, n - 1, Drop(n, s, k))
<1>0. PICK o : Skips(n, s, k, o)
  BY DropFacts
<1>1. PICK r : r = Drop(n, s, k)
  OBVIOUS
<1>2. /\ \A i \in 1 .. n - 1 : r[i] = s[o[i]] /\ o[i] \in 1 .. n /\ o[i] # k
      /\ \A i, j \in 1 .. n - 1 : i < j <=> o[i] < o[j]
  BY <1>0, <1>1 DEF Skips
<1>3. ASSUME NEW i \in 1 .. n - 1, NEW j \in 1 .. n - 1, i < j
      PROVE  ItemsInOrder(way, g[r[i]].arg, g[r[j]].arg)
  <2>1. o[i] \in 1 .. n /\ o[j] \in 1 .. n /\ o[i] < o[j] /\ o[i] # k /\ o[j] # k
    BY <1>2, <1>3
  <2>2. ItemsInOrder(way, f[s[o[i]]].arg, f[s[o[j]]].arg)
    BY <2>1 DEF Sorted
  <2>3. r[i] = s[o[i]] /\ r[j] = s[o[j]]
    BY <1>2
  <2> QED
    BY <2>1, <2>2, <2>3
<1> QED
  BY <1>1, <1>3 DEF Sorted

LEMMA DeleteEffect ==
    ASSUME node \in [DOMAIN node -> NodeR], NEW x \in DOMAIN node, vlist_delete(x)
    PROVE  /\ node' \in [DOMAIN node \ {x} -> NodeR]
           /\ Unlinked(node, node', x)
           /\ EndsWithout(node, x, head, tail, head', tail')
           /\ items' = items \ {node[x].arg} /\ size' = size - 1 /\ nNode' = nNode
           /\ memUsage' = memUsage - NodeSize - IntSize
           /\ cur' = IF cur = x THEN NULL ELSE cur
<1>1. node' = [m \in DOMAIN node \ {x} |->
                 [node[m] EXCEPT !.next = IF m = node[x].prev THEN node[x].next ELSE @,
                                 !.prev = IF m = node[x].next THEN node[x].prev ELSE @]]
  BY DEF vlist_delete
<1>2. \A m \in DOMAIN node : /\ node[m] \in NodeR /\ node[m].prev \in Nat
                             /\ node[m].next \in Nat /\ node[m].arg \in Items
  BY DEF NodeR
<1>3. ASSUME NEW m \in DOMAIN node \ {x}
      PROVE  /\ node'[m] \in NodeR /\ node'[m].arg = node[m].arg
             /\ node'[m].next = IF m = node[x].prev THEN node[x].next ELSE node[m].next
             /\ node'[m].prev = IF m = node[x].next THEN node[x].prev ELSE node[m].prev
  BY <1>1, <1>2 DEF NodeR
<1>4. node' \in [DOMAIN node \ {x} -> NodeR] /\ DOMAIN node' = DOMAIN node \ {x}
  BY <1>1, <1>3
<1>5. Unlinked(node, node', x)
  BY <1>3, <1>4 DEF Unlinked
<1>6. EndsWithout(node, x, head, tail, head', tail')
  BY DEF vlist_delete, EndsWithout
<1>7. /\ items' = items \ {node[x].arg} /\ size' = size - 1 /\ nNode' = nNode
      /\ memUsage' = memUsage - NodeSize - IntSize
      /\ cur' = IF cur = x THEN NULL ELSE cur
  BY DEF vlist_delete
<1> QED
  BY <1>4, <1>5, <1>6, <1>7

(* Thread t deletes the node x, which it no longer owes a visit. *)
Removes(t, x) ==
    /\ pc[t] \in {"locked", "loop"} /\ x \in DOMAIN node /\ vlist_delete(x)
    /\ UNCHANGED <<mutex, from, pc, loop, seen>>
    /\ p' \in [Threads -> Nat] /\ owed' \in [Threads -> SUBSET Items]
    /\ \A u \in Threads \ {t} : p'[u] = p[u] /\ owed'[u] = owed[u]
    /\ p'[t] \in {p[t], NULL} /\ p'[t] # x
    /\ owed'[t] \subseteq owed[t] /\ node[x].arg \notin owed'[t]
    /\ x = cur => owed'[t] = {}

LEMMA DeleteStep ==
    ASSUME IndInv, NEW t \in Threads, NEW x, Removes(t, x)
    PROVE  IndInv'
<1>0. TypeOK /\ Numbered /\ Exclusive /\ size \in Nat /\ \A u \in Threads : Visits(u)
  BY DEF IndInv
<1>1. PICK s \in [1 .. size -> DOMAIN node] : Shape(s)
  BY DEF IndInv
<1>2. Chain(node, head, tail, size, s) /\ Sorted(from, node, size, s)
      /\ \A u \in Threads : LoopSound(u, size, s)
  BY <1>1 DEF Shape
<1>3. /\ pc[t] \in {"locked", "loop"} /\ x \in DOMAIN node /\ vlist_delete(x)
      /\ UNCHANGED <<mutex, from, pc, loop, seen>>
      /\ p' \in [Threads -> Nat] /\ owed' \in [Threads -> SUBSET Items]
      /\ \A u \in Threads \ {t} : p'[u] = p[u] /\ owed'[u] = owed[u]
      /\ p'[t] \in {p[t], NULL} /\ p'[t] # x
      /\ owed'[t] \subseteq owed[t] /\ node[x].arg \notin owed'[t]
      /\ x = cur => owed'[t] = {}
  BY DEF Removes
<1>4. /\ NULL \notin DOMAIN node /\ node \in [DOMAIN node -> NodeR]
      /\ \A m \in DOMAIN node : m \in Nat /\ m <= nNode
  BY <1>0, Types
<1>5. /\ node' \in [DOMAIN node \ {x} -> NodeR]
      /\ Unlinked(node, node', x)
      /\ EndsWithout(node, x, head, tail, head', tail')
      /\ items' = items \ {node[x].arg} /\ size' = size - 1 /\ nNode' = nNode
      /\ memUsage' = memUsage - NodeSize - IntSize
      /\ cur' = IF cur = x THEN NULL ELSE cur
  BY <1>3, <1>4, DeleteEffect
<1>6. DOMAIN node' = DOMAIN node \ {x} /\ \A m \in DOMAIN node' : node'[m].arg = node[m].arg
  BY <1>5 DEF Unlinked
<1>7. PICK q \in 1 .. size : s[q] = x
  BY <1>2, <1>3 DEF Chain
<1>8. size' \in Nat
  BY <1>0, <1>5, <1>7
<1>9. PICK r : r = Drop(size, s, q)
  OBVIOUS
<1>10. Chain(node', head', tail', size', r)
  <2>1. PICK g, h2, t2 : g = node' /\ h2 = head' /\ t2 = tail'
    OBVIOUS
  <2>2. Chain(node, head, tail, size, s) /\ NULL \notin DOMAIN node /\ x = s[q]
    BY <1>2, <1>4, <1>7
  <2>3. Unlinked(node, g, x) /\ EndsWithout(node, x, head, tail, h2, t2)
    BY <1>5, <2>1
  <2>4. Chain(g, h2, t2, size - 1, Drop(size, s, q))
    BY <2>2, <2>3, DropChain
  <2>5. size' = size - 1
    BY <1>5
  <2> QED
    BY <1>9, <2>1, <2>4, <2>5
<1>11. Sorted(from', node', size', r)
  <2>1. \A i \in 1 .. size : i # q => node'[s[i]].arg = node[s[i]].arg
    <3>1. ASSUME NEW i \in 1 .. size, i # q PROVE node'[s[i]].arg = node[s[i]].arg
      <4>1. s[i] \in DOMAIN node /\ s[i] # x
        BY <1>2, <1>7, <3>1 DEF Chain
      <4> QED
        BY <1>6, <4>1
    <3> QED
      BY <3>1
  <2>2. Sorted(from, node', size - 1, r)
    BY <1>0, <1>2, <1>9, <2>1, DropSorted
  <2> QED
    BY <1>3, <1>5, <2>2
<1>12. TypeOK'
  <2>1. nNode' \in 0 .. MaxNodes /\ DOMAIN node' \subseteq 1 .. nNode'
    BY <1>0, <1>5, <1>6 DEF TypeOK
  <2>2. node' \in [DOMAIN node' -> [arg : Items, prev : Nat, next : Nat]]
    BY <1>5, <1>6 DEF NodeR
  <2>3. head' \in Nat /\ tail' \in Nat
    <3>1. node[x].prev \in Nat /\ node[x].next \in Nat
      BY <1>3, <1>4 DEF NodeR
    <3> QED
      BY <1>0, <1>5, <3>1 DEF TypeOK, EndsWithout
  <2>4. size' \in Int /\ memUsage' \in Int /\ cur' \in Nat /\ items' \subseteq Items
    BY <1>0, <1>5, SMTT(20) DEF TypeOK, NodeSize, IntSize, NULL
  <2> QED
    BY <1>0, <1>3, <2>1, <2>2, <2>3, <2>4 DEF TypeOK
<1>13. Numbered'
  <2>1. \A m \in DOMAIN node' : node'[m].arg[2] = m
    BY <1>0, <1>6 DEF Numbered
  <2>2. items' = {node'[m].arg : m \in DOMAIN node'}
    <3>1. items = {node[m].arg : m \in DOMAIN node}
      BY <1>0 DEF Numbered
    <3>2. \A m \in DOMAIN node : node[m].arg = node[x].arg => m = x
      BY <1>0, <1>3 DEF Numbered
    <3>3. {node'[m].arg : m \in DOMAIN node'} = {node[m].arg : m \in DOMAIN node \ {x}}
      BY <1>6
    <3>4. {node[m].arg : m \in DOMAIN node \ {x}} = items \ {node[x].arg}
      BY <3>1, <3>2
    <3> QED
      BY <1>5, <3>3, <3>4
  <2>3. memUsage' = HeaderSize + (NodeSize + IntSize) * size'
    BY <1>0, <1>5 DEF Numbered, HeaderSize, NodeSize, IntSize
  <2> QED
    BY <2>1, <2>2, <2>3 DEF Numbered
<1>14. Exclusive'
  BY <1>0, <1>3 DEF Exclusive
<1>15. ASSUME NEW u \in Threads PROVE Visits(u)'
  <2>1. Visits(u)
    BY <1>0
  <2>2. Seen(u)' = Seen(u)
    BY <1>3 DEF Seen
  <2>3. pc[u] # "loop" => p'[u] = NULL /\ owed'[u] = {}
    BY <1>3, <2>1 DEF Visits
  <2> QED
    BY <1>3, <1>5, <2>1, <2>2, <2>3 DEF Visits
<1>16. ASSUME NEW u \in Threads PROVE LoopSound(u, size, r)'
  <2> SUFFICES ASSUME pc[u] = "loop"
               PROVE  /\ cur' \in DOMAIN node' \cup {NULL}
                      /\ p'[u] # NULL => p'[u] \in DOMAIN node' /\ node'[p'[u]].arg \in Seen(u)'
                      /\ \A m \in DOMAIN node' :
                            Ahead(loop[u].from, size, r, m)' => node'[m].arg \notin Seen(u)'
                      /\ \A y \in owed'[u] :
                            /\ y[1] \in loop'[u].filter
                            /\ y[2] \in DOMAIN node' /\ node'[y[2]].arg = y
                            /\ Ahead(loop[u].from, size, r, y[2])'
    BY <1>3 DEF LoopSound
  <2>0. u = t
    <3>1. u \in mutex /\ t \in mutex
      BY <1>0, <1>3 DEF Exclusive
    <3> QED
      BY <1>0, <3>1 DEF Exclusive
  <2>1. /\ cur \in DOMAIN node \cup {NULL}
        /\ p[u] # NULL => p[u] \in DOMAIN node /\ node[p[u]].arg \in Seen(u)
        /\ \A m \in DOMAIN node : Ahead(loop[u].from, size, s, m) => node[m].arg \notin Seen(u)
        /\ \A y \in owed[u] :
             /\ y[1] \in loop[u].filter
             /\ y[2] \in DOMAIN node /\ node[y[2]].arg = y /\ Ahead(loop[u].from, size, s, y[2])
    BY <1>2 DEF LoopSound
  <2>2. Seen(u)' = Seen(u) /\ loop' = loop
    BY <1>3 DEF Seen
  <2>3. \A m \in DOMAIN node' : Ahead(loop[u].from, size, r, m)' <=>
                                  (cur # x /\ Ahead(loop[u].from, size, s, m))
    <3>1. ASSUME NEW m \in DOMAIN node', cur # NULL, cur # x
          PROVE  Toward(loop[u].from, size - 1, r, cur, m) <=> Toward(loop[u].from, size, s, cur, m)
      <4>1. cur # s[q] /\ m # s[q]
        BY <1>6, <1>7, <3>1
      <4> QED
        BY <1>0, <1>9, <4>1, DropBefore DEF Toward
    <3>2. \A m : Ahead(loop[u].from, size, r, m)' <=>
                   (cur' # NULL /\ Toward(loop[u].from, size - 1, r, cur', m))
      BY <1>5, <2>2 DEF Ahead
    <3>3. cur' # NULL <=> cur # x /\ cur # NULL
      BY <1>5
    <3>4. cur # x => cur' = cur
      BY <1>5
    <3> QED
      BY <3>1, <3>2, <3>3, <3>4 DEF Ahead
  <2>4. cur' \in DOMAIN node' \cup {NULL}
    BY <1>5, <1>6, <2>1
  <2>5. p'[u] # NULL => p'[u] \in DOMAIN node' /\ node'[p'[u]].arg \in Seen(u)'
    BY <1>3, <1>6, <2>0, <2>1, <2>2
  <2>6. ASSUME NEW m \in DOMAIN node', Ahead(loop[u].from, size, r, m)'
        PROVE  node'[m].arg \notin Seen(u)'
    BY <1>6, <2>1, <2>2, <2>3, <2>6
  <2>7. ASSUME NEW y \in owed'[u]
        PROVE  /\ y[1] \in loop'[u].filter
               /\ y[2] \in DOMAIN node' /\ node'[y[2]].arg = y
               /\ Ahead(loop[u].from, size, r, y[2])'
    <3>1. y \in owed[u] /\ y # node[x].arg /\ cur # x
      BY <1>3, <2>0, <2>7
    <3>2. y[2] \in DOMAIN node' /\ node'[y[2]].arg = y
      BY <1>6, <2>1, <3>1
    <3> QED
      BY <2>1, <2>2, <2>3, <3>1, <3>2
  <2> QED
    BY <2>4, <2>5, <2>6, <2>7
<1>17. \E z \in [1 .. size' -> DOMAIN node'] : Shape(z)'
  <2>1. r \in [1 .. size' -> DOMAIN node']
    BY <1>10 DEF Chain
  <2>2. Shape(r)'
    <3>1. Chain(node, head, tail, size, r)'
      BY <1>10
    <3>2. Sorted(from, node, size, r)'
      BY <1>11
    <3>3. \A u \in Threads : LoopSound(u, size, r)'
      BY <1>16
    <3> QED
      BY <3>1, <3>2, <3>3 DEF Shape
  <2> QED
    BY <2>1, <2>2
<1> QED
  BY <1>8, <1>12, <1>13, <1>14, <1>15, <1>17 DEF IndInv

LEMMA DeleteRemoves ==
    ASSUME IndInv, NEW t \in Threads, Delete(t)
    PROVE  Removes(t, p[t])
<1>0. TypeOK /\ Numbered /\ size \in Nat
  BY DEF IndInv
<1>1. PICK s \in [1 .. size -> DOMAIN node] : Shape(s)
  BY DEF IndInv
<1>2. PICK x, way : x = p[t] /\ way = loop[t].from
  OBVIOUS
<1>3. /\ pc[t] = "loop" /\ x # NULL /\ vlist_delete(x) /\ p' = [p EXCEPT ![t] = NULL]
      /\ UNCHANGED <<mutex, from, pc, loop, seen, owed>>
  BY <1>2 DEF Delete
<1>4. /\ x \in DOMAIN node /\ node[x].arg \in Seen(t) /\ cur \in DOMAIN node \cup {NULL}
      /\ \A m \in DOMAIN node : Ahead(way, size, s, m) => node[m].arg \notin Seen(t)
      /\ \A y \in owed[t] :
           y[2] \in DOMAIN node /\ node[y[2]].arg = y /\ Ahead(way, size, s, y[2])
  BY <1>1, <1>2, <1>3 DEF Shape, LoopSound
<1>5. node[x].arg \notin owed[t]
  BY <1>4
<1>6. x # cur
  <2>1. CASE x = cur
    <3>1. Toward(way, size, s, x, x)
      <4>1. way \in {FIRST, LAST}
        BY <1>0, <1>2 DEF TypeOK
      <4>2. Chain(node, head, tail, size, s) /\ NULL \notin DOMAIN node
        BY <1>0, <1>1, Types DEF Shape
      <4> QED
        BY <1>4, <4>1, <4>2, PathSteps
    <3>2. Ahead(way, size, s, x)
      BY <1>3, <2>1, <3>1 DEF Ahead
    <3> QED
      BY <1>4, <3>2
  <2> QED
    BY <2>1
<1>7. /\ p \in [Threads -> Nat] /\ owed \in [Threads -> SUBSET Items]
      /\ p' \in [Threads -> Nat] /\ p'[t] = NULL /\ \A u \in Threads \ {t} : p'[u] = p[u]
  BY <1>0, <1>3 DEF TypeOK, NULL
<1>8. Removes(t, x)
  BY <1>3, <1>4, <1>5, <1>6, <1>7 DEF Removes
<1> QED
  BY <1>2, <1>8

LEMMA SearchDeleteRemoves ==
    ASSUME IndInv, NEW t \in Threads, NEW way \in {FIRST, LAST}, NEW v \in Values,
           SearchDelete(t, way, v)
    PROVE  Removes(t, vlist_searchFrom(way, v))
<1>0. TypeOK /\ size \in Nat
  BY DEF IndInv
<1>1. PICK s \in [1 .. size -> DOMAIN node] : Shape(s)
  BY DEF IndInv
<1>2. PICK x : x = vlist_searchFrom(way, v)
  OBVIOUS
<1>3. /\ pc[t] \in {"locked", "loop"} /\ x # NULL /\ vlist_delete(x)
      /\ owed' = [owed EXCEPT ![t] = IF x = cur THEN {} ELSE @ \ {node[x].arg}]
      /\ p' = [p EXCEPT ![t] = IF @ = x THEN NULL ELSE @]
      /\ UNCHANGED <<mutex, from, pc, loop, seen>>
  BY <1>2 DEF SearchDelete, Spared
<1>4. x \in DOMAIN node
  <2>1. Chain(node, head, tail, size, s) /\ NULL \notin DOMAIN node
    BY <1>0, <1>1, Types DEF Shape
  <2> QED
    BY <1>2, <1>3, <2>1, SearchFromFinds
<1>5. p \in [Threads -> Nat] /\ owed \in [Threads -> SUBSET Items]
  BY <1>0 DEF TypeOK
<1>6. /\ p' \in [Threads -> Nat] /\ p'[t] \in {p[t], NULL} /\ p'[t] # x
      /\ \A u \in Threads \ {t} : p'[u] = p[u]
  BY <1>3, <1>5 DEF NULL
<1>7. /\ owed' \in [Threads -> SUBSET Items]
      /\ owed'[t] \subseteq owed[t] /\ node[x].arg \notin owed'[t] /\ (x = cur => owed'[t] = {})
      /\ \A u \in Threads \ {t} : owed'[u] = owed[u]
  BY <1>3, <1>5
<1>8. Removes(t, x)
  BY <1>3, <1>4, <1>6, <1>7 DEF Removes
<1> QED
  BY <1>2, <1>8

------------------------------------------------------------------------------
(* The operations that leave the chain as it is. *)

SameChain == UNCHANGED <<node, items, nNode, head, tail, size, memUsage, from>>

LEMMA SameChainKeeps ==
    ASSUME IndInv, SameChain, cur' \in Nat, mutex' \subseteq Threads,
           pc' \in [Threads -> {"idle", "locked", "loop", "done"}],
           loop' \in [Threads -> [from : {FIRST, LAST}, filter : SUBSET Values]],
           p' \in [Threads -> Nat], seen' \in [Threads -> Seq(Items)],
           owed' \in [Threads -> SUBSET Items],
           Exclusive', \A u \in Threads : Visits(u)',
           \A s \in [1 .. size -> DOMAIN node] :
              Shape(s) => \A u \in Threads : LoopSound(u, size, s)'
    PROVE  IndInv'
<1>0. TypeOK /\ Numbered /\ size \in Nat
  BY DEF IndInv
<1>1. PICK s \in [1 .. size -> DOMAIN node] : Shape(s)
  BY DEF IndInv
<1>2. UNCHANGED <<node, items, nNode, head, tail, size, memUsage, from>>
  BY DEF SameChain
<1>3. TypeOK'
  BY <1>0, <1>2 DEF TypeOK
<1>4. Numbered' /\ size' \in Nat
  BY <1>0, <1>2 DEF Numbered
<1>5. Shape(s)'
  <2>1. Chain(node, head, tail, size, s)' /\ Sorted(from, node, size, s)'
    BY <1>1, <1>2 DEF Shape
  <2>2. \A u \in Threads : LoopSound(u, size, s)'
    BY <1>1
  <2> QED
    BY <2>1, <2>2 DEF Shape
<1>6. \E z \in [1 .. size' -> DOMAIN node'] : Shape(z)'
  BY <1>2, <1>5
<1> QED
  BY <1>3, <1>4, <1>6 DEF IndInv

LEMMA LockStep ==
    ASSUME IndInv, NEW t \in Threads, Lock(t)
    PROVE  IndInv'
<1>0. TypeOK /\ Exclusive /\ \A u \in Threads : Visits(u)
  BY DEF IndInv
<1>1. /\ pc[t] = "idle" /\ mutex = {} /\ mutex' = {t} /\ pc' = [pc EXCEPT ![t] = "locked"]
      /\ UNCHANGED <<listVars, from, loop, p, seen, owed>>
  BY DEF Lock, vlist_lock, Goto
<1>2. SameChain /\ cur' = cur
  BY <1>1 DEF SameChain, listVars
<1>3. pc \in [Threads -> {"idle", "locked", "loop", "done"}]
  BY <1>0 DEF TypeOK
<1>4. \A u \in Threads : pc[u] = "idle"
  BY <1>0, <1>1 DEF Exclusive
<1>5. Exclusive'
  BY <1>1, <1>3, <1>4 DEF Exclusive
<1>6. \A u \in Threads : Visits(u)'
  <2>1. ASSUME NEW u \in Threads PROVE Visits(u)'
    <3>1. Visits(u) /\ Seen(u)' = Seen(u) /\ pc[u] = "idle" /\ nNode' = nNode
      BY <1>0, <1>1, <1>4 DEF Seen, listVars
    <3> QED
      BY <1>1, <3>1 DEF Visits
  <2> QED
    BY <2>1
<1>7. \A u \in Threads : pc'[u] # "loop"
  BY <1>1, <1>3, <1>4
<1>8. \A s : \A u \in Threads : LoopSound(u, size, s)'
  BY <1>7 DEF LoopSound
<1>9. pc' \in [Threads -> {"idle", "locked", "loop", "done"}]
  BY <1>1, <1>3
<1> QED
  BY <1>0, <1>1, <1>2, <1>5, <1>6, <1>8, <1>9, SameChainKeeps DEF TypeOK

LEMMA UnlockStep ==
    ASSUME IndInv, NEW t \in Threads, Unlock(t)
    PROVE  IndInv'
<1>0. TypeOK /\ Exclusive /\ \A u \in Threads : Visits(u)
  BY DEF IndInv
<1>1. /\ pc[t] \in {"locked", "done"} /\ mutex' = mutex \ {t}
      /\ pc' = [pc EXCEPT ![t] = "idle"]
      /\ seen' = [seen EXCEPT ![t] = <<>>] /\ owed' = [owed EXCEPT ![t] = {}]
      /\ UNCHANGED <<listVars, from, loop, p>>
  BY DEF Unlock, vlist_unlock, Goto
<1>2. SameChain /\ cur' = cur
  BY <1>1 DEF SameChain, listVars
<1>3. /\ pc \in [Threads -> {"idle", "locked", "loop", "done"}]
      /\ seen \in [Threads -> Seq(Items)] /\ owed \in [Threads -> SUBSET Items]
  BY <1>0 DEF TypeOK
<1>4. \A u \in Threads \ {t} : pc[u] = "idle"
  BY <1>0, <1>1 DEF Exclusive
<1>5. Exclusive'
  BY <1>0, <1>1, <1>3, <1>4 DEF Exclusive
<1>6. \A u \in Threads : Visits(u)'
  <2>1. ASSUME NEW u \in Threads PROVE Visits(u)'
    <3>0. Visits(u) /\ nNode' = nNode
      BY <1>0, <1>1 DEF listVars
    <3>1. CASE u = t
      <4>1. seen'[u] = <<>> /\ owed'[u] = {} /\ p'[u] = NULL
        BY <1>1, <1>3, <3>0, <3>1 DEF Visits
      <4>2. Seen(u)' = {}
        BY <4>1 DEF Seen
      <4>3. DOMAIN seen'[u] = {}
        BY <4>1
      <4> QED
        BY <4>1, <4>2, <4>3 DEF Visits
    <3>2. CASE u # t
      <4>1. seen'[u] = seen[u] /\ owed'[u] = owed[u] /\ p'[u] = p[u] /\ pc'[u] = pc[u]
        BY <1>1, <1>3, <3>2
      <4>2. Seen(u)' = Seen(u)
        BY <4>1 DEF Seen
      <4> QED
        BY <3>0, <4>1, <4>2 DEF Visits
    <3> QED
      BY <3>1, <3>2
  <2> QED
    BY <2>1
<1>7. \A u \in Threads : pc'[u] # "loop"
  BY <1>1, <1>3, <1>4
<1>8. \A s : \A u \in Threads : LoopSound(u, size, s)'
  BY <1>7 DEF LoopSound
<1>9. pc' \in [Threads -> {"idle", "locked", "loop", "done"}]
  BY <1>1, <1>3
<1>10. seen' \in [Threads -> Seq(Items)] /\ owed' \in [Threads -> SUBSET Items]
  BY <1>1, <1>3
<1> QED
  BY <1>0, <1>1, <1>2, <1>5, <1>6, <1>8, <1>9, <1>10, SameChainKeeps DEF TypeOK

(* What a loop of t finds in the chain. *)
LEMMA LoopFacts ==
    ASSUME IndInv, NEW t \in Threads, NEW s, Shape(s)
    PROVE  /\ Chain(node, head, tail, size, s) /\ NULL \notin DOMAIN node
           /\ \A m \in DOMAIN node : m \in Nat /\ m <= nNode /\ node[m].arg[2] = m
                                     /\ node[m].arg \in Items
           /\ loop[t].from \in {FIRST, LAST}
           /\ \A u \in Threads \ {t} : pc[t] # "idle" => pc[u] = "idle"
<1>1. TypeOK /\ Numbered /\ Exclusive /\ Chain(node, head, tail, size, s)
  BY DEF IndInv, Shape
<1>2. NULL \notin DOMAIN node /\ node \in [DOMAIN node -> NodeR]
      /\ \A m \in DOMAIN node : m \in Nat /\ m <= nNode
  BY <1>1, Types
<1>3. \A m \in DOMAIN node : node[m].arg[2] = m /\ node[m].arg \in Items
  BY <1>1, <1>2 DEF Numbered, NodeR
<1>4. loop[t].from \in {FIRST, LAST}
  BY <1>1 DEF TypeOK
<1>5. \A u \in Threads \ {t} : pc[t] # "idle" => pc[u] = "idle"
  BY <1>1 DEF Exclusive
<1> QED
  BY <1>1, <1>2, <1>3, <1>4, <1>5

LEMMA SeekStep ==
    ASSUME IndInv, NEW t \in Threads, NEW way \in {FIRST, LAST}, NEW filter \in SUBSET Values,
           Seek(t, way, filter)
    PROVE  IndInv'
<1>0. TypeOK /\ Numbered /\ Exclusive /\ \A u \in Threads : Visits(u)
  BY DEF IndInv
<1>1. /\ pc[t] = "locked" /\ cur' = End(way)
      /\ loop' = [loop EXCEPT ![t] = [from |-> way, filter |-> filter]]
      /\ owed' = [owed EXCEPT ![t] = {x \in items : x[1] \in filter}]
      /\ pc' = [pc EXCEPT ![t] = "loop"]
      /\ UNCHANGED <<node, items, nNode, head, tail, size, memUsage, mutex, from, p, seen>>
  BY DEF Seek, Goto
<1>2. SameChain /\ mutex' = mutex
  BY <1>1 DEF SameChain
<1>3. /\ pc \in [Threads -> {"idle", "locked", "loop", "done"}]
      /\ loop \in [Threads -> [from : {FIRST, LAST}, filter : SUBSET Values]]
      /\ owed \in [Threads -> SUBSET Items] /\ items \subseteq Items
      /\ p \in [Threads -> Nat] /\ seen \in [Threads -> Seq(Items)] /\ mutex \subseteq Threads
  BY <1>0 DEF TypeOK
<1>4. /\ pc' \in [Threads -> {"idle", "locked", "loop", "done"}]
      /\ loop' \in [Threads -> [from : {FIRST, LAST}, filter : SUBSET Values]]
      /\ owed' \in [Threads -> SUBSET Items]
      /\ p' \in [Threads -> Nat] /\ seen' \in [Threads -> Seq(Items)] /\ mutex' \subseteq Threads
  BY <1>1, <1>3
<1>5. Exclusive'
  BY <1>0, <1>1, <1>3 DEF Exclusive
<1>6. p[t] = NULL /\ seen[t] = <<>>
  BY <1>0, <1>1 DEF Visits
<1>7. ASSUME NEW u \in Threads PROVE Visits(u)'
  <2>1. Visits(u) /\ nNode' = nNode /\ seen'[u] = seen[u] /\ p'[u] = p[u] /\ Seen(u)' = Seen(u)
    BY <1>0, <1>1 DEF Seen
  <2>2. CASE u = t
    <3>1. pc'[u] = "loop"
      BY <1>1, <1>3, <2>2
    <3> QED
      BY <2>1, <3>1 DEF Visits
  <2>3. CASE u # t
    <3>1. owed'[u] = owed[u] /\ pc'[u] = pc[u]
      BY <1>1, <1>3, <2>3
    <3> QED
      BY <2>1, <3>1 DEF Visits
  <2> QED
    BY <2>2, <2>3
<1>8. ASSUME NEW s \in [1 .. size -> DOMAIN node], Shape(s), NEW u \in Threads
      PROVE  LoopSound(u, size, s)'
  <2>1. /\ Chain(node, head, tail, size, s) /\ NULL \notin DOMAIN node
        /\ \A w \in Threads \ {t} : pc[w] = "idle"
    BY <1>1, <1>8, LoopFacts
  <2>2. CASE u # t
    BY <1>1, <1>3, <2>1, <2>2 DEF LoopSound
  <2>3. CASE u = t
    <3>1. /\ End(way) = NULL <=> DOMAIN node = {}
          /\ End(way) # NULL => /\ End(way) \in DOMAIN node
                                /\ \A x \in DOMAIN node : Toward(way, size, s, End(way), x)
      BY <2>1, PathSteps
    <3>2. /\ Seen(u)' = {} /\ p'[u] = NULL /\ node' = node /\ size' = size
          /\ loop'[u].from = way /\ loop'[u].filter = filter
          /\ owed'[u] = {x \in items : x[1] \in filter} /\ cur' = End(way)
      BY <1>1, <1>3, <1>6, <2>3 DEF Seen
    <3>3. cur' \in DOMAIN node' \cup {NULL}
      BY <3>1, <3>2
    <3>4. ASSUME NEW y \in owed'[u]
          PROVE  /\ y[1] \in loop'[u].filter /\ y[2] \in DOMAIN node' /\ node'[y[2]].arg = y
                 /\ Ahead(loop[u].from, size, s, y[2])'
      <4>1. y[1] \in filter /\ y[2] \in DOMAIN node /\ node[y[2]].arg = y
        BY <1>0, <3>2, <3>4 DEF Numbered
      <4>2. cur' # NULL /\ Toward(way, size, s, cur', y[2])
        BY <3>1, <3>2, <4>1
      <4> QED
        BY <3>2, <4>1, <4>2 DEF Ahead
    <3> QED
      BY <3>2, <3>3, <3>4 DEF LoopSound
  <2> QED
    BY <2>2, <2>3
<1>9. cur' \in Nat
  <2>1. PICK s \in [1 .. size -> DOMAIN node] : Shape(s)
    BY DEF IndInv
  <2>2. /\ Chain(node, head, tail, size, s) /\ NULL \notin DOMAIN node
        /\ \A m \in DOMAIN node : m \in Nat
    BY <2>1, LoopFacts
  <2> QED
    BY <1>1, <2>2, PathSteps DEF NULL
<1> QED
  BY <1>2, <1>4, <1>5, <1>7, <1>8, <1>9, SameChainKeeps

LEMMA BeforeTrans ==
    ASSUME NEW f, NEW h, NEW t, NEW n, NEW s, Chain(f, h, t, n, s), NEW way,
           NEW x, NEW y, NEW z, Toward(way, n, s, x, y), Toward(way, n, s, y, z)
    PROVE  Toward(way, n, s, x, z)
<1>1. n \in Nat /\ \A i, j \in 1 .. n : s[i] = s[j] => i = j
  BY DEF Chain
<1>2. ASSUME NEW a, NEW b, NEW c, Before(n, s, a, b), Before(n, s, b, c)
      PROVE  Before(n, s, a, c)
  <2>1. PICK i, j \in 1 .. n : i <= j /\ s[i] = a /\ s[j] = b
    BY <1>2 DEF Before
  <2>2. PICK k, l \in 1 .. n : k <= l /\ s[k] = b /\ s[l] = c
    BY <1>2 DEF Before
  <2>3. j = k /\ i <= l
    BY <1>1, <2>1, <2>2
  <2> QED
    BY <2>1, <2>2, <2>3 DEF Before
<1> QED
  BY <1>2 DEF Toward

LEMMA SeenAppend ==
    ASSUME NEW q \in Seq(Items), NEW a \in Items
    PROVE  /\ Append(q, a) \in Seq(Items)
           /\ {Append(q, a)[j] : j \in DOMAIN Append(q, a)} = {q[j] : j \in DOMAIN q} \cup {a}
           /\ a \notin {q[j] : j \in DOMAIN q} /\ (\A j, k \in DOMAIN q : q[j] = q[k] => j = k)
              => \A j, k \in DOMAIN Append(q, a) : Append(q, a)[j] = Append(q, a)[k] => j = k
<1>1. PICK r : r = Append(q, a)
  OBVIOUS
<1>2. /\ r \in Seq(Items) /\ Len(q) \in Nat /\ DOMAIN q = 1 .. Len(q)
      /\ DOMAIN r = 1 .. Len(q) + 1 /\ r[Len(q) + 1] = a
      /\ \A j \in 1 .. Len(q) : r[j] = q[j]
  BY <1>1
<1>3. ASSUME NEW j \in DOMAIN r
      PROVE  \/ j \in DOMAIN q /\ r[j] = q[j]
             \/ j = Len(q) + 1 /\ r[j] = a
  BY <1>2
<1>4. DOMAIN q \subseteq DOMAIN r /\ Len(q) + 1 \in DOMAIN r
  BY <1>2
<1>5. {r[j] : j \in DOMAIN r} = {q[j] : j \in DOMAIN q} \cup {a}
  BY <1>2, <1>3, <1>4
<1>6. ASSUME a \notin {q[j] : j \in DOMAIN q}, \A j, k \in DOMAIN q : q[j] = q[k] => j = k,
             NEW j \in DOMAIN r, NEW k \in DOMAIN r, r[j] = r[k]
      PROVE  j = k
  BY <1>3, <1>6
<1> QED
  BY <1>1, <1>2, <1>5, <1>6

LEMMA ForeachStep ==
    ASSUME IndInv, NEW t \in Threads, Foreach(t)
    PROVE  IndInv'
<1>0. TypeOK /\ Numbered /\ Exclusive /\ \A u \in Threads : Visits(u)
  BY DEF IndInv
<1>w. PICK way, z : way = loop[t].from /\ z = Passing(t)
  OBVIOUS
<1>1. /\ pc[t] = "loop" /\ z # NULL
      /\ p' = [p EXCEPT ![t] = z] /\ cur' = Beyond(way, z)
      /\ seen' = [seen EXCEPT ![t] = Append(@, node[z].arg)]
      /\ owed' = [owed EXCEPT ![t] = @ \ {node[z].arg}]
      /\ UNCHANGED <<node, items, nNode, head, tail, size, memUsage, mutex, from, pc, loop>>
  BY <1>w DEF Foreach, CursorAt
<1>2. SameChain /\ mutex' = mutex /\ pc' = pc /\ loop' = loop
  BY <1>1 DEF SameChain
<1>3. /\ pc \in [Threads -> {"idle", "locked", "loop", "done"}]
      /\ owed \in [Threads -> SUBSET Items]
      /\ p \in [Threads -> Nat] /\ seen \in [Threads -> Seq(Items)]
  BY <1>0 DEF TypeOK
<1>s. PICK r \in [1 .. size -> DOMAIN node] : Shape(r)
  BY DEF IndInv
<1>4. /\ Chain(node, head, tail, size, r) /\ NULL \notin DOMAIN node
      /\ \A m \in DOMAIN node : m \in Nat /\ m <= nNode /\ node[m].arg[2] = m
                                /\ node[m].arg \in Items
      /\ way \in {FIRST, LAST} /\ \A u \in Threads \ {t} : pc[u] = "idle"
  BY <1>s, <1>w, <1>1, LoopFacts
<1>5. /\ cur \in DOMAIN node \cup {NULL}
      /\ \A m \in DOMAIN node : Ahead(way, size, r, m) => node[m].arg \notin Seen(t)
  BY <1>s, <1>w, <1>1 DEF Shape, LoopSound
<1>6. z \in DOMAIN node /\ Ahead(way, size, r, z)
  BY <1>w, <1>1, <1>4, <1>5, PassingIs
<1>7. node[z].arg \notin Seen(t) /\ node[z].arg \in Items /\ node[z].arg[2] = z /\ z <= nNode
      /\ z \in Nat
  BY <1>4, <1>5, <1>6
<1>8. Beyond(way, z) \in DOMAIN node \cup {NULL}
  BY <1>4, <1>6, PathSteps
<1>9. /\ seen'[t] = Append(seen[t], node[z].arg) /\ seen[t] \in Seq(Items)
      /\ p'[t] = z /\ owed'[t] = owed[t] \ {node[z].arg}
      /\ \A u \in Threads \ {t} : seen'[u] = seen[u] /\ p'[u] = p[u] /\ owed'[u] = owed[u]
  BY <1>1, <1>3
<1>10. /\ seen'[t] \in Seq(Items) /\ Seen(t)' = Seen(t) \cup {node[z].arg}
       /\ \A j, k \in DOMAIN seen'[t] : seen'[t][j] = seen'[t][k] => j = k
  <2>1. \A j, k \in DOMAIN seen[t] : seen[t][j] = seen[t][k] => j = k
    BY <1>0 DEF Visits
  <2>2. PICK q, a : q = seen[t] /\ a = node[z].arg
    OBVIOUS
  <2>3. q \in Seq(Items) /\ a \in Items /\ seen'[t] = Append(q, a)
    BY <1>7, <1>9, <2>2
  <2>4. /\ Append(q, a) \in Seq(Items)
        /\ {Append(q, a)[j] : j \in DOMAIN Append(q, a)} = {q[j] : j \in DOMAIN q} \cup {a}
        /\ a \notin {q[j] : j \in DOMAIN q} /\ (\A j, k \in DOMAIN q : q[j] = q[k] => j = k)
           => \A j, k \in DOMAIN Append(q, a) : Append(q, a)[j] = Append(q, a)[k] => j = k
    BY <2>3, SeenAppend
  <2>5. Seen(t)' = {Append(q, a)[j] : j \in DOMAIN Append(q, a)} /\ Seen(t) = {q[j] : j \in DOMAIN q}
    BY <2>2, <2>3 DEF Seen
  <2>6. a \notin {q[j] : j \in DOMAIN q} /\ \A j, k \in DOMAIN q : q[j] = q[k] => j = k
    BY <1>7, <2>1, <2>2, <2>5
  <2> QED
    BY <2>2, <2>3, <2>4, <2>5, <2>6
<1>11. /\ p' \in [Threads -> Nat] /\ seen' \in [Threads -> Seq(Items)]
       /\ owed' \in [Threads -> SUBSET Items] /\ cur' \in Nat
  <2>1. cur' \in Nat
    BY <1>1, <1>4, <1>8 DEF NULL
  <2> QED
    BY <1>1, <1>3, <1>7, <1>9, <1>10, <2>1
<1>12. ASSUME NEW u \in Threads PROVE Visits(u)'
  <2>1. Visits(u) /\ nNode' = nNode /\ pc'[u] = pc[u]
    BY <1>0, <1>1
  <2>2. CASE u = t
    <3>1. \A x \in Seen(u)' : x[2] <= nNode'
      BY <1>7, <1>10, <2>1, <2>2 DEF Visits
    <3>2. pc'[u] = "loop"
      BY <1>1, <2>1, <2>2
    <3> QED
      BY <1>10, <2>2, <3>1, <3>2 DEF Visits
  <2>3. CASE u # t
    <3>1. seen'[u] = seen[u] /\ p'[u] = p[u] /\ owed'[u] = owed[u]
      BY <1>9, <2>3
    <3>2. Seen(u)' = Seen(u)
      BY <3>1 DEF Seen
    <3> QED
      BY <2>1, <3>1, <3>2 DEF Visits
  <2> QED
    BY <2>2, <2>3
<1>13. ASSUME NEW s \in [1 .. size -> DOMAIN node], Shape(s), NEW u \in Threads
       PROVE  LoopSound(u, size, s)'
  <2>1. CASE u # t
    BY <1>1, <1>4, <2>1 DEF LoopSound
  <2>2. CASE u = t
    <3>0. Chain(node, head, tail, size, s) /\ LoopSound(t, size, s)
      BY <1>13 DEF Shape
    <3>1. /\ \A m \in DOMAIN node : Ahead(way, size, s, m) => node[m].arg \notin Seen(t)
          /\ \A y \in owed[t] :
               /\ y[1] \in loop[t].filter
               /\ y[2] \in DOMAIN node /\ node[y[2]].arg = y /\ Ahead(way, size, s, y[2])
      BY <1>w, <1>1, <3>0 DEF LoopSound
    <3>2. /\ Ahead(way, size, s, z)
          /\ \A x \in DOMAIN node : Ahead(way, size, s, x) /\ Value(x) \in loop[t].filter
                                      => Toward(way, size, s, z, x)
      BY <1>w, <1>1, <1>4, <1>5, <3>0, PassingIs
    <3>3. \A x \in DOMAIN node : (x # z /\ Toward(way, size, s, z, x))
            <=> (Beyond(way, z) # NULL /\ Toward(way, size, s, Beyond(way, z), x))
      BY <1>4, <1>6, <3>0, PathSteps
    <3>4. \A x \in DOMAIN node :
             Ahead(loop[t].from, size, s, x)' <=> x # z /\ Toward(way, size, s, z, x)
      BY <1>w, <1>1, <3>3 DEF Ahead
    <3>5. ASSUME NEW m \in DOMAIN node, Ahead(loop[t].from, size, s, m)'
          PROVE  node[m].arg \notin Seen(t)'
      <4>1. m # z /\ Toward(way, size, s, z, m)
        BY <3>4, <3>5
      <4>2. cur # NULL /\ Toward(way, size, s, cur, z)
        BY <3>2 DEF Ahead
      <4>3. Ahead(way, size, s, m)
        BY <3>0, <4>1, <4>2, BeforeTrans DEF Ahead
      <4>4. node[m].arg # node[z].arg
        BY <1>4, <1>7, <4>1
      <4> QED
        BY <1>10, <3>1, <4>3, <4>4
    <3>6. ASSUME NEW y \in owed'[t]
          PROVE  /\ y[1] \in loop[t].filter /\ y[2] \in DOMAIN node /\ node[y[2]].arg = y
                 /\ Ahead(loop[t].from, size, s, y[2])'
      <4>1. y \in owed[t] /\ y # node[z].arg
        BY <1>9, <3>6
      <4>2. /\ y[1] \in loop[t].filter /\ y[2] \in DOMAIN node /\ node[y[2]].arg = y
            /\ Ahead(way, size, s, y[2]) /\ y[2] # z
        BY <3>1, <4>1
      <4>3. Toward(way, size, s, z, y[2])
        BY <3>2, <4>2 DEF Value
      <4> QED
        BY <3>4, <4>2, <4>3
    <3>7. node' = node /\ size' = size /\ loop' = loop
      BY <1>1
    <3>8. cur' \in DOMAIN node' \cup {NULL}
      BY <1>1, <1>8, <3>7
    <3>9. p'[t] \in DOMAIN node' /\ node'[p'[t]].arg \in Seen(t)'
      BY <1>6, <1>9, <1>10, <3>7
    <3> QED
      BY <2>2, <3>5, <3>6, <3>7, <3>8, <3>9 DEF LoopSound
  <2> QED
    BY <2>1, <2>2
<1>14. Exclusive' /\ pc' \in [Threads -> {"idle", "locked", "loop", "done"}]
       /\ loop' \in [Threads -> [from : {FIRST, LAST}, filter : SUBSET Values]]
       /\ mutex' \subseteq Threads
  BY <1>0, <1>2 DEF Exclusive, TypeOK
<1> QED
  BY <1>2, <1>11, <1>12, <1>13, <1>14, SameChainKeeps

LEMMA EndLoopStep ==
    ASSUME IndInv, NEW t \in Threads, EndLoop(t)
    PROVE  IndInv'
<1>0. TypeOK /\ Exclusive /\ \A u \in Threads : Visits(u)
  BY DEF IndInv
<1>1. /\ pc[t] = "loop" /\ Passing(t) = NULL /\ cur' = NULL
      /\ p' = [p EXCEPT ![t] = NULL] /\ pc' = [pc EXCEPT ![t] = "done"]
      /\ UNCHANGED <<node, items, nNode, head, tail, size, memUsage, mutex, from, loop, seen, owed>>
  BY DEF EndLoop, Goto
<1>2. SameChain /\ mutex' = mutex /\ loop' = loop /\ seen' = seen /\ owed' = owed
  BY <1>1 DEF SameChain
<1>3. pc \in [Threads -> {"idle", "locked", "loop", "done"}] /\ p \in [Threads -> Nat]
  BY <1>0 DEF TypeOK
<1>4. /\ pc' \in [Threads -> {"idle", "locked", "loop", "done"}] /\ p' \in [Threads -> Nat]
      /\ cur' \in Nat
  BY <1>1, <1>3 DEF NULL
<1>s. PICK s \in [1 .. size -> DOMAIN node] : Shape(s)
  BY DEF IndInv
<1>5. /\ Chain(node, head, tail, size, s) /\ NULL \notin DOMAIN node
      /\ loop[t].from \in {FIRST, LAST} /\ \A u \in Threads \ {t} : pc[u] = "idle"
  BY <1>s, <1>1, LoopFacts
<1>6. owed[t] = {}
  <2>1. /\ cur \in DOMAIN node \cup {NULL}
        /\ \A y \in owed[t] :
             /\ y[1] \in loop[t].filter
             /\ y[2] \in DOMAIN node /\ node[y[2]].arg = y
             /\ Ahead(loop[t].from, size, s, y[2])
    BY <1>s, <1>1 DEF Shape, LoopSound
  <2>2. \A x \in DOMAIN node :
           Ahead(loop[t].from, size, s, x) => Value(x) \notin loop[t].filter
    BY <1>1, <1>5, <2>1, PassingIs
  <2> QED
    BY <2>1, <2>2 DEF Value
<1>7. Exclusive'
  BY <1>0, <1>1, <1>3 DEF Exclusive
<1>8. ASSUME NEW u \in Threads PROVE Visits(u)'
  <2>1. Visits(u) /\ Seen(u)' = Seen(u) /\ nNode' = nNode
    BY <1>0, <1>1 DEF Seen
  <2>2. CASE u = t
    <3>1. pc'[u] = "done" /\ p'[u] = NULL
      BY <1>1, <1>3, <2>2
    <3> QED
      BY <1>2, <1>6, <2>1, <2>2, <3>1 DEF Visits
  <2>3. CASE u # t
    <3>1. pc'[u] = pc[u] /\ p'[u] = p[u]
      BY <1>1, <1>3, <2>3
    <3> QED
      BY <1>2, <2>1, <3>1 DEF Visits
  <2> QED
    BY <2>2, <2>3
<1>9. \A u \in Threads : pc'[u] # "loop"
  BY <1>1, <1>3, <1>5
<1>10. \A r : \A u \in Threads : LoopSound(u, size, r)'
  BY <1>9 DEF LoopSound
<1> QED
  BY <1>0, <1>2, <1>4, <1>7, <1>8, <1>10, SameChainKeeps DEF TypeOK

LEMMA InitHolds ==
    ASSUME Init
    PROVE  IndInv
<1>1. /\ DOMAIN node = {} /\ items = {} /\ nNode = 0 /\ head = NULL /\ tail = NULL
      /\ size = 0 /\ cur = NULL /\ mutex = {} /\ memUsage = HeaderSize
      /\ from \in {NONE, FIRST, LAST}
      /\ pc   = [t \in Threads |-> "idle"]
      /\ loop = [t \in Threads |-> [from |-> FIRST, filter |-> {}]]
      /\ p    = [t \in Threads |-> NULL]
      /\ seen = [t \in Threads |-> <<>>]
      /\ owed = [t \in Threads |-> {}]
  BY DEF Init
<1>2. node \in [DOMAIN node -> [arg : Items, prev : Nat, next : Nat]]
  BY DEF Init
<1>3. TypeOK
  <2>1. seen \in [Threads -> Seq(Items)]
    BY <1>1
  <2>2. loop \in [Threads -> [from : {FIRST, LAST}, filter : SUBSET Values]]
    BY <1>1 DEF FIRST
  <2>3. nNode \in 0 .. MaxNodes /\ DOMAIN node \subseteq 1 .. nNode
    BY <1>1, MaxNodesAssumption
  <2> QED
    BY <1>1, <1>2, <2>1, <2>2, <2>3 DEF TypeOK, NULL, HeaderSize
<1>4. Numbered
  BY <1>1 DEF Numbered, HeaderSize, NodeSize, IntSize
<1>5. Exclusive
  BY <1>1 DEF Exclusive
<1>6. \A t \in Threads : Visits(t)
  <2>1. ASSUME NEW t \in Threads PROVE Visits(t)
    <3>1. seen[t] = <<>> /\ p[t] = NULL /\ owed[t] = {}
      BY <1>1
    <3>2. Seen(t) = {} /\ DOMAIN seen[t] = {}
      BY <3>1 DEF Seen
    <3> QED
      BY <3>1, <3>2 DEF Visits
  <2> QED
    BY <2>1
<1>7. PICK s : s = [i \in 1 .. 0 |-> NULL]
  OBVIOUS
<1>8. Shape(s)
  <2>1. Chain(node, head, tail, size, s)
    BY <1>1, <1>7 DEF Chain
  <2>2. Sorted(from, node, size, s)
    BY <1>1 DEF Sorted
  <2>3. \A t \in Threads : LoopSound(t, size, s)
    BY <1>1 DEF LoopSound
  <2> QED
    BY <2>1, <2>2, <2>3 DEF Shape
<1>9. s \in [1 .. size -> DOMAIN node]
  BY <1>1, <1>7
<1> QED
  BY <1>1, <1>3, <1>4, <1>5, <1>6, <1>8, <1>9 DEF IndInv

LEMMA InvariantStep ==
    ASSUME IndInv, [Next]_vars
    PROVE  IndInv'
<1>1. ASSUME NEW t \in Threads, Thread(t) PROVE IndInv'
  <2>1. CASE \E v \in Values : Insert(t, v)
    BY <2>1, InsertStep
  <2>2. CASE \E way \in {FIRST, LAST}, v \in Values : SearchDelete(t, way, v)
    BY <2>2, SearchDeleteRemoves, DeleteStep
  <2>3. CASE \E way \in {FIRST, LAST}, filter \in SUBSET Values : Seek(t, way, filter)
    BY <2>3, SeekStep
  <2>4. CASE Lock(t)
    BY <2>4, LockStep
  <2>5. CASE Foreach(t)
    BY <2>5, ForeachStep
  <2>6. CASE Delete(t)
    BY <2>6, DeleteRemoves, DeleteStep
  <2>7. CASE EndLoop(t)
    BY <2>7, EndLoopStep
  <2>8. CASE Unlock(t)
    BY <2>8, UnlockStep
  <2> QED
    BY <1>1, <2>1, <2>2, <2>3, <2>4, <2>5, <2>6, <2>7, <2>8 DEF Thread
<1>2. CASE UNCHANGED vars
  <2>1. UNCHANGED <<node, items, nNode, head, tail, size, cur, memUsage, mutex, from,
                    pc, loop, p, seen, owed>>
    BY <1>2 DEF vars
  <2>2. TypeOK /\ Exclusive /\ \A u \in Threads : Visits(u)
    BY DEF IndInv
  <2>3. SameChain
    BY <2>1 DEF SameChain
  <2>4. ASSUME NEW u \in Threads PROVE Visits(u)'
    BY <2>1, <2>2 DEF Visits, Seen
  <2>5. ASSUME NEW s \in [1 .. size -> DOMAIN node], Shape(s), NEW u \in Threads
        PROVE  LoopSound(u, size, s)'
    <3>1. LoopSound(u, size, s)
      BY <2>5 DEF Shape
    <3> QED
      BY <2>1, <3>1 DEF LoopSound, Seen, Ahead
  <2>6. Exclusive' /\ TypeOK'
    BY <2>1, <2>2 DEF Exclusive, TypeOK
  <2> QED
    BY <2>3, <2>4, <2>5, <2>6, SameChainKeeps DEF TypeOK
<1> QED
  BY <1>1, <1>2 DEF Next

(* The list's invariant, in every state: the chain, its order, and where   *)
(* the loops are in it.                                                    *)
THEOREM ListSound == Spec => []IndInv
<1>1. Init => IndInv
  BY InitHolds
<1>2. IndInv /\ [Next]_vars => IndInv'
  BY InvariantStep
<1> QED
  BY <1>1, <1>2, PTL DEF Spec

------------------------------------------------------------------------------
(* The properties the runs check: vlist_travel goes along the chain. *)

(* The order of the sequence of a chain that is read to the right. *)
Travels(w) ==
    w = [m \in DOMAIN node \cup {NULL} |->
           IF m = NULL THEN <<>> ELSE <<m>> \o w[node[m].next]]

LEMMA Prefixed ==
    ASSUME NEW U, NEW x \in U, NEW q \in Seq(U)
    PROVE  <<x>> \o q = [j \in 1 .. 1 + Len(q) |-> IF j = 1 THEN x ELSE q[j - 1]]
<1>1. Len(<<x>>) = 1 /\ <<x>> \in Seq(U) /\ <<x>>[1] = x /\ Len(q) \in Nat
  OBVIOUS
<1>2. <<x>> \o q \in Seq(U) /\ Len(<<x>> \o q) = 1 + Len(q)
  BY <1>1
<1>3. DOMAIN (<<x>> \o q) = 1 .. 1 + Len(q)
  BY <1>2
<1>4. \A j \in 1 .. 1 + Len(q) : (<<x>> \o q)[j] = IF j = 1 THEN x ELSE q[j - 1]
  OBVIOUS
<1>5. <<x>> \o q = [j \in DOMAIN (<<x>> \o q) |-> (<<x>> \o q)[j]]
  BY <1>2
<1> QED
  BY <1>3, <1>4, <1>5

(* The chain from its i-th node on. *)
Suffix(n, s, i) == [j \in 1 .. n + 1 - i |-> s[i + j - 1]]

LEMMA SuffixStep ==
    ASSUME NEW U, NEW n \in Nat, NEW s \in [1 .. n -> U], NEW i \in 1 .. n
    PROVE  Suffix(n, s, i) = <<s[i]>> \o Suffix(n, s, i + 1)
<1>1. PICK m : m = n - i
  OBVIOUS
<1>2. m \in Nat /\ 1 .. m = 1 .. n + 1 - (i + 1) /\ 1 .. 1 + m = 1 .. n + 1 - i
  BY <1>1
<1>3. s[i] \in U /\ \A j \in 1 .. m : i + j \in 1 .. n /\ i + 1 + j - 1 = i + j
  BY <1>1
<1>4. PICK q : q = Suffix(n, s, i + 1)
  OBVIOUS
<1>5. q = [j \in 1 .. m |-> s[i + j]]
  <2>1. q = [j \in 1 .. m |-> s[i + 1 + j - 1]]
    BY <1>2, <1>4, Zenon DEF Suffix
  <2> QED
    BY <1>3, <2>1
<1>6. q \in Seq(U) /\ Len(q) = m /\ \A j \in 1 .. m : q[j] = s[i + j]
  BY <1>2, <1>3, <1>5
<1>7. <<s[i]>> \o q = [j \in 1 .. 1 + m |-> IF j = 1 THEN s[i] ELSE q[j - 1]]
  BY <1>3, <1>6, Prefixed
<1>8. \A j \in 1 .. 1 + m : (IF j = 1 THEN s[i] ELSE q[j - 1]) = s[i + j - 1]
  <2>1. i + 1 - 1 = i
    OBVIOUS
  <2>2. \A j \in 1 .. 1 + m : j # 1 => j - 1 \in 1 .. m /\ i + (j - 1) = i + j - 1
    BY <1>2
  <2> QED
    BY <1>6, <2>1, <2>2
<1>9. Suffix(n, s, i) = [j \in 1 .. 1 + m |-> s[i + j - 1]]
  BY <1>2, Zenon DEF Suffix
<1> QED
  BY <1>4, <1>7, <1>8, <1>9

LEMMA TravelsExists ==
    ASSUME NEW n, NEW s, Chain(node, head, tail, n, s), NULL \notin DOMAIN node
    PROVE  \E w : Travels(w)
<1> DEFINE pos(y) == CHOOSE i \in 1 .. n : s[i] = y
           w == [y \in DOMAIN node \cup {NULL} |-> IF y = NULL THEN <<>> ELSE Suffix(n, s, pos(y))]
<1>1. /\ n \in Nat /\ s \in [1 .. n -> DOMAIN node]
      /\ \A i, j \in 1 .. n : s[i] = s[j] => i = j
      /\ \A m \in DOMAIN node : \E i \in 1 .. n : s[i] = m
      /\ \A i \in 1 .. n : node[s[i]].next = IF i = n THEN NULL ELSE s[i + 1]
  BY DEF Chain
<1>2. ASSUME NEW y \in DOMAIN node PROVE pos(y) \in 1 .. n /\ s[pos(y)] = y
  BY <1>1
<1>3. ASSUME NEW i \in 1 .. n PROVE pos(s[i]) = i
  <2>1. s[i] \in DOMAIN node
    BY <1>1
  <2>2. pos(s[i]) \in 1 .. n /\ s[pos(s[i])] = s[i]
    <3> HIDE DEF pos
    <3> QED
      BY <1>2, <2>1
  <2> HIDE DEF pos
  <2> QED
    BY <1>1, <2>2
<1>4. ASSUME NEW y \in DOMAIN node PROVE w[y] = <<y>> \o w[node[y].next]
  <2>1. PICK i : i = pos(y)
    OBVIOUS
  <2>2. i \in 1 .. n /\ s[i] = y
    <3> HIDE DEF pos
    <3> QED
      BY <1>2, <2>1
  <2>3. w[y] = Suffix(n, s, i)
    <3> HIDE DEF pos
    <3> QED
      BY <2>1
  <2>4. Suffix(n, s, i) = <<y>> \o Suffix(n, s, i + 1)
    <3>1. n \in Nat /\ s \in [1 .. n -> DOMAIN node]
      BY <1>1
    <3>2. Suffix(n, s, i) = <<s[i]>> \o Suffix(n, s, i + 1)
      BY <2>2, <3>1, SuffixStep
    <3> QED
      BY <2>2, <3>2
  <2>5. w[node[y].next] = Suffix(n, s, i + 1)
    <3>1. CASE i = n
      <4>1. Suffix(n, s, i + 1) = <<>>
        BY <1>1, <3>1 DEF Suffix
      <4>2. node[y].next = NULL
        BY <1>1, <2>2, <3>1
      <4>3. w[NULL] = <<>>
        OBVIOUS
      <4> HIDE DEF w
      <4> QED
        BY <4>1, <4>2, <4>3
    <3>2. CASE i # n
      <4>1. i + 1 \in 1 .. n
        BY <1>1, <2>2, <3>2
      <4>2. node[y].next = s[i + 1] /\ s[i + 1] \in DOMAIN node
        BY <1>1, <2>2, <3>2, <4>1
      <4>3. pos(s[i + 1]) = i + 1
        <5> HIDE DEF pos
        <5> QED
          BY <1>3, <4>1
      <4>4. w[s[i + 1]] = Suffix(n, s, pos(s[i + 1]))
        <5> HIDE DEF pos
        <5> QED
          BY <4>2
      <4> HIDE DEF w, pos
      <4> QED
        BY <4>2, <4>3, <4>4
    <3> QED
      BY <3>1, <3>2
  <2> HIDE DEF w, pos
  <2> QED
    BY <2>3, <2>4, <2>5
<1>5. w[NULL] = <<>> /\ w = [y \in DOMAIN node \cup {NULL} |-> w[y]]
  <2> HIDE DEF pos
  <2> QED
    OBVIOUS
<1>6. Travels(w)
  <2> HIDE DEF w
  <2> QED
    BY <1>4, <1>5 DEF Travels
<1> QED
  BY <1>6

LEMMA TravelIs ==
    ASSUME NEW n, NEW s, Chain(node, head, tail, n, s), NULL \notin DOMAIN node
    PROVE  Travel = s
<1>1. \E w : Travels(w)
  BY TravelsExists
<1>2. Travel = (CHOOSE v : Travels(v))[head]
  BY Zenon DEF Travel, Travels
<1>3. PICK v : Travels(v) /\ Travel = v[head]
  <2> HIDE DEF Travels
  <2>1. Travels(CHOOSE v : Travels(v))
    BY <1>1, Zenon
  <2> QED
    BY <1>2, <2>1
<1>4. v[NULL] = <<>> /\ \A y \in DOMAIN node : v[y] = <<y>> \o v[node[y].next]
  BY <1>3 DEF Travels
<1>5. /\ n \in Nat /\ s \in [1 .. n -> DOMAIN node]
      /\ head = IF n = 0 THEN NULL ELSE s[1]
      /\ \A i \in 1 .. n : node[s[i]].next = IF i = n THEN NULL ELSE s[i + 1]
  BY DEF Chain
<1> DEFINE pt(i) == IF i = n + 1 THEN NULL ELSE s[i]
           S     == {i \in 1 .. n + 1 : v[pt(i)] = Suffix(n, s, i)}
<1>6. n + 1 \in S
  <2>1. Suffix(n, s, n + 1) = <<>>
    BY <1>5 DEF Suffix
  <2> QED
    BY <1>4, <1>5, <2>1
<1>7. ASSUME NEW i \in 1 .. n, i + 1 \in S PROVE i \in S
  <2>1. v[pt(i + 1)] = Suffix(n, s, i + 1)
    BY <1>7
  <2>2. s[i] \in DOMAIN node /\ node[s[i]].next = pt(i + 1) /\ pt(i) = s[i] /\ i \in 1 .. n + 1
    BY <1>5
  <2>3. Suffix(n, s, i) = <<s[i]>> \o Suffix(n, s, i + 1)
    BY <1>5, SuffixStep
  <2>4. v[pt(i)] = Suffix(n, s, i)
    <3> HIDE DEF pt
    <3>1. v[s[i]] = <<s[i]>> \o v[node[s[i]].next]
      BY <1>4, <2>2
    <3>2. v[s[i]] = <<s[i]>> \o Suffix(n, s, i + 1)
      BY <2>1, <2>2, <3>1, Zenon
    <3> QED
      BY <2>2, <2>3, <3>2, Zenon
  <2> QED
    BY <2>2, <2>4
<1>8. 1 \in S
  <2> HIDE DEF S
  <2>1. \A i \in 1 .. n + 1 : i \in S
    BY <1>5, <1>6, <1>7, Backwards
  <2> QED
    BY <1>5, <2>1
<1>9. v[head] = Suffix(n, s, 1)
  BY <1>5, <1>8
<1>10. Suffix(n, s, 1) = s
  BY <1>5 DEF Suffix
<1> QED
  BY <1>3, <1>9, <1>10

LEMMA ChainSize ==
    ASSUME NEW n \in Nat, NEW M, NEW s \in [1 .. n -> M],
           \A i, j \in 1 .. n : s[i] = s[j] => i = j,
           \A m \in M : \E i \in 1 .. n : s[i] = m
    PROVE  IsFiniteSet(M) /\ Cardinality(M) = n
<1>1. IsFiniteSet(1 .. n) /\ Cardinality(1 .. n) = n
  BY FS_Interval
<1>2. s \in Bijection(1 .. n, M)
  BY DEF Bijection, Injection, Surjection, IsInjective
<1> QED
  BY <1>1, <1>2, FS_Bijection DEF ExistsBijection

LEMMA Properties ==
    ASSUME IndInv
    PROVE  LinkedBothWays /\ Ordered /\ VisitsOnce
<1>0. TypeOK /\ Numbered /\ size \in Nat /\ \A t \in Threads : Visits(t)
  BY DEF IndInv
<1>1. PICK s \in [1 .. size -> DOMAIN node] : Shape(s)
  BY DEF IndInv
<1>2. Chain(node, head, tail, size, s) /\ Sorted(from, node, size, s)
  BY <1>1 DEF Shape
<1>3. NULL \notin DOMAIN node /\ \A m \in DOMAIN node : node[m].arg[2] = m
  BY <1>0, Types DEF Numbered
<1>4. Travel = s
  BY <1>2, <1>3, TravelIs
<1>5. /\ \A i, j \in 1 .. size : s[i] = s[j] => i = j
      /\ \A m \in DOMAIN node : \E i \in 1 .. size : s[i] = m
      /\ head = IF size = 0 THEN NULL ELSE s[1]
      /\ tail = IF size = 0 THEN NULL ELSE s[size]
      /\ \A i \in 1 .. size : node[s[i]].prev = IF i = 1 THEN NULL ELSE s[i - 1]
  BY <1>2 DEF Chain
<1>6. s \in Seq(DOMAIN node) /\ Len(s) = size /\ DOMAIN s = 1 .. size /\ (s = <<>> <=> size = 0)
  BY <1>0
<1>7. LinkedBothWays
  <2>1. {s[j] : j \in DOMAIN s} = DOMAIN node
    <3>1. DOMAIN s = 1 .. size /\ \A i \in 1 .. size : s[i] \in DOMAIN node
      OBVIOUS
    <3>2. \A m \in DOMAIN node : \E i \in 1 .. size : s[i] = m
      BY <1>5
    <3> QED
      BY <3>1, <3>2
  <2>2. IsFiniteSet(DOMAIN node) /\ Cardinality(DOMAIN node) = Len(s)
    <3>1. /\ \A i, j \in 1 .. size : s[i] = s[j] => i = j
          /\ \A m \in DOMAIN node : \E i \in 1 .. size : s[i] = m
      BY <1>5
    <3>2. IsFiniteSet(DOMAIN node) /\ Cardinality(DOMAIN node) = size
      BY <1>0, <3>1, ChainSize
    <3> QED
      BY <1>6, <3>2
  <2>3. Cardinality(items) = Len(s)
    <3>1. PICK a : a = [i \in 1 .. size |-> node[s[i]].arg]
      OBVIOUS
    <3>2. items = {node[m].arg : m \in DOMAIN node}
      BY <1>0 DEF Numbered
    <3>3. a \in [1 .. size -> items]
      BY <3>1, <3>2
    <3>4. \A i, j \in 1 .. size : a[i] = a[j] => i = j
      BY <1>3, <1>5, <3>1
    <3>5. \A x \in items : \E i \in 1 .. size : a[i] = x
      BY <1>5, <3>1, <3>2
    <3> QED
      BY <1>0, <1>6, <3>3, <3>4, <3>5, ChainSize
  <2>4. /\ head = (IF s = <<>> THEN NULL ELSE s[1])
        /\ tail = (IF s = <<>> THEN NULL ELSE s[Len(s)])
        /\ \A j \in DOMAIN s : node[s[j]].prev = (IF j = 1 THEN NULL ELSE s[j - 1])
    BY <1>5, <1>6
  <2>5. items = {node[n].arg : n \in DOMAIN node}
        /\ memUsage = HeaderSize + (NodeSize + IntSize) * Len(s)
    BY <1>0, <1>6 DEF Numbered
  <2> QED
    BY <1>0, <1>4, <1>6, <2>1, <2>2, <2>3, <2>4, <2>5 DEF LinkedBothWays
<1>8. Ordered
  <2>1. ASSUME NEW j \in DOMAIN s, NEW k \in DOMAIN s, j < k
        PROVE  CASE from = NONE  -> s[j] < s[k]
                 [] from = FIRST -> Value(s[j]) < Value(s[k]) \/ (Value(s[j]) = Value(s[k]) /\ s[k] < s[j])
                 [] from = LAST  -> Value(s[k]) < Value(s[j]) \/ (Value(s[j]) = Value(s[k]) /\ s[j] < s[k])
    <3>1. ItemsInOrder(from, node[s[j]].arg, node[s[k]].arg)
      BY <1>2, <1>6, <2>1 DEF Sorted
    <3>2. node[s[j]].arg[2] = s[j] /\ node[s[k]].arg[2] = s[k]
      BY <1>3, <1>6
    <3>3. from \in {NONE, FIRST, LAST}
      BY <1>0 DEF TypeOK
    <3> QED
      BY <3>1, <3>2, <3>3 DEF ItemsInOrder, Value, NONE, FIRST, LAST
  <2> QED
    BY <1>4, <2>1, Zenon DEF Ordered
<1>9. VisitsOnce
  <2>1. NoDanglingCursor
    <3>1. ASSUME NEW t \in Threads, pc[t] = "loop"
          PROVE  cur \in DOMAIN node \cup {NULL} /\ p[t] \in DOMAIN node \cup {NULL}
      BY <1>1, <3>1 DEF Shape, LoopSound
    <3> QED
      BY <3>1 DEF NoDanglingCursor
  <2>2. ASSUME NEW t \in Threads
        PROVE  /\ \A j, k \in DOMAIN seen[t] : seen[t][j] = seen[t][k] => j = k
               /\ pc[t] = "done" => owed[t] = {}
    BY <1>0 DEF Visits
  <2> QED
    BY <2>1, <2>2 DEF VisitsOnce
<1> QED
  BY <1>7, <1>8, <1>9

(* Whatever the insertions, searches, deletions and loops of any number of *)
(* threads: the nodes are one chain linked both ways from head to tail,    *)
(* its length the size, each item not destroyed in one node, and the       *)
(* counter of vutil.c what they take (vutil.c:1514-1590, 1638-1673).       *)
THEOREM ChainCorrect == Spec => []LinkedBothWays
<1>1. IndInv => LinkedBothWays
  BY Properties
<1> QED
  BY <1>1, ListSound, PTL

(* The list is in the order of its values seen from the end its users      *)
(* insert from, equal ones newest first, or in the order of insertion      *)
(* (vutil.c:1524-1577).                                                    *)
THEOREM OrderedCorrect == Spec => []Ordered
<1>1. IndInv => Ordered
  BY Properties
<1> QED
  BY <1>1, ListSound, PTL

(* A loop that deletes what it visits, or inserts and deletes elsewhere,   *)
(* never holds a freed node, comes to no item twice and leaves out none it *)
(* has to visit (vutil.c:1644, 1713-1759).                                 *)
THEOREM VisitsOnceCorrect == Spec => []VisitsOnce
<1>1. IndInv => VisitsOnce
  BY Properties
<1> QED
  BY <1>1, ListSound, PTL

==============================================================================
