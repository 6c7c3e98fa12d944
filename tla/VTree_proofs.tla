----------------------------- MODULE VTree_proofs -----------------------------
(***************************************************************************)
(* The tree of vutil.c stays a search tree that travel goes through in the *)
(* order of the values, and its loops visit what they have to, for any     *)
(* values and any number of insertions, if one thread uses it and only     *)
(* loops from the first item on delete (OneUser).  IndInv is the inductive *)
(* invariant.                                                              *)
(***************************************************************************)
EXTENDS VTree, FiniteSetTheorems, SequenceTheorems, TLAPS

NodeR == [arg : Items, F : Nat, L : Nat, R : Nat]

(* The tree that hangs from h in f: node m is the pos[m]-th from the left  *)
(* of n, and below it, itself included, are those from the lo[m]-th to the *)
(* hi[m]-th.                                                               *)
Places(f, n, pos, lo, hi) ==
    /\ n \in Nat /\ pos \in [DOMAIN f -> 1 .. n]
    /\ lo \in [DOMAIN f -> 1 .. n] /\ hi \in [DOMAIN f -> 1 .. n]
    /\ \A i \in 1 .. n : \E m \in DOMAIN f : pos[m] = i
    /\ \A m, j \in DOMAIN f : pos[m] = pos[j] => m = j
    /\ \A m \in DOMAIN f : lo[m] <= pos[m] /\ pos[m] <= hi[m]

LeftSide(f, pos, lo, hi, m) ==
    IF f[m].L = NULL THEN lo[m] = pos[m]
    ELSE /\ f[m].L \in DOMAIN f /\ f[f[m].L].F = m
         /\ lo[f[m].L] = lo[m] /\ hi[f[m].L] = pos[m] - 1

RightSide(f, pos, lo, hi, m) ==
    IF f[m].R = NULL THEN hi[m] = pos[m]
    ELSE /\ f[m].R \in DOMAIN f /\ f[f[m].R].F = m
         /\ lo[f[m].R] = pos[m] + 1 /\ hi[f[m].R] = hi[m]

Above(f, h, n, lo, hi, m) ==
    IF f[m].F = NULL THEN m = h /\ lo[m] = 1 /\ hi[m] = n
    ELSE f[m].F \in DOMAIN f /\ (f[f[m].F].L = m \/ f[f[m].F].R = m)

Tree(f, h, n, pos, lo, hi) ==
    /\ Places(f, n, pos, lo, hi)
    /\ \A m \in DOMAIN f : LeftSide(f, pos, lo, hi, m) /\ RightSide(f, pos, lo, hi, m)
                           /\ Above(f, h, n, lo, hi, m)
    /\ IF h = NULL THEN DOMAIN f = {} ELSE h \in DOMAIN f /\ f[h].F = NULL

Sorted(f, pos) == \A m, j \in DOMAIN f : pos[m] < pos[j] => f[m].arg[1] <= f[j].arg[1]

(* A loop in one of the directions comes to i no later than to j. *)
Toward(way, i, j) == IF way = FIRST THEN i <= j ELSE j <= i

(* Node m is still to come. *)
Ahead(way, pos, m) == cur # NULL /\ Toward(way, pos[cur], pos[m])

Seen(t) == {seen[t][j] : j \in DOMAIN seen[t]}

LoopSound(t, pos) ==
    pc[t] = "loop" =>
       /\ cur \in DOMAIN node \cup {NULL}
       /\ p[t] # NULL => p[t] \in DOMAIN node /\ ~Ahead(loop[t].from, pos, p[t])
       /\ \A m \in DOMAIN node : Ahead(loop[t].from, pos, m) =>
             /\ node[m].arg \notin Seen(t)
             /\ \A x \in Seen(t) : Before(t, x[1], Value(m))
       /\ \A y \in owed[t] :
             /\ y[1] \in loop[t].filter
             /\ \E m \in DOMAIN node : node[m].arg = y /\ Ahead(loop[t].from, pos, m)

Numbered ==
    /\ \A m, j \in DOMAIN node : node[m].arg[2] = node[j].arg[2] => m = j
    /\ \A m \in DOMAIN node : node[m].arg[2] <= nNode
    /\ items = {node[m].arg : m \in DOMAIN node}
    /\ memUsage = HeaderSize + (NodeSize + IntSize) * size

Visits(t) ==
    /\ \A j, k \in DOMAIN seen[t] : j < k =>
         seen[t][j] # seen[t][k] /\ Before(t, seen[t][j][1], seen[t][k][1])
    /\ \A x \in Seen(t) : x[2] <= nNode
    /\ pc[t] \in {"idle", "locked"} => seen[t] = <<>>
    /\ pc[t] # "loop" => p[t] = NULL /\ owed[t] = {}

Shape(pos, lo, hi) ==
    /\ Tree(node, head, size, pos, lo, hi) /\ Sorted(node, pos)
    /\ \A t \in Threads : LoopSound(t, pos)

IndInv ==
    /\ TypeOK /\ Numbered /\ size \in Nat
    /\ \E pos, lo, hi \in [DOMAIN node -> 1 .. size] : Shape(pos, lo, hi)
    /\ \A t \in Threads : Visits(t)

(* What the tree asks of its users: there is one, since its lock does not  *)
(* keep a second out, and only loops from the first item on delete.        *)
OneUser ==
    /\ \A t, u \in Threads : t = u
    /\ DeleteFrom \subseteq {FIRST}

------------------------------------------------------------------------------
(* Recursion on a number that decreases. *)

LEMMA NatMin ==
    ASSUME NEW S \in SUBSET Nat, S # {}
    PROVE  \E m \in S : \A n \in S : m <= n
<1> DEFINE F == {0 .. n : n \in S}
<1>1. IsWellFoundedOn(StrictSubsetOrdering(Nat), FiniteSubsetsOf(Nat))
  BY FS_StrictSubsetOrderingWellFounded
<1>2. F \subseteq FiniteSubsetsOf(Nat)
  <2>1. ASSUME NEW n \in S PROVE IsFiniteSet(0 .. n)
    BY FS_Interval
  <2> QED
    BY <2>1 DEF FiniteSubsetsOf
<1>3. PICK X \in F : \A Y \in F : ~ (<<Y, X>> \in StrictSubsetOrdering(Nat))
  <2>1. F # {}
    OBVIOUS
  <2> HIDE DEF F
  <2> QED
    BY <1>1, <1>2, <2>1, WFMin
<1>4. PICK m \in S : X = 0 .. m
  OBVIOUS
<1>5. ASSUME NEW n \in S, n < m PROVE FALSE
  <2>1. <<0 .. n, 0 .. m>> \in StrictSubsetOrdering(Nat)
    <3>1. 0 .. n \in SUBSET Nat /\ 0 .. m \in SUBSET Nat
      OBVIOUS
    <3>2. 0 .. n \subseteq 0 .. m /\ m \in 0 .. m /\ m \notin 0 .. n
      BY <1>5
    <3> QED
      BY <3>1, <3>2 DEF StrictSubsetOrdering
  <2> QED
    BY <1>3, <1>4, <2>1
<1> QED
  BY <1>5

(* What holds at m if it holds wherever the rank is less, holds everywhere. *)
LEMMA ByRank ==
    ASSUME NEW D, NEW k, \A m \in D : k[m] \in Nat, NEW T,
           \A m \in D : (\A j \in D : k[j] < k[m] => j \in T) => m \in T
    PROVE  \A m \in D : m \in T
<1> SUFFICES ASSUME NEW a \in D, a \notin T PROVE FALSE
  OBVIOUS
<1> DEFINE S == {k[m] : m \in {j \in D : j \notin T}}
<1>1. S \in SUBSET Nat /\ S # {}
  OBVIOUS
<1>2. PICK c \in S : \A d \in S : c <= d
  <2> HIDE DEF S
  <2> QED
    BY <1>1, NatMin
<1>3. PICK m \in D : m \notin T /\ c = k[m]
  OBVIOUS
<1>4. \A j \in D : k[j] < k[m] => j \in T
  <2> SUFFICES ASSUME NEW j \in D, k[j] < k[m], j \notin T PROVE FALSE
    OBVIOUS
  <2>1. k[j] \in S
    OBVIOUS
  <2>2. c <= k[j]
    BY <1>2, <2>1
  <2>3. k[j] \in Nat /\ k[m] \in Nat
    OBVIOUS
  <2> QED
    BY <1>3, <2>2, <2>3
<1> QED
  BY <1>3, <1>4

(* w goes on from m to g[m], until it is in S, where its value is b[m]. *)
Goes(D, S, b, g, w) == w = [m \in D |-> IF m \in S THEN b[m] ELSE w[g[m]]]

Falls(D, S, g, k, N) ==
    /\ N \in Nat /\ \A m \in D : k[m] \in 0 .. N
    /\ \A m \in D \ S : g[m] \in D /\ k[g[m]] < k[m]

LEMMA GoesExists ==
    ASSUME NEW D, NEW S, NEW b, NEW g, NEW k, NEW N, Falls(D, S, g, k, N)
    PROVE  \E w : Goes(D, S, b, g, w)
<1> DEFINE Sol(d, w) == \A m \in D : k[m] <= d => w[m] = IF m \in S THEN b[m] ELSE w[g[m]]
           C == {d \in Nat : \A w : ~Sol(d, w)}
<1>1. /\ N \in Nat /\ \A m \in D : k[m] \in Nat /\ k[m] <= N
      /\ \A m \in D \ S : g[m] \in D /\ k[g[m]] < k[m]
  BY DEF Falls
<1>2. C = {}
  <2> SUFFICES ASSUME C # {} PROVE FALSE
    OBVIOUS
  <2>1. PICK c \in C : \A d \in C : c <= d
    <3>1. C \in SUBSET Nat
      OBVIOUS
    <3> HIDE DEF C
    <3> QED
      BY <3>1, NatMin
  <2>2. c \in Nat /\ \A w : ~Sol(c, w)
    BY <2>1
  <2>3. \E v : \A m \in D : k[m] < c => v[m] = IF m \in S THEN b[m] ELSE v[g[m]]
    <3>1. CASE c = 0
      BY <1>1, <3>1
    <3>2. CASE c # 0
      <4>1. c - 1 \in Nat /\ c - 1 \notin C
        <5>1. c - 1 \in Nat /\ ~(c <= c - 1)
          BY <2>2, <3>2
        <5>2. c - 1 \in C => c <= c - 1
          <6> HIDE DEF C
          <6> QED
            BY <2>1
        <5> QED
          BY <5>1, <5>2
      <4>2. \E v : Sol(c - 1, v)
        BY <4>1
      <4>3. \A m \in D : k[m] < c => k[m] <= c - 1
        BY <1>1, <2>2
      <4> QED
        BY <4>2, <4>3
    <3> QED
      BY <3>1, <3>2
  <2>4. PICK v : \A m \in D : k[m] < c => v[m] = IF m \in S THEN b[m] ELSE v[g[m]]
    BY <2>3
  <2>5. PICK w : w = [m \in D |-> IF k[m] < c THEN v[m] ELSE IF m \in S THEN b[m] ELSE v[g[m]]]
    OBVIOUS
  <2>6. ASSUME NEW m \in D, k[m] <= c PROVE w[m] = IF m \in S THEN b[m] ELSE w[g[m]]
    <3>1. w[m] = IF m \in S THEN b[m] ELSE v[g[m]]
      BY <2>4, <2>5
    <3>2. m \notin S => g[m] \in D /\ k[g[m]] < c
      BY <1>1, <2>2, <2>6
    <3>3. m \notin S => w[g[m]] = v[g[m]]
      BY <2>5, <3>2
    <3> QED
      BY <3>1, <3>3
  <2>7. Sol(c, w)
    BY <2>6
  <2> QED
    BY <2>2, <2>7
<1>3. \E w : Sol(N, w)
  BY <1>1, <1>2
<1>4. PICK v : Sol(N, v)
  BY <1>3
<1>5. PICK w : w = [m \in D |-> v[m]]
  OBVIOUS
<1>6. \A m \in D : w[m] = IF m \in S THEN b[m] ELSE w[g[m]]
  BY <1>1, <1>4, <1>5
<1>7. w = [m \in D |-> IF m \in S THEN b[m] ELSE w[g[m]]]
  BY <1>5, <1>6
<1> QED
  BY <1>7 DEF Goes

------------------------------------------------------------------------------
(* Where the walks of vutil.c come to. *)

DownL(w) == w = [m \in DOMAIN node |-> IF node[m].L = NULL THEN m ELSE w[node[m].L]]

LEMMA MostLeft ==
    ASSUME NEW n, NEW pos, NEW lo, NEW hi, Tree(node, head, n, pos, lo, hi),
           NULL \notin DOMAIN node, NEW x \in DOMAIN node
    PROVE  vtree_mostL(x) \in DOMAIN node /\ pos[vtree_mostL(x)] = lo[x]
<1> DEFINE D == DOMAIN node
<1>1. PICK S, b, g : /\ S = {m \in D : node[m].L = NULL}
                     /\ b = [m \in D |-> m] /\ g = [m \in D |-> node[m].L]
  OBVIOUS
<1>2. /\ n \in Nat /\ \A m \in D : pos[m] \in 1 .. n
      /\ \A m \in D : node[m].L = NULL => lo[m] = pos[m]
      /\ \A m \in D : node[m].L # NULL => /\ node[m].L \in D /\ lo[node[m].L] = lo[m]
                                          /\ hi[node[m].L] = pos[m] - 1
      /\ \A m \in D : pos[m] <= hi[m] /\ hi[m] \in 1 .. n
  BY DEF Tree, Places, LeftSide
<1>3. Falls(D, S, g, pos, n)
  <2>1. ASSUME NEW m \in D \ S PROVE g[m] \in D /\ pos[g[m]] < pos[m]
    <3>1. g[m] \in D /\ hi[g[m]] = pos[m] - 1
      BY <1>1, <1>2, <2>1
    <3> QED
      BY <1>2, <3>1
  <2>2. \A m \in D : pos[m] \in 0 .. n
    BY <1>2
  <2> QED
    BY <1>2, <2>1, <2>2 DEF Falls
<1>4. ASSUME NEW w PROVE DownL(w) <=> Goes(D, S, b, g, w)
  <2>1. \A m \in D : (IF node[m].L = NULL THEN m ELSE w[node[m].L])
                       = IF m \in S THEN b[m] ELSE w[g[m]]
    BY <1>1
  <2> QED
    BY <2>1 DEF DownL, Goes
<1>5. PICK w : w = CHOOSE u : DownL(u)
  OBVIOUS
<1>6. DownL(w)
  <2>1. \E u : DownL(u)
    BY <1>3, <1>4, GoesExists
  <2> QED
    BY <1>5, <2>1, Zenon
<1>7. vtree_mostL(x) = w[x]
  <2>1. x # NULL
    OBVIOUS
  <2> QED
    BY <1>5, <2>1, Zenon DEF vtree_mostL, DownL
<1>8. \A m \in D : w[m] = IF node[m].L = NULL THEN m ELSE w[node[m].L]
  BY <1>6 DEF DownL
<1>9. PICK T : T = {m \in D : w[m] \in D /\ pos[w[m]] = lo[m]}
  OBVIOUS
<1>10. ASSUME NEW m \in D, \A j \in D : pos[j] < pos[m] => j \in T PROVE m \in T
  <2>1. CASE m \in S
    BY <1>1, <1>2, <1>8, <1>9, <2>1
  <2>2. CASE m \notin S
    <3>1. /\ node[m].L \in D /\ pos[node[m].L] < pos[m] /\ w[m] = w[node[m].L]
          /\ lo[node[m].L] = lo[m]
      BY <1>1, <1>2, <1>3, <1>8, <2>2 DEF Falls
    <3>2. node[m].L \in T
      BY <1>10, <3>1
    <3> QED
      BY <1>9, <3>1, <3>2
  <2> QED
    BY <2>1, <2>2
<1>11. \A m \in D : m \in T
  <2>1. \A m \in D : pos[m] \in Nat
    BY <1>2
  <2> HIDE DEF D
  <2> QED
    BY <1>10, <2>1, ByRank
<1> QED
  BY <1>7, <1>9, <1>11

DownR(w) == w = [m \in DOMAIN node |-> IF node[m].R = NULL THEN m ELSE w[node[m].R]]

LEMMA MostRight ==
    ASSUME NEW n, NEW pos, NEW lo, NEW hi, Tree(node, head, n, pos, lo, hi),
           NULL \notin DOMAIN node, NEW x \in DOMAIN node
    PROVE  /\ vtree_mostR(x) \in DOMAIN node /\ pos[vtree_mostR(x)] = hi[x]
           /\ node[vtree_mostR(x)].R = NULL
<1> DEFINE D == DOMAIN node
<1>1. PICK S, b, g : /\ S = {m \in D : node[m].R = NULL}
                     /\ b = [m \in D |-> m] /\ g = [m \in D |-> node[m].R]
  OBVIOUS
<1>2. /\ n \in Nat /\ \A m \in D : pos[m] \in 1 .. n
      /\ \A m \in D : node[m].R = NULL => hi[m] = pos[m]
      /\ \A m \in D : node[m].R # NULL => /\ node[m].R \in D /\ hi[node[m].R] = hi[m]
                                          /\ lo[node[m].R] = pos[m] + 1
      /\ \A m \in D : lo[m] <= pos[m] /\ lo[m] \in 1 .. n
  BY DEF Tree, Places, RightSide
<1>0. PICK k : k = [m \in D |-> n - pos[m]]
  OBVIOUS
<1>3. Falls(D, S, g, k, n)
  <2>1. ASSUME NEW m \in D \ S PROVE g[m] \in D /\ k[g[m]] < k[m]
    <3>1. g[m] \in D /\ lo[g[m]] = pos[m] + 1
      BY <1>1, <1>2, <2>1
    <3> QED
      BY <1>0, <1>2, <3>1
  <2>2. \A m \in D : k[m] \in 0 .. n
    BY <1>0, <1>2
  <2> QED
    BY <1>2, <2>1, <2>2 DEF Falls
<1>4. ASSUME NEW w PROVE DownR(w) <=> Goes(D, S, b, g, w)
  <2>1. \A m \in D : (IF node[m].R = NULL THEN m ELSE w[node[m].R])
                       = IF m \in S THEN b[m] ELSE w[g[m]]
    BY <1>1
  <2> QED
    BY <2>1 DEF DownR, Goes
<1>5. PICK w : w = CHOOSE u : DownR(u)
  OBVIOUS
<1>6. DownR(w)
  <2>1. \E u : DownR(u)
    BY <1>3, <1>4, GoesExists
  <2> QED
    BY <1>5, <2>1, Zenon
<1>7. vtree_mostR(x) = w[x]
  <2>1. x # NULL
    OBVIOUS
  <2> QED
    BY <1>5, <2>1, Zenon DEF vtree_mostR, DownR
<1>8. \A m \in D : w[m] = IF node[m].R = NULL THEN m ELSE w[node[m].R]
  BY <1>6 DEF DownR
<1>9. PICK T : T = {m \in D : w[m] \in D /\ pos[w[m]] = hi[m] /\ node[w[m]].R = NULL}
  OBVIOUS
<1>10. ASSUME NEW m \in D, \A j \in D : k[j] < k[m] => j \in T PROVE m \in T
  <2>1. CASE m \in S
    BY <1>1, <1>2, <1>8, <1>9, <2>1
  <2>2. CASE m \notin S
    <3>1. /\ node[m].R \in D /\ k[node[m].R] < k[m] /\ w[m] = w[node[m].R]
          /\ hi[node[m].R] = hi[m]
      BY <1>1, <1>2, <1>3, <1>8, <2>2 DEF Falls
    <3>2. node[m].R \in T
      BY <1>10, <3>1
    <3> QED
      BY <1>9, <3>1, <3>2
  <2> QED
    BY <2>1, <2>2
<1>11. \A m \in D : m \in T
  <2>1. \A m \in D : k[m] \in Nat
    BY <1>0, <1>2
  <2> HIDE DEF D
  <2> QED
    BY <1>10, <2>1, ByRank
<1> QED
  BY <1>7, <1>9, <1>11

UpR(w) ==
    w = [m \in DOMAIN node |->
           LET f == node[m].F
           IN  IF f # NULL /\ node[f].R = m THEN w[f] ELSE f]

(* What follows x, or precedes it, is the node at the next place. *)
LEMMA NextIs ==
    ASSUME NEW n, NEW pos, NEW lo, NEW hi, Tree(node, head, n, pos, lo, hi),
           NULL \notin DOMAIN node, NEW x \in DOMAIN node
    PROVE  IF vtree_next(x) = NULL THEN pos[x] = n
           ELSE vtree_next(x) \in DOMAIN node /\ pos[vtree_next(x)] = pos[x] + 1
<1> DEFINE D == DOMAIN node
           Climbs(m) == node[m].F # NULL /\ node[node[m].F].R = m
<1>1. PICK S, b, g, k : /\ S = {m \in D : ~Climbs(m)}
                        /\ b = [m \in D |-> node[m].F] /\ g = [m \in D |-> node[m].F]
                        /\ k = [m \in D |-> n - (hi[m] - lo[m])]
  OBVIOUS
<1>2. /\ n \in Nat
      /\ \A m \in D : /\ pos[m] \in 1 .. n /\ lo[m] \in 1 .. n /\ hi[m] \in 1 .. n
                       /\ lo[m] <= pos[m] /\ pos[m] <= hi[m]
      /\ \A m \in D : node[m].R = NULL => hi[m] = pos[m]
      /\ \A m \in D : node[m].R # NULL => /\ node[m].R \in D /\ lo[node[m].R] = pos[m] + 1
                                          /\ hi[node[m].R] = hi[m]
      /\ \A m \in D : node[m].L # NULL => hi[node[m].L] = pos[m] - 1
      /\ \A m \in D : node[m].F = NULL => hi[m] = n
      /\ \A m \in D : node[m].F # NULL => /\ node[m].F \in D
                                          /\ node[node[m].F].L = m \/ node[node[m].F].R = m
  BY DEF Tree, Places, LeftSide, RightSide, Above
<1>3. Falls(D, S, g, k, n)
  <2>1. ASSUME NEW m \in D \ S PROVE g[m] \in D /\ k[g[m]] < k[m]
    <3>1. g[m] \in D /\ lo[m] = pos[g[m]] + 1 /\ hi[m] = hi[g[m]]
      <4>1. Climbs(m)
        BY <1>1, <2>1
      <4>2. PICK f \in D : f = node[m].F /\ node[f].R = m
        BY <1>2, <4>1
      <4> QED
        BY <1>1, <1>2, <4>2
    <3>2. lo[g[m]] <= pos[g[m]]
      BY <1>2, <3>1
    <3>3. k[g[m]] = n - (hi[g[m]] - lo[g[m]]) /\ k[m] = n - (hi[m] - lo[m])
      BY <1>1, <3>1
    <3>4. /\ lo[g[m]] \in Int /\ hi[g[m]] \in Int /\ lo[m] \in Int /\ hi[m] \in Int
          /\ pos[g[m]] \in Int
      BY <1>2, <3>1
    <3> QED
      BY <1>2, <3>1, <3>2, <3>3, <3>4
  <2>2. ASSUME NEW m \in D PROVE k[m] \in 0 .. n
    <3>1. /\ lo[m] \in 1 .. n /\ hi[m] \in 1 .. n /\ lo[m] <= hi[m]
      BY <1>2
    <3>2. k[m] = n - (hi[m] - lo[m])
      BY <1>1
    <3> QED
      BY <1>2, <3>1, <3>2
  <2> QED
    BY <1>2, <2>1, <2>2 DEF Falls
<1>4. ASSUME NEW w PROVE UpR(w) <=> Goes(D, S, b, g, w)
  <2>1. \A m \in D : (IF Climbs(m) THEN w[node[m].F] ELSE node[m].F)
                       = IF m \in S THEN b[m] ELSE w[g[m]]
    BY <1>1
  <2> QED
    BY <2>1 DEF UpR, Goes
<1>5. PICK w : w = CHOOSE u : UpR(u)
  OBVIOUS
<1>6. UpR(w)
  <2>1. \E u : UpR(u)
    BY <1>3, <1>4, GoesExists
  <2> QED
    BY <1>5, <2>1, Zenon
<1>7. vtree_next(x) = IF node[x].R # NULL THEN vtree_mostL(node[x].R) ELSE w[x]
  <2>1. PICK y : y = vtree_next(x)
    OBVIOUS
  <2>2. node[x].R # NULL => y = vtree_mostL(node[x].R)
    BY <2>1, Zenon DEF vtree_next
  <2>3. node[x].R = NULL => y = w[x]
    BY <1>5, <2>1, Zenon DEF vtree_next, UpR
  <2> QED
    BY <2>1, <2>2, <2>3
<1>8. \A m \in D : w[m] = IF Climbs(m) THEN w[node[m].F] ELSE node[m].F
  BY <1>6 DEF UpR
<1>9. PICK T : T = {m \in D : IF w[m] = NULL THEN hi[m] = n
                             ELSE w[m] \in D /\ pos[w[m]] = hi[m] + 1}
  OBVIOUS
<1>10. ASSUME NEW m \in D, \A j \in D : k[j] < k[m] => j \in T PROVE m \in T
  <2>1. CASE Climbs(m)
    <3>1. m \in D \ S
      BY <1>1, <2>1
    <3>2. PICK f \in D : f = node[m].F /\ node[f].R = m /\ f = g[m]
      BY <1>1, <1>2, <2>1
    <3>3. f \in T /\ w[m] = w[f] /\ hi[m] = hi[f]
      BY <1>2, <1>3, <1>8, <1>10, <2>1, <3>1, <3>2 DEF Falls
    <3> QED
      BY <1>9, <3>3
  <2>2. CASE ~Climbs(m)
    <3>1. w[m] = node[m].F
      BY <1>8, <2>2
    <3>2. CASE node[m].F = NULL
      BY <1>2, <1>9, <3>1, <3>2
    <3>3. CASE node[m].F # NULL
      <4>1. PICK f \in D : f = node[m].F /\ node[f].L = m
        BY <1>2, <2>2, <3>3
      <4>2. hi[m] = pos[f] - 1 /\ pos[f] \in Int
        BY <1>2, <4>1
      <4> QED
        BY <1>9, <3>1, <3>3, <4>1, <4>2
    <3> QED
      BY <3>2, <3>3
  <2> QED
    BY <2>1, <2>2
<1>11. \A m \in D : m \in T
  <2>1. \A m \in D : k[m] \in Nat
    BY <1>3 DEF Falls
  <2> HIDE DEF D
  <2> QED
    BY <1>10, <2>1, ByRank
<1>12. CASE node[x].R = NULL
  BY <1>2, <1>7, <1>9, <1>11, <1>12
<1>13. CASE node[x].R # NULL
  <2>1. node[x].R \in D /\ lo[node[x].R] = pos[x] + 1
    BY <1>2, <1>13
  <2>2. vtree_next(x) \in D /\ pos[vtree_next(x)] = pos[x] + 1
    BY <1>7, <1>13, <2>1, MostLeft
  <2> QED
    BY <2>2
<1> QED
  BY <1>12, <1>13

UpL(w) ==
    w = [m \in DOMAIN node |->
           LET f == node[m].F
           IN  IF f # NULL /\ node[f].L = m THEN w[f] ELSE f]

LEMMA PrevIs ==
    ASSUME NEW n, NEW pos, NEW lo, NEW hi, Tree(node, head, n, pos, lo, hi),
           NULL \notin DOMAIN node, NEW x \in DOMAIN node
    PROVE  IF vtree_prev(x) = NULL THEN pos[x] = 1
           ELSE vtree_prev(x) \in DOMAIN node /\ pos[vtree_prev(x)] = pos[x] - 1
<1> DEFINE D == DOMAIN node
           Climbs(m) == node[m].F # NULL /\ node[node[m].F].L = m
<1>1. PICK S, b, g, k : /\ S = {m \in D : ~Climbs(m)}
                        /\ b = [m \in D |-> node[m].F] /\ g = [m \in D |-> node[m].F]
                        /\ k = [m \in D |-> n - (hi[m] - lo[m])]
  OBVIOUS
<1>2. /\ n \in Nat
      /\ \A m \in D : /\ pos[m] \in 1 .. n /\ lo[m] \in 1 .. n /\ hi[m] \in 1 .. n
                       /\ lo[m] <= pos[m] /\ pos[m] <= hi[m]
      /\ \A m \in D : node[m].L = NULL => lo[m] = pos[m]
      /\ \A m \in D : node[m].L # NULL => /\ node[m].L \in D /\ hi[node[m].L] = pos[m] - 1
                                          /\ lo[node[m].L] = lo[m]
      /\ \A m \in D : node[m].R # NULL => lo[node[m].R] = pos[m] + 1
      /\ \A m \in D : node[m].F = NULL => lo[m] = 1
      /\ \A m \in D : node[m].F # NULL => /\ node[m].F \in D
                                          /\ node[node[m].F].R = m \/ node[node[m].F].L = m
  BY DEF Tree, Places, LeftSide, RightSide, Above
<1>3. Falls(D, S, g, k, n)
  <2>1. ASSUME NEW m \in D \ S PROVE g[m] \in D /\ k[g[m]] < k[m]
    <3>1. g[m] \in D /\ hi[m] = pos[g[m]] - 1 /\ lo[m] = lo[g[m]]
      <4>1. Climbs(m)
        BY <1>1, <2>1
      <4>2. PICK f \in D : f = node[m].F /\ node[f].L = m
        BY <1>2, <4>1
      <4> QED
        BY <1>1, <1>2, <4>2
    <3>2. pos[g[m]] <= hi[g[m]]
      BY <1>2, <3>1
    <3>3. k[g[m]] = n - (hi[g[m]] - lo[g[m]]) /\ k[m] = n - (hi[m] - lo[m])
      BY <1>1, <3>1
    <3>4. /\ lo[g[m]] \in Int /\ hi[g[m]] \in Int /\ lo[m] \in Int /\ hi[m] \in Int
          /\ pos[g[m]] \in Int
      BY <1>2, <3>1
    <3> QED
      BY <1>2, <3>1, <3>2, <3>3, <3>4
  <2>2. ASSUME NEW m \in D PROVE k[m] \in 0 .. n
    <3>1. /\ lo[m] \in 1 .. n /\ hi[m] \in 1 .. n /\ lo[m] <= hi[m]
      BY <1>2
    <3>2. k[m] = n - (hi[m] - lo[m])
      BY <1>1
    <3> QED
      BY <1>2, <3>1, <3>2
  <2> QED
    BY <1>2, <2>1, <2>2 DEF Falls
<1>4. ASSUME NEW w PROVE UpL(w) <=> Goes(D, S, b, g, w)
  <2>1. \A m \in D : (IF Climbs(m) THEN w[node[m].F] ELSE node[m].F)
                       = IF m \in S THEN b[m] ELSE w[g[m]]
    BY <1>1
  <2> QED
    BY <2>1 DEF UpL, Goes
<1>5. PICK w : w = CHOOSE u : UpL(u)
  OBVIOUS
<1>6. UpL(w)
  <2>1. \E u : UpL(u)
    BY <1>3, <1>4, GoesExists
  <2> QED
    BY <1>5, <2>1, Zenon
<1>7. vtree_prev(x) = IF node[x].L # NULL THEN vtree_mostR(node[x].L) ELSE w[x]
  <2>1. PICK y : y = vtree_prev(x)
    OBVIOUS
  <2>2. node[x].L # NULL => y = vtree_mostR(node[x].L)
    BY <2>1, Zenon DEF vtree_prev
  <2>3. node[x].L = NULL => y = w[x]
    BY <1>5, <2>1, Zenon DEF vtree_prev, UpL
  <2> QED
    BY <2>1, <2>2, <2>3
<1>8. \A m \in D : w[m] = IF Climbs(m) THEN w[node[m].F] ELSE node[m].F
  BY <1>6 DEF UpL
<1>9. PICK T : T = {m \in D : IF w[m] = NULL THEN lo[m] = 1
                             ELSE w[m] \in D /\ pos[w[m]] = lo[m] - 1}
  OBVIOUS
<1>10. ASSUME NEW m \in D, \A j \in D : k[j] < k[m] => j \in T PROVE m \in T
  <2>1. CASE Climbs(m)
    <3>1. m \in D \ S
      BY <1>1, <2>1
    <3>2. PICK f \in D : f = node[m].F /\ node[f].L = m /\ f = g[m]
      BY <1>1, <1>2, <2>1
    <3>3. f \in T /\ w[m] = w[f] /\ lo[m] = lo[f]
      BY <1>2, <1>3, <1>8, <1>10, <2>1, <3>1, <3>2 DEF Falls
    <3> QED
      BY <1>9, <3>3
  <2>2. CASE ~Climbs(m)
    <3>1. w[m] = node[m].F
      BY <1>8, <2>2
    <3>2. CASE node[m].F = NULL
      BY <1>2, <1>9, <3>1, <3>2
    <3>3. CASE node[m].F # NULL
      <4>1. PICK f \in D : f = node[m].F /\ node[f].R = m
        BY <1>2, <2>2, <3>3
      <4>2. lo[m] = pos[f] + 1 /\ pos[f] \in Int
        BY <1>2, <4>1
      <4> QED
        BY <1>9, <3>1, <3>3, <4>1, <4>2
    <3> QED
      BY <3>2, <3>3
  <2> QED
    BY <2>1, <2>2
<1>11. \A m \in D : m \in T
  <2>1. \A m \in D : k[m] \in Nat
    BY <1>3 DEF Falls
  <2> HIDE DEF D
  <2> QED
    BY <1>10, <2>1, ByRank
<1>12. CASE node[x].L = NULL
  BY <1>2, <1>7, <1>9, <1>11, <1>12
<1>13. CASE node[x].L # NULL
  <2>1. node[x].L \in D /\ hi[node[x].L] = pos[x] - 1
    BY <1>2, <1>13
  <2>2. vtree_prev(x) \in D /\ pos[vtree_prev(x)] = pos[x] - 1
    BY <1>7, <1>13, <2>1, MostRight
  <2> QED
    BY <2>2
<1> QED
  BY <1>12, <1>13

(* The node a loop goes on to. *)
LEMMA StepIs ==
    ASSUME NEW n, NEW pos, NEW lo, NEW hi, Tree(node, head, n, pos, lo, hi),
           NULL \notin DOMAIN node, NEW x \in DOMAIN node, NEW t, loop[t].from \in {FIRST, LAST}
    PROVE  IF Step(t, x) = NULL THEN pos[x] = IF loop[t].from = FIRST THEN n ELSE 1
           ELSE /\ Step(t, x) \in DOMAIN node
                /\ pos[Step(t, x)] = IF loop[t].from = FIRST THEN pos[x] + 1 ELSE pos[x] - 1
<1>1. CASE loop[t].from = FIRST
  <2>1. Step(t, x) = vtree_next(x)
    BY <1>1 DEF Step
  <2> QED
    BY <1>1, <2>1, NextIs
<1>2. CASE loop[t].from # FIRST
  <2>1. Step(t, x) = vtree_prev(x)
    BY <1>2 DEF Step
  <2> QED
    BY <1>2, <2>1, PrevIs
<1> QED
  BY <1>1, <1>2

------------------------------------------------------------------------------
(* What search finds, and where insertion hangs a new node. *)

Finds(v, w) ==
    w = [m \in DOMAIN node \cup {NULL} |->
           IF m = NULL \/ Value(m) = v THEN m
           ELSE IF v < Value(m) THEN w[node[m].L] ELSE w[node[m].R]]

LEMMA SearchIs ==
    ASSUME NEW n, NEW pos, NEW lo, NEW hi, Tree(node, head, n, pos, lo, hi),
           NULL \notin DOMAIN node, Sorted(node, pos), NEW v \in Int,
           \A m \in DOMAIN node : Value(m) \in Int
    PROVE  IF vtree_search(v) = NULL THEN \A x \in DOMAIN node : Value(x) # v
           ELSE vtree_search(v) \in DOMAIN node /\ Value(vtree_search(v)) = v
<1> DEFINE D == DOMAIN node
           A == D \cup {NULL}
           Below(m, j) == m # NULL /\ lo[m] <= pos[j] /\ pos[j] <= hi[m]
<1>1. PICK S, b, g, k :
          /\ S = {m \in A : m = NULL \/ Value(m) = v}
          /\ b = [m \in A |-> m]
          /\ g = [m \in A |-> IF v < Value(m) THEN node[m].L ELSE node[m].R]
          /\ k = [m \in A |-> IF m = NULL THEN 0 ELSE hi[m] - lo[m] + 1]
  OBVIOUS
<1>2. /\ n \in Nat
      /\ \A m \in D : /\ m # NULL
                      /\ pos[m] \in 1 .. n /\ lo[m] \in 1 .. n /\ hi[m] \in 1 .. n
                      /\ lo[m] <= pos[m] /\ pos[m] <= hi[m]
      /\ \A m \in D : node[m].R = NULL => hi[m] = pos[m]
      /\ \A m \in D : node[m].R # NULL => /\ node[m].R \in D /\ lo[node[m].R] = pos[m] + 1
                                          /\ hi[node[m].R] = hi[m]
      /\ \A m \in D : node[m].L = NULL => lo[m] = pos[m]
      /\ \A m \in D : node[m].L # NULL => /\ node[m].L \in D /\ lo[node[m].L] = lo[m]
                                          /\ hi[node[m].L] = pos[m] - 1
      /\ \A m, j \in D : pos[m] = pos[j] => m = j
  BY DEF Tree, Places, LeftSide, RightSide
<1>3. \A m, j \in D : pos[m] <= pos[j] => Value(m) <= Value(j)
  BY <1>2 DEF Sorted, Value
<1>4. \A m \in D : k[m] = hi[m] - lo[m] + 1
  BY <1>1, <1>2
<1>5. Falls(A, S, g, k, n)
  <2>1. ASSUME NEW m \in A \ S PROVE g[m] \in A /\ k[g[m]] < k[m]
    <3>1. m \in D /\ k[m] = hi[m] - lo[m] + 1
      BY <1>1, <1>4, <2>1
    <3>2. CASE g[m] = NULL
      <4>1. k[g[m]] = 0
        BY <1>1, <3>2
      <4> QED
        BY <1>2, <3>1, <3>2, <4>1
    <3>3. CASE g[m] # NULL
      <4>1. g[m] \in D /\ k[g[m]] = hi[g[m]] - lo[g[m]] + 1
        BY <1>1, <1>2, <1>4, <3>1, <3>3
      <4>2. \/ lo[g[m]] = lo[m] /\ hi[g[m]] = pos[m] - 1
            \/ lo[g[m]] = pos[m] + 1 /\ hi[g[m]] = hi[m]
        BY <1>1, <1>2, <3>1, <3>3
      <4>3. /\ lo[m] \in Int /\ hi[m] \in Int /\ pos[m] \in Int
            /\ lo[m] <= pos[m] /\ pos[m] <= hi[m]
        BY <1>2, <3>1
      <4> QED
        BY <3>1, <4>1, <4>2, <4>3
    <3> QED
      BY <3>2, <3>3
  <2>2. ASSUME NEW m \in A PROVE k[m] \in 0 .. n
    <3>1. CASE m = NULL
      BY <1>1, <1>2, <3>1
    <3>2. CASE m # NULL
      BY <1>2, <1>4, <3>2
    <3> QED
      BY <3>1, <3>2
  <2> QED
    BY <1>2, <2>1, <2>2 DEF Falls
<1>6. ASSUME NEW w PROVE Finds(v, w) <=> Goes(A, S, b, g, w)
  <2>1. \A m \in A : (IF m = NULL \/ Value(m) = v THEN m
                      ELSE IF v < Value(m) THEN w[node[m].L] ELSE w[node[m].R])
                       = IF m \in S THEN b[m] ELSE w[g[m]]
    BY <1>1
  <2> QED
    BY <2>1 DEF Finds, Goes
<1>7. PICK w : w = CHOOSE u : Finds(v, u)
  OBVIOUS
<1>8. Finds(v, w)
  <2>1. \E u : Finds(v, u)
    BY <1>5, <1>6, GoesExists
  <2> QED
    BY <1>7, <2>1, Zenon
<1>9. vtree_search(v) = w[head]
  BY <1>7, Zenon DEF vtree_search, Finds
<1>10. \A m \in A : w[m] = IF m \in S THEN m ELSE w[g[m]]
  <2>1. Goes(A, S, b, g, w)
    BY <1>6, <1>8
  <2>2. \A m \in A : w[m] = IF m \in S THEN b[m] ELSE w[g[m]]
    BY <2>1 DEF Goes
  <2>3. \A m \in A : b[m] = m
    BY <1>1
  <2> QED
    BY <2>2, <2>3
<1>11. PICK T : T = {m \in A : IF w[m] = NULL THEN \A j \in D : Below(m, j) => Value(j) # v
                               ELSE w[m] \in D /\ Value(w[m]) = v}
  OBVIOUS
<1>12. ASSUME NEW m \in A, \A j \in A : k[j] < k[m] => j \in T PROVE m \in T
  <2>1. CASE m \in S
    BY <1>1, <1>10, <1>11, <2>1
  <2>2. CASE m \notin S
    <3>1. g[m] \in T /\ w[m] = w[g[m]]
      BY <1>5, <1>10, <1>12, <2>2 DEF Falls
    <3>2. m \in D /\ Value(m) # v
      BY <1>1, <2>2
    <3>3. ASSUME w[m] = NULL, NEW j \in D, Below(m, j) PROVE Value(j) # v
      <4>0. g[m] # NULL => ~Below(g[m], j) \/ Value(j) # v
        BY <1>11, <3>1, <3>3
      <4>1. CASE v < Value(m)
        <5>1. g[m] = node[m].L
          BY <1>1, <4>1
        <5>2. pos[m] <= pos[j] => Value(j) # v
          BY <1>3, <3>2, <4>1
        <5>3. pos[j] < pos[m] => Below(g[m], j)
          BY <1>2, <3>2, <3>3, <5>1
        <5>4. pos[j] \in Int /\ pos[m] \in Int
          BY <1>2, <3>2
        <5> QED
          BY <4>0, <5>2, <5>3, <5>4
      <4>2. CASE ~(v < Value(m))
        <5>1. g[m] = node[m].R
          BY <1>1, <4>2
        <5>2. pos[j] <= pos[m] => Value(j) # v
          BY <1>3, <3>2, <4>2
        <5>3. pos[m] < pos[j] => Below(g[m], j)
          BY <1>2, <3>2, <3>3, <5>1
        <5>4. pos[j] \in Int /\ pos[m] \in Int
          BY <1>2, <3>2
        <5> QED
          BY <4>0, <5>2, <5>3, <5>4
      <4> QED
        BY <4>1, <4>2
    <3> QED
      BY <1>11, <3>1, <3>3
  <2> QED
    BY <2>1, <2>2
<1>13. \A m \in A : m \in T
  <2>1. \A m \in A : k[m] \in Nat
    BY <1>5 DEF Falls
  <2> HIDE DEF A
  <2> QED
    BY <1>12, <2>1, ByRank
<1>14. /\ head \in A
       /\ head # NULL => \A j \in D : Below(head, j)
       /\ head = NULL => D = {}
  BY <1>2 DEF Tree, Above
<1> QED
  BY <1>9, <1>11, <1>13, <1>14

Hangs(v, w) ==
    w = [n \in DOMAIN node |->
          LET m == IF GoesRight(n, v) THEN node[n].R ELSE node[n].L
          IN  IF m = NULL THEN n ELSE w[m]]

(* Node y takes the value v on one of its sides, and to the left of there  *)
(* are the values not above v, to the right those not below.               *)
Fits(pos, y, v) ==
    /\ y \in DOMAIN node
    /\ IF GoesRight(y, v)
       THEN /\ node[y].R = NULL
            /\ \A j \in DOMAIN node : pos[y] < pos[j] => v <= Value(j)
       ELSE /\ node[y].L = NULL
            /\ \A j \in DOMAIN node : pos[j] < pos[y] => Value(j) <= v

LEMMA ParentIs ==
    ASSUME NEW n, NEW pos, NEW lo, NEW hi, Tree(node, head, n, pos, lo, hi),
           NULL \notin DOMAIN node, Sorted(node, pos), NEW v \in Int,
           \A m \in DOMAIN node : Value(m) \in Int, head # NULL
    PROVE  Fits(pos, ParentFor(v), v)
<1> DEFINE D == DOMAIN node
           Room(m) == /\ \A j \in D : pos[j] < lo[m] => Value(j) <= v
                      /\ \A j \in D : hi[m] < pos[j] => v <= Value(j)
<1>1. PICK g, S, b, k :
          /\ g = [m \in D |-> IF GoesRight(m, v) THEN node[m].R ELSE node[m].L]
          /\ S = {m \in D : (IF GoesRight(m, v) THEN node[m].R ELSE node[m].L) = NULL}
          /\ b = [m \in D |-> m]
          /\ k = [m \in D |-> hi[m] - lo[m]]
  OBVIOUS
<1>2. /\ n \in Nat
      /\ \A m \in D : /\ m # NULL
                      /\ pos[m] \in 1 .. n /\ lo[m] \in 1 .. n /\ hi[m] \in 1 .. n
                      /\ lo[m] <= pos[m] /\ pos[m] <= hi[m]
      /\ \A m \in D : node[m].R = NULL => hi[m] = pos[m]
      /\ \A m \in D : node[m].R # NULL => /\ node[m].R \in D /\ lo[node[m].R] = pos[m] + 1
                                          /\ hi[node[m].R] = hi[m]
      /\ \A m \in D : node[m].L = NULL => lo[m] = pos[m]
      /\ \A m \in D : node[m].L # NULL => /\ node[m].L \in D /\ lo[node[m].L] = lo[m]
                                          /\ hi[node[m].L] = pos[m] - 1
      /\ \A m, j \in D : pos[m] = pos[j] => m = j
  BY DEF Tree, Places, LeftSide, RightSide
<1>3. \A m, j \in D : pos[m] <= pos[j] => Value(m) <= Value(j)
  BY <1>2 DEF Sorted, Value
<1>4. ASSUME NEW m \in D \ S
      PROVE  /\ g[m] \in D
             /\ GoesRight(m, v) => lo[g[m]] = pos[m] + 1 /\ hi[g[m]] = hi[m]
             /\ ~GoesRight(m, v) => lo[g[m]] = lo[m] /\ hi[g[m]] = pos[m] - 1
  BY <1>1, <1>2, <1>4
<1>5. Falls(D, S, g, k, n)
  <2>1. ASSUME NEW m \in D \ S PROVE g[m] \in D /\ k[g[m]] < k[m]
    <3>1. /\ lo[m] \in Int /\ hi[m] \in Int /\ pos[m] \in Int
          /\ lo[m] <= pos[m] /\ pos[m] <= hi[m]
      BY <1>2
    <3>2. g[m] \in D /\ k[g[m]] = hi[g[m]] - lo[g[m]] /\ k[m] = hi[m] - lo[m]
      BY <1>1, <1>4
    <3> QED
      BY <1>4, <3>1, <3>2
  <2>2. \A m \in D : k[m] \in 0 .. n
    <3> SUFFICES ASSUME NEW m \in D PROVE k[m] \in 0 .. n
      OBVIOUS
    <3>1. k[m] = hi[m] - lo[m] /\ lo[m] \in 1 .. n /\ hi[m] \in 1 .. n /\ lo[m] <= hi[m]
      BY <1>1, <1>2
    <3> QED
      BY <1>2, <3>1
  <2> QED
    BY <1>2, <2>1, <2>2 DEF Falls
<1>6. ASSUME NEW w PROVE Hangs(v, w) <=> Goes(D, S, b, g, w)
  <2>1. \A n1 \in D : (LET m == IF GoesRight(n1, v) THEN node[n1].R ELSE node[n1].L
                       IN  IF m = NULL THEN n1 ELSE w[m])
                       = IF n1 \in S THEN b[n1] ELSE w[g[n1]]
    BY <1>1
  <2> QED
    BY <2>1 DEF Hangs, Goes
<1>7. PICK w : w = CHOOSE u : Hangs(v, u)
  OBVIOUS
<1>8. Hangs(v, w)
  <2>1. \E u : Hangs(v, u)
    BY <1>5, <1>6, GoesExists
  <2> QED
    BY <1>7, <2>1, Zenon
<1>9. ParentFor(v) = w[head]
  BY <1>7, Zenon DEF ParentFor, Hangs
<1>10. \A m \in D : w[m] = IF m \in S THEN m ELSE w[g[m]]
  <2>1. Goes(D, S, b, g, w)
    BY <1>6, <1>8
  <2>2. \A m \in D : w[m] = IF m \in S THEN b[m] ELSE w[g[m]]
    BY <2>1 DEF Goes
  <2>3. \A m \in D : b[m] = m
    BY <1>1
  <2> QED
    BY <2>2, <2>3
<1>11. PICK T : T = {m \in D : Room(m) => Fits(pos, w[m], v)}
  OBVIOUS
<1>12. ASSUME NEW m \in D, \A j \in D : k[j] < k[m] => j \in T PROVE m \in T
  <2> SUFFICES ASSUME Room(m) PROVE Fits(pos, w[m], v)
    BY <1>11
  <2>1. CASE m \in S
    <3>1. w[m] = m
      BY <1>10, <2>1
    <3>2. CASE GoesRight(m, v)
      BY <1>1, <1>2, <2>1, <3>1, <3>2 DEF Fits
    <3>3. CASE ~GoesRight(m, v)
      BY <1>1, <1>2, <2>1, <3>1, <3>3 DEF Fits
    <3> QED
      BY <3>2, <3>3
  <2>2. CASE m \notin S
    <3>1. g[m] \in T /\ w[m] = w[g[m]]
      BY <1>5, <1>10, <1>12, <2>2 DEF Falls
    <3>2. /\ \A j \in D : pos[j] \in Int /\ Value(j) \in Int
          /\ pos[m] \in Int /\ lo[m] \in Int /\ hi[m] \in Int
      BY <1>2
    <3>3. Room(g[m])
      <4>1. CASE GoesRight(m, v)
        <5>1. Value(m) < v
          BY <4>1 DEF GoesRight
        <5>2. ASSUME NEW j \in D, pos[j] < lo[g[m]] PROVE Value(j) <= v
          <6>1. pos[j] <= pos[m]
            BY <1>4, <2>2, <3>2, <4>1, <5>2
          <6>2. Value(j) <= Value(m)
            BY <1>3, <6>1
          <6> QED
            BY <3>2, <5>1, <6>2
        <5> QED
          BY <1>4, <2>2, <4>1, <5>2
      <4>2. CASE ~GoesRight(m, v)
        <5>1. v <= Value(m)
          BY <3>2, <4>2 DEF GoesRight
        <5>2. ASSUME NEW j \in D, hi[g[m]] < pos[j] PROVE v <= Value(j)
          <6>1. pos[m] <= pos[j]
            BY <1>4, <2>2, <3>2, <4>2, <5>2
          <6>2. Value(m) <= Value(j)
            BY <1>3, <6>1
          <6> QED
            BY <3>2, <5>1, <6>2
        <5> QED
          BY <1>4, <2>2, <4>2, <5>2
      <4> QED
        BY <4>1, <4>2
    <3> QED
      BY <1>11, <3>1, <3>3
  <2> QED
    BY <2>1, <2>2
<1>13. \A m \in D : m \in T
  <2>1. \A m \in D : k[m] \in Nat
    BY <1>5 DEF Falls
  <2> HIDE DEF D
  <2> QED
    BY <1>12, <2>1, ByRank
<1>14. head \in D /\ lo[head] = 1 /\ hi[head] = n
  BY DEF Tree, Above
<1>15. Room(head)
  BY <1>2, <1>14
<1> QED
  BY <1>9, <1>11, <1>13, <1>14, <1>15

------------------------------------------------------------------------------
(* A tree with one node more, and with one node less. *)

LEMMA TreeFacts ==
    ASSUME NEW f, NEW h, NEW n, NEW pos, NEW lo, NEW hi, Tree(f, h, n, pos, lo, hi)
    PROVE  /\ n \in Nat
           /\ \A m \in DOMAIN f : /\ pos[m] \in Int /\ lo[m] \in Int /\ hi[m] \in Int
                                  /\ 1 <= lo[m] /\ lo[m] <= pos[m]
                                  /\ pos[m] <= hi[m] /\ hi[m] <= n
           /\ \A i \in 1 .. n : \E m \in DOMAIN f : pos[m] = i
           /\ \A m, j \in DOMAIN f : pos[m] = pos[j] => m = j
           /\ \A m \in DOMAIN f : f[m].L = NULL => lo[m] = pos[m]
           /\ \A m \in DOMAIN f : f[m].L # NULL =>
                 /\ f[m].L \in DOMAIN f /\ f[f[m].L].F = m
                 /\ lo[f[m].L] = lo[m] /\ hi[f[m].L] = pos[m] - 1
           /\ \A m \in DOMAIN f : f[m].R = NULL => hi[m] = pos[m]
           /\ \A m \in DOMAIN f : f[m].R # NULL =>
                 /\ f[m].R \in DOMAIN f /\ f[f[m].R].F = m
                 /\ lo[f[m].R] = pos[m] + 1 /\ hi[f[m].R] = hi[m]
           /\ \A m \in DOMAIN f : f[m].F = NULL => m = h /\ lo[m] = 1 /\ hi[m] = n
           /\ \A m \in DOMAIN f : f[m].F # NULL =>
                 f[m].F \in DOMAIN f /\ (f[f[m].F].L = m \/ f[f[m].F].R = m)
           /\ h = NULL => DOMAIN f = {}
           /\ h # NULL => h \in DOMAIN f /\ f[h].F = NULL
<1>1. /\ n \in Nat
      /\ \A m \in DOMAIN f : /\ pos[m] \in 1 .. n /\ lo[m] \in 1 .. n /\ hi[m] \in 1 .. n
                             /\ lo[m] <= pos[m] /\ pos[m] <= hi[m]
      /\ \A i \in 1 .. n : \E m \in DOMAIN f : pos[m] = i
      /\ \A m, j \in DOMAIN f : pos[m] = pos[j] => m = j
  BY DEF Tree, Places
<1>2. ASSUME NEW m \in DOMAIN f
      PROVE  /\ pos[m] \in Int /\ lo[m] \in Int /\ hi[m] \in Int
             /\ 1 <= lo[m] /\ lo[m] <= pos[m] /\ pos[m] <= hi[m] /\ hi[m] <= n
  BY <1>1
<1>3. ASSUME NEW m \in DOMAIN f
      PROVE  /\ f[m].L = NULL => lo[m] = pos[m]
             /\ f[m].L # NULL => /\ f[m].L \in DOMAIN f /\ f[f[m].L].F = m
                                 /\ lo[f[m].L] = lo[m] /\ hi[f[m].L] = pos[m] - 1
             /\ f[m].R = NULL => hi[m] = pos[m]
             /\ f[m].R # NULL => /\ f[m].R \in DOMAIN f /\ f[f[m].R].F = m
                                 /\ lo[f[m].R] = pos[m] + 1 /\ hi[f[m].R] = hi[m]
  BY DEF Tree, LeftSide, RightSide
<1>4. ASSUME NEW m \in DOMAIN f
      PROVE  /\ f[m].F = NULL => m = h /\ lo[m] = 1 /\ hi[m] = n
             /\ f[m].F # NULL => f[m].F \in DOMAIN f /\ (f[f[m].F].L = m \/ f[f[m].F].R = m)
  BY DEF Tree, Above
<1>5. /\ h = NULL => DOMAIN f = {}
      /\ h # NULL => h \in DOMAIN f /\ f[h].F = NULL
  BY DEF Tree
<1> QED
  BY <1>1, <1>2, <1>3, <1>4, <1>5

(* Making room at a place, and closing up, keeps two places apart. *)
LEMMA StillApart ==
    ASSUME NEW i \in Int, NEW j \in Int, NEW q \in Int
    PROVE  /\ (IF i > q THEN i + 1 ELSE i) = (IF j > q THEN j + 1 ELSE j) => i = j
           /\ i # q /\ j # q /\ (IF i > q THEN i - 1 ELSE i) = (IF j > q THEN j - 1 ELSE j) => i = j
OBVIOUS

(* g is f with x below y, on its right side or on its left. *)
Hung(f, g, x, y, right) ==
    /\ DOMAIN g = DOMAIN f \cup {x}
    /\ g[x].F = y /\ g[x].L = NULL /\ g[x].R = NULL
    /\ \A m \in DOMAIN f : /\ g[m].F = f[m].F
                           /\ g[m].L = IF m = y /\ ~right THEN x ELSE f[m].L
                           /\ g[m].R = IF m = y /\ right THEN x ELSE f[m].R

(* The places when x has come to place k + 1 next to place q. *)
Widened(D, x, k, q, pos, lo, hi, pos2, lo2, hi2) ==
    /\ pos2 = [m \in D \cup {x} |->
                 IF m = x THEN k + 1 ELSE IF pos[m] > k THEN pos[m] + 1 ELSE pos[m]]
    /\ lo2 = [m \in D \cup {x} |-> IF m = x THEN k + 1 ELSE IF lo[m] > q THEN lo[m] + 1 ELSE lo[m]]
    /\ hi2 = [m \in D \cup {x} |-> IF m = x THEN k + 1 ELSE IF hi[m] >= q THEN hi[m] + 1 ELSE hi[m]]

LEMMA HungTree ==
    ASSUME NEW f, NEW g, NEW h, NEW n, NEW pos, NEW lo, NEW hi, Tree(f, h, n, pos, lo, hi),
           NULL \notin DOMAIN f, NEW x, x \notin DOMAIN f, x # NULL,
           NEW y \in DOMAIN f, NEW right \in BOOLEAN, Hung(f, g, x, y, right),
           right => f[y].R = NULL, ~right => f[y].L = NULL,
           NEW k, k = IF right THEN pos[y] ELSE pos[y] - 1,
           NEW pos2, NEW lo2, NEW hi2,
           Widened(DOMAIN f, x, k, pos[y], pos, lo, hi, pos2, lo2, hi2)
    PROVE  Tree(g, h, n + 1, pos2, lo2, hi2)
<1> DEFINE D == DOMAIN f
<1>1. PICK q : q = pos[y]
  OBVIOUS
<1>2. /\ n \in Nat
      /\ \A m \in D : /\ pos[m] \in Int /\ lo[m] \in Int /\ hi[m] \in Int
                      /\ 1 <= lo[m] /\ lo[m] <= pos[m] /\ pos[m] <= hi[m] /\ hi[m] <= n
      /\ \A i \in 1 .. n : \E m \in D : pos[m] = i
      /\ \A m, j \in D : pos[m] = pos[j] => m = j
  BY TreeFacts
<1>3. /\ \A m \in D : f[m].L = NULL => lo[m] = pos[m]
      /\ \A m \in D : f[m].L # NULL => /\ f[m].L \in D /\ f[f[m].L].F = m
                                       /\ lo[f[m].L] = lo[m] /\ hi[f[m].L] = pos[m] - 1
      /\ \A m \in D : f[m].R = NULL => hi[m] = pos[m]
      /\ \A m \in D : f[m].R # NULL => /\ f[m].R \in D /\ f[f[m].R].F = m
                                       /\ lo[f[m].R] = pos[m] + 1 /\ hi[f[m].R] = hi[m]
  BY TreeFacts
<1>4. /\ \A m \in D : f[m].F = NULL => m = h /\ lo[m] = 1 /\ hi[m] = n
      /\ \A m \in D : f[m].F # NULL => f[m].F \in D /\ (f[f[m].F].L = m \/ f[f[m].F].R = m)
      /\ h # NULL /\ h \in D /\ f[h].F = NULL
  BY TreeFacts
<1>5. /\ DOMAIN g = D \cup {x} /\ g[x].F = y /\ g[x].L = NULL /\ g[x].R = NULL
      /\ \A m \in D : /\ g[m].F = f[m].F
                      /\ g[m].L = IF m = y /\ ~right THEN x ELSE f[m].L
                      /\ g[m].R = IF m = y /\ right THEN x ELSE f[m].R
  BY DEF Hung
<1>6. /\ pos2[x] = k + 1 /\ lo2[x] = k + 1 /\ hi2[x] = k + 1
      /\ \A m \in D : /\ pos2[m] = IF pos[m] > k THEN pos[m] + 1 ELSE pos[m]
                      /\ lo2[m] = IF lo[m] > q THEN lo[m] + 1 ELSE lo[m]
                      /\ hi2[m] = IF hi[m] >= q THEN hi[m] + 1 ELSE hi[m]
      /\ DOMAIN pos2 = D \cup {x} /\ DOMAIN lo2 = D \cup {x} /\ DOMAIN hi2 = D \cup {x}
      /\ pos2 = [m \in D \cup {x} |-> pos2[m]] /\ lo2 = [m \in D \cup {x} |-> lo2[m]]
      /\ hi2 = [m \in D \cup {x} |-> hi2[m]]
  BY <1>1 DEF Widened
<1>7. /\ q \in Int /\ k \in Int /\ 1 <= q /\ q <= n /\ (k = q \/ k = q - 1)
      /\ k = IF right THEN q ELSE q - 1
  BY <1>1, <1>2
<1>8. ASSUME NEW m \in D, pos[m] = q PROVE m = y
  BY <1>1, <1>2, <1>8
<1>9. Places(g, n + 1, pos2, lo2, hi2)
  <2>1. ASSUME NEW m \in D
        PROVE  /\ pos2[m] \in 1 .. n + 1 /\ lo2[m] \in 1 .. n + 1 /\ hi2[m] \in 1 .. n + 1
               /\ lo2[m] <= pos2[m] /\ pos2[m] <= hi2[m]
    <3>1. /\ pos[m] \in Int /\ lo[m] \in Int /\ hi[m] \in Int
          /\ 1 <= lo[m] /\ lo[m] <= pos[m] /\ pos[m] <= hi[m] /\ hi[m] <= n
      BY <1>2
    <3>2. /\ pos2[m] = IF pos[m] > k THEN pos[m] + 1 ELSE pos[m]
          /\ lo2[m] = IF lo[m] > q THEN lo[m] + 1 ELSE lo[m]
          /\ hi2[m] = IF hi[m] >= q THEN hi[m] + 1 ELSE hi[m]
      BY <1>6
    <3>3. pos[m] > k => hi[m] >= q
      BY <1>7, <3>1
    <3>4. lo[m] > q => pos[m] > k
      BY <1>7, <3>1
    <3> QED
      BY <1>2, <1>7, <3>1, <3>2, <3>3, <3>4
  <2>2. /\ pos2[x] \in 1 .. n + 1 /\ lo2[x] \in 1 .. n + 1 /\ hi2[x] \in 1 .. n + 1
        /\ lo2[x] <= pos2[x] /\ pos2[x] <= hi2[x]
    BY <1>2, <1>6, <1>7
  <2>3. /\ pos2 \in [DOMAIN g -> 1 .. n + 1] /\ lo2 \in [DOMAIN g -> 1 .. n + 1]
        /\ hi2 \in [DOMAIN g -> 1 .. n + 1]
    BY <1>5, <1>6, <2>1, <2>2
  <2>4. ASSUME NEW i \in 1 .. n + 1 PROVE \E m \in DOMAIN g : pos2[m] = i
    <3>1. CASE i = k + 1
      BY <1>5, <1>6, <3>1
    <3>2. CASE i <= k
      <4>1. PICK m \in D : pos[m] = i
        BY <1>2, <1>7, <3>2
      <4> QED
        BY <1>5, <1>6, <1>7, <3>2, <4>1
    <3>3. CASE i > k + 1
      <4>1. PICK m \in D : pos[m] = i - 1
        BY <1>2, <1>7, <3>3
      <4>2. pos2[m] = pos[m] + 1
        BY <1>6, <1>7, <3>3, <4>1
      <4> QED
        BY <1>5, <4>1, <4>2
    <3> QED
      BY <1>7, <3>1, <3>2, <3>3
  <2>5. ASSUME NEW m \in DOMAIN g, NEW j \in DOMAIN g, pos2[m] = pos2[j] PROVE m = j
    <3>1. ASSUME NEW i \in D PROVE pos2[i] # k + 1
      BY <1>2, <1>6, <1>7
    <3>2. ASSUME m \in D, j \in D PROVE pos[m] = pos[j]
      <4>1. /\ pos2[m] = IF pos[m] > k THEN pos[m] + 1 ELSE pos[m]
            /\ pos2[j] = IF pos[j] > k THEN pos[j] + 1 ELSE pos[j]
        BY <1>6, <3>2
      <4>2. pos[m] \in Int /\ pos[j] \in Int
        BY <1>2, <3>2
      <4>3. (IF pos[m] > k THEN pos[m] + 1 ELSE pos[m])
               = (IF pos[j] > k THEN pos[j] + 1 ELSE pos[j])
        BY <2>5, <4>1
      <4> HIDE DEF D
      <4> QED
        BY <1>7, <4>2, <4>3, StillApart
    <3> QED
      BY <1>2, <1>5, <1>6, <2>5, <3>1, <3>2
  <2> QED
    BY <1>2, <1>5, <2>1, <2>2, <2>3, <2>4, <2>5 DEF Places
<1>10. ASSUME NEW m \in D PROVE LeftSide(g, pos2, lo2, hi2, m)
  <2>1. CASE m = y /\ ~right
    <3>1. g[m].L = x /\ lo[m] = q /\ pos[m] = q /\ k = q - 1
      BY <1>1, <1>3, <1>5, <1>7, <2>1
    <3>2. lo2[m] = q /\ pos2[m] = q + 1
      BY <1>6, <1>7, <3>1
    <3> QED
      BY <1>5, <1>6, <1>7, <2>1, <3>1, <3>2 DEF LeftSide
  <2>2. CASE ~(m = y /\ ~right)
    <3>0. /\ g[m].L = f[m].L /\ pos[m] \in Int /\ lo[m] \in Int
          /\ pos2[m] = IF pos[m] > k THEN pos[m] + 1 ELSE pos[m]
          /\ lo2[m] = IF lo[m] > q THEN lo[m] + 1 ELSE lo[m]
      BY <1>2, <1>5, <1>6, <2>2
    <3>1. pos[m] > q <=> pos[m] > k
      BY <1>7, <1>8, <2>2, <3>0
    <3>2. CASE f[m].L = NULL
      <4>1. lo[m] = pos[m]
        BY <1>3, <3>2
      <4> QED
        BY <3>0, <3>1, <3>2, <4>1 DEF LeftSide
    <3>3. CASE f[m].L # NULL
      <4>1. PICK c \in D : c = f[m].L /\ f[c].F = m /\ lo[c] = lo[m] /\ hi[c] = pos[m] - 1
        BY <1>3, <3>3
      <4>2. /\ g[c].F = m /\ lo2[c] = lo2[m]
            /\ hi2[c] = IF hi[c] >= q THEN hi[c] + 1 ELSE hi[c]
        BY <1>5, <1>6, <4>1
      <4>3. hi[c] \in Int /\ (hi[c] >= q <=> pos[m] > q)
        BY <1>2, <1>7, <3>0, <4>1
      <4>4. hi2[c] = pos2[m] - 1
        BY <3>0, <3>1, <4>1, <4>2, <4>3
      <4> QED
        BY <1>5, <3>0, <3>3, <4>1, <4>2, <4>4 DEF LeftSide
    <3> QED
      BY <3>2, <3>3
  <2> QED
    BY <2>1, <2>2
<1>11. ASSUME NEW m \in D PROVE RightSide(g, pos2, lo2, hi2, m)
  <2>1. CASE m = y /\ right
    <3>1. g[m].R = x /\ hi[m] = q /\ pos[m] = q /\ k = q
      BY <1>1, <1>3, <1>5, <1>7, <2>1
    <3>2. hi2[m] = q + 1 /\ pos2[m] = q
      BY <1>6, <1>7, <3>1
    <3> QED
      BY <1>5, <1>6, <1>7, <2>1, <3>1, <3>2 DEF RightSide
  <2>2. CASE ~(m = y /\ right)
    <3>0. /\ g[m].R = f[m].R /\ pos[m] \in Int /\ hi[m] \in Int
          /\ pos2[m] = IF pos[m] > k THEN pos[m] + 1 ELSE pos[m]
          /\ hi2[m] = IF hi[m] >= q THEN hi[m] + 1 ELSE hi[m]
      BY <1>2, <1>5, <1>6, <2>2
    <3>1. pos[m] >= q <=> pos[m] > k
      BY <1>7, <1>8, <2>2, <3>0
    <3>2. CASE f[m].R = NULL
      <4>1. hi[m] = pos[m]
        BY <1>3, <3>2
      <4> QED
        BY <3>0, <3>1, <3>2, <4>1 DEF RightSide
    <3>3. CASE f[m].R # NULL
      <4>1. PICK c \in D : c = f[m].R /\ f[c].F = m /\ lo[c] = pos[m] + 1 /\ hi[c] = hi[m]
        BY <1>3, <3>3
      <4>2. /\ g[c].F = m /\ hi2[c] = hi2[m]
            /\ lo2[c] = IF lo[c] > q THEN lo[c] + 1 ELSE lo[c]
        BY <1>5, <1>6, <4>1
      <4>3. lo[c] \in Int /\ (lo[c] > q <=> pos[m] >= q)
        BY <1>2, <1>7, <3>0, <4>1
      <4>4. lo2[c] = pos2[m] + 1
        BY <3>0, <3>1, <4>1, <4>2, <4>3
      <4> QED
        BY <1>5, <3>0, <3>3, <4>1, <4>2, <4>4 DEF RightSide
    <3> QED
      BY <3>2, <3>3
  <2> QED
    BY <2>1, <2>2
<1>12. ASSUME NEW m \in D PROVE Above(g, h, n + 1, lo2, hi2, m)
  <2>1. CASE f[m].F = NULL
    <3>1. m = h /\ lo[m] = 1 /\ hi[m] = n /\ g[m].F = NULL
      BY <1>4, <1>5, <2>1
    <3>2. lo2[m] = 1 /\ hi2[m] = n + 1
      BY <1>2, <1>6, <1>7, <3>1
    <3> QED
      BY <3>1, <3>2 DEF Above
  <2>2. CASE f[m].F # NULL
    <3>1. PICK c \in D : c = f[m].F /\ (f[c].L = m \/ f[c].R = m) /\ g[m].F = c
      BY <1>4, <1>5, <2>2
    <3>2. m # NULL
      OBVIOUS
    <3>3. g[c].L = m \/ g[c].R = m
      BY <1>5, <3>1, <3>2
    <3> QED
      BY <1>5, <2>2, <3>1, <3>3 DEF Above
  <2> QED
    BY <2>1, <2>2
<1>13. /\ LeftSide(g, pos2, lo2, hi2, x) /\ RightSide(g, pos2, lo2, hi2, x)
       /\ Above(g, h, n + 1, lo2, hi2, x)
  <2>1. y # NULL
    OBVIOUS
  <2>2. g[y].L = x \/ g[y].R = x
    BY <1>5
  <2> QED
    BY <1>5, <1>6, <2>1, <2>2 DEF LeftSide, RightSide, Above
<1>14. h # NULL /\ h \in DOMAIN g /\ g[h].F = NULL
  BY <1>4, <1>5
<1> QED
  BY <1>5, <1>9, <1>10, <1>11, <1>12, <1>13, <1>14 DEF Tree

(* g is f without x, whose child c hangs where x did, below u. *)
Spliced(f, g, h, h2, x, c, u) ==
    /\ u = f[x].F /\ c = (IF f[x].L # NULL THEN f[x].L ELSE f[x].R)
    /\ h2 = (IF u = NULL THEN c ELSE h)
    /\ DOMAIN g = DOMAIN f \ {x}
    /\ \A m \in DOMAIN g : /\ g[m].F = IF m = c THEN u ELSE f[m].F
                           /\ g[m].L = IF m = u /\ f[m].L = x THEN c ELSE f[m].L
                           /\ g[m].R = IF m = u /\ f[m].R = x THEN c ELSE f[m].R

(* The places when x has gone from place q. *)
Narrowed(D, x, q, pos, lo, hi, pos2, lo2, hi2) ==
    /\ pos2 = [m \in D \ {x} |-> IF pos[m] > q THEN pos[m] - 1 ELSE pos[m]]
    /\ lo2 = [m \in D \ {x} |-> IF lo[m] > q THEN lo[m] - 1 ELSE lo[m]]
    /\ hi2 = [m \in D \ {x} |-> IF hi[m] >= q THEN hi[m] - 1 ELSE hi[m]]

LEMMA SplicedTree ==
    ASSUME NEW f, NEW g, NEW h, NEW n, NEW pos, NEW lo, NEW hi, Tree(f, h, n, pos, lo, hi),
           NULL \notin DOMAIN f, NEW x \in DOMAIN f, f[x].L = NULL \/ f[x].R = NULL,
           NEW c, NEW u, NEW h2, Spliced(f, g, h, h2, x, c, u),
           NEW pos2, NEW lo2, NEW hi2,
           Narrowed(DOMAIN f, x, pos[x], pos, lo, hi, pos2, lo2, hi2)
    PROVE  Tree(g, h2, n - 1, pos2, lo2, hi2)
<1> DEFINE D == DOMAIN f
<1>1. PICK q : q = pos[x]
  OBVIOUS
<1>2. /\ n \in Nat
      /\ \A m \in D : /\ pos[m] \in Int /\ lo[m] \in Int /\ hi[m] \in Int
                      /\ 1 <= lo[m] /\ lo[m] <= pos[m] /\ pos[m] <= hi[m] /\ hi[m] <= n
      /\ \A i \in 1 .. n : \E m \in D : pos[m] = i
      /\ \A m, j \in D : pos[m] = pos[j] => m = j
  BY TreeFacts
<1>3. /\ \A m \in D : f[m].L = NULL => lo[m] = pos[m]
      /\ \A m \in D : f[m].L # NULL => /\ f[m].L \in D /\ f[f[m].L].F = m
                                       /\ lo[f[m].L] = lo[m] /\ hi[f[m].L] = pos[m] - 1
      /\ \A m \in D : f[m].R = NULL => hi[m] = pos[m]
      /\ \A m \in D : f[m].R # NULL => /\ f[m].R \in D /\ f[f[m].R].F = m
                                       /\ lo[f[m].R] = pos[m] + 1 /\ hi[f[m].R] = hi[m]
  BY TreeFacts
<1>4. /\ \A m \in D : f[m].F = NULL => m = h /\ lo[m] = 1 /\ hi[m] = n
      /\ \A m \in D : f[m].F # NULL => f[m].F \in D /\ (f[f[m].F].L = m \/ f[f[m].F].R = m)
      /\ h # NULL /\ h \in D /\ f[h].F = NULL
  BY TreeFacts
<1>5. /\ u = f[x].F /\ c = (IF f[x].L # NULL THEN f[x].L ELSE f[x].R)
      /\ h2 = (IF u = NULL THEN c ELSE h)
      /\ DOMAIN g = D \ {x}
      /\ \A m \in D \ {x} : /\ g[m].F = IF m = c THEN u ELSE f[m].F
                            /\ g[m].L = IF m = u /\ f[m].L = x THEN c ELSE f[m].L
                            /\ g[m].R = IF m = u /\ f[m].R = x THEN c ELSE f[m].R
  BY DEF Spliced
<1>6. /\ \A m \in D \ {x} : /\ pos2[m] = IF pos[m] > q THEN pos[m] - 1 ELSE pos[m]
                            /\ lo2[m] = IF lo[m] > q THEN lo[m] - 1 ELSE lo[m]
                            /\ hi2[m] = IF hi[m] >= q THEN hi[m] - 1 ELSE hi[m]
      /\ pos2 = [m \in D \ {x} |-> pos2[m]] /\ lo2 = [m \in D \ {x} |-> lo2[m]]
      /\ hi2 = [m \in D \ {x} |-> hi2[m]]
  BY <1>1 DEF Narrowed
<1>7. /\ q \in Int /\ 1 <= q /\ q <= n /\ 1 <= n /\ n - 1 \in Nat
      /\ \A m \in D \ {x} : pos[m] # q
  BY <1>1, <1>2
<1>8. /\ lo[x] \in Int /\ hi[x] \in Int
      /\ c = NULL => lo[x] = q /\ hi[x] = q
      /\ c # NULL => /\ c \in D \ {x} /\ f[c].F = x
                     /\ \/ c = f[x].L /\ hi[x] = q /\ lo[c] = lo[x] /\ hi[c] = q - 1
                        \/ c = f[x].R /\ lo[x] = q /\ lo[c] = q + 1 /\ hi[c] = hi[x]
  <2>1. lo[x] \in Int /\ hi[x] \in Int /\ lo[x] <= q /\ q <= hi[x]
    BY <1>1, <1>2
  <2>2. CASE f[x].L # NULL
    <3>1. /\ c = f[x].L /\ c # NULL /\ c \in D /\ f[c].F = x /\ hi[x] = q
          /\ lo[c] = lo[x] /\ hi[c] = q - 1
      BY <1>1, <1>3, <1>5, <2>2
    <3>2. c # x
      BY <1>7, <3>1
    <3> QED
      BY <2>1, <3>1, <3>2
  <2>3. CASE f[x].L = NULL /\ f[x].R # NULL
    <3>1. /\ c = f[x].R /\ c # NULL /\ c \in D /\ f[c].F = x /\ lo[x] = q
          /\ lo[c] = q + 1 /\ hi[c] = hi[x]
      BY <1>1, <1>3, <1>5, <2>3
    <3>2. c # x
      BY <1>7, <3>1
    <3> QED
      BY <2>1, <3>1, <3>2
  <2>4. CASE f[x].L = NULL /\ f[x].R = NULL
    BY <1>1, <1>3, <1>5, <2>1, <2>4
  <2> QED
    BY <2>2, <2>3, <2>4
<1>9. Places(g, n - 1, pos2, lo2, hi2)
  <2>1. ASSUME NEW m \in D \ {x}
        PROVE  /\ pos2[m] \in 1 .. n - 1 /\ lo2[m] \in 1 .. n - 1 /\ hi2[m] \in 1 .. n - 1
               /\ lo2[m] <= pos2[m] /\ pos2[m] <= hi2[m]
    <3>1. /\ pos[m] \in Int /\ lo[m] \in Int /\ hi[m] \in Int /\ pos[m] # q
          /\ 1 <= lo[m] /\ lo[m] <= pos[m] /\ pos[m] <= hi[m] /\ hi[m] <= n
      BY <1>2, <1>7
    <3>2. /\ pos2[m] = IF pos[m] > q THEN pos[m] - 1 ELSE pos[m]
          /\ lo2[m] = IF lo[m] > q THEN lo[m] - 1 ELSE lo[m]
          /\ hi2[m] = IF hi[m] >= q THEN hi[m] - 1 ELSE hi[m]
      BY <1>6
    <3>3. /\ 1 <= lo2[m] /\ lo2[m] <= pos2[m] /\ pos2[m] <= hi2[m]
          /\ pos2[m] \in Int /\ lo2[m] \in Int /\ hi2[m] \in Int
      BY <1>7, <3>1, <3>2
    <3>4. hi2[m] <= n - 1
      <4>1. CASE hi[m] >= q
        BY <1>2, <1>7, <3>1, <3>2, <4>1
      <4>2. CASE hi[m] < q
        BY <1>2, <1>7, <3>1, <3>2, <4>2
      <4> QED
        BY <1>7, <3>1, <4>1, <4>2
    <3> QED
      BY <1>7, <3>3, <3>4
  <2>2. /\ pos2 \in [DOMAIN g -> 1 .. n - 1] /\ lo2 \in [DOMAIN g -> 1 .. n - 1]
        /\ hi2 \in [DOMAIN g -> 1 .. n - 1]
    BY <1>5, <1>6, <2>1
  <2>3. ASSUME NEW i \in 1 .. n - 1 PROVE \E m \in DOMAIN g : pos2[m] = i
    <3>1. CASE i < q
      <4>1. PICK m \in D : pos[m] = i
        BY <1>2, <1>7, <3>1
      <4>2. m # x /\ pos2[m] = i
        BY <1>1, <1>6, <1>7, <3>1, <4>1
      <4> QED
        BY <1>5, <4>2
    <3>2. CASE i >= q
      <4>1. PICK m \in D : pos[m] = i + 1
        BY <1>2, <1>7, <3>2
      <4>2. m # x /\ pos[m] > q
        BY <1>1, <1>7, <3>2, <4>1
      <4>3. pos2[m] = i
        BY <1>6, <4>1, <4>2
      <4> QED
        BY <1>5, <4>2, <4>3
    <3> QED
      BY <1>7, <3>1, <3>2
  <2>4. ASSUME NEW m \in D \ {x}, NEW j \in D \ {x}, pos2[m] = pos2[j] PROVE m = j
    <3>1. /\ pos2[m] = IF pos[m] > q THEN pos[m] - 1 ELSE pos[m]
          /\ pos2[j] = IF pos[j] > q THEN pos[j] - 1 ELSE pos[j]
      BY <1>6
    <3>2. pos[m] \in Int /\ pos[j] \in Int /\ pos[m] # q /\ pos[j] # q
      BY <1>2, <1>7
    <3>3. pos[m] = pos[j]
      <4>1. (IF pos[m] > q THEN pos[m] - 1 ELSE pos[m])
               = (IF pos[j] > q THEN pos[j] - 1 ELSE pos[j])
        BY <2>4, <3>1
      <4> HIDE DEF D
      <4> QED
        BY <1>7, <3>2, <4>1, StillApart
    <3> QED
      BY <1>2, <3>3
  <2> QED
    BY <1>5, <1>7, <2>1, <2>2, <2>3, <2>4 DEF Places
<1>10. ASSUME NEW m \in D \ {x} PROVE LeftSide(g, pos2, lo2, hi2, m)
  <2>0. /\ pos[m] \in Int /\ lo[m] \in Int /\ pos[m] # q
        /\ pos2[m] = IF pos[m] > q THEN pos[m] - 1 ELSE pos[m]
        /\ lo2[m] = IF lo[m] > q THEN lo[m] - 1 ELSE lo[m]
    BY <1>2, <1>6, <1>7
  <2>1. CASE f[m].L = x
    <3>1. m = u /\ lo[x] = lo[m] /\ hi[x] = pos[m] - 1 /\ g[m].L = c
      BY <1>3, <1>5, <2>1
    <3>2. CASE c = NULL
      <4>1. lo2[m] = q /\ pos2[m] = q
        BY <1>7, <1>8, <2>0, <3>1, <3>2
      <4> QED
        BY <3>1, <3>2, <4>1 DEF LeftSide
    <3>3. CASE c # NULL
      <4>1. /\ c \in DOMAIN g /\ g[c].F = m
            /\ lo2[c] = IF lo[c] > q THEN lo[c] - 1 ELSE lo[c]
            /\ hi2[c] = IF hi[c] >= q THEN hi[c] - 1 ELSE hi[c]
        BY <1>5, <1>6, <1>8, <3>1, <3>3
      <4>2. lo2[c] = lo2[m] /\ hi2[c] = pos2[m] - 1
        <5>0. /\ lo[c] \in Int /\ hi[c] \in Int /\ lo[x] <= q /\ q <= hi[x]
              /\ lo[c] <= hi[c]
          BY <1>1, <1>2, <1>8, <3>3
        <5>1. CASE hi[x] = q /\ lo[c] = lo[x] /\ hi[c] = q - 1
          BY <1>7, <2>0, <3>1, <4>1, <5>0, <5>1
        <5>2. CASE lo[x] = q /\ lo[c] = q + 1 /\ hi[c] = hi[x]
          BY <1>7, <2>0, <3>1, <4>1, <5>0, <5>2
        <5> QED
          BY <1>8, <3>3, <5>1, <5>2
      <4> QED
        BY <3>1, <3>3, <4>1, <4>2 DEF LeftSide
    <3> QED
      BY <3>2, <3>3
  <2>2. CASE f[m].L = NULL
    <3>1. lo[m] = pos[m] /\ g[m].L = NULL
      BY <1>3, <1>5, <2>2
    <3> QED
      BY <2>0, <3>1 DEF LeftSide
  <2>3. CASE f[m].L # NULL /\ f[m].L # x
    <3>1. PICK d \in D \ {x} : d = f[m].L /\ f[d].F = m /\ lo[d] = lo[m] /\ hi[d] = pos[m] - 1
      BY <1>3, <2>3
    <3>2. d # c
      BY <1>8, <2>3, <3>1
    <3>3. /\ g[m].L = d /\ g[d].F = m /\ lo2[d] = lo2[m]
          /\ hi2[d] = IF hi[d] >= q THEN hi[d] - 1 ELSE hi[d]
      BY <1>5, <1>6, <2>3, <3>1, <3>2
    <3>4. hi2[d] = pos2[m] - 1
      BY <1>7, <2>0, <3>1, <3>3
    <3> QED
      BY <1>5, <2>3, <3>1, <3>3, <3>4 DEF LeftSide
  <2> QED
    BY <2>1, <2>2, <2>3
<1>11. ASSUME NEW m \in D \ {x} PROVE RightSide(g, pos2, lo2, hi2, m)
  <2>0. /\ pos[m] \in Int /\ hi[m] \in Int /\ pos[m] # q
        /\ pos2[m] = IF pos[m] > q THEN pos[m] - 1 ELSE pos[m]
        /\ hi2[m] = IF hi[m] >= q THEN hi[m] - 1 ELSE hi[m]
    BY <1>2, <1>6, <1>7
  <2>1. CASE f[m].R = x
    <3>1. m = u /\ lo[x] = pos[m] + 1 /\ hi[x] = hi[m] /\ g[m].R = c
      BY <1>3, <1>5, <2>1
    <3>2. CASE c = NULL
      <4>1. hi2[m] = q - 1 /\ pos2[m] = q - 1
        BY <1>7, <1>8, <2>0, <3>1, <3>2
      <4> QED
        BY <3>1, <3>2, <4>1 DEF RightSide
    <3>3. CASE c # NULL
      <4>1. /\ c \in DOMAIN g /\ g[c].F = m
            /\ lo2[c] = IF lo[c] > q THEN lo[c] - 1 ELSE lo[c]
            /\ hi2[c] = IF hi[c] >= q THEN hi[c] - 1 ELSE hi[c]
        BY <1>5, <1>6, <1>8, <3>1, <3>3
      <4>2. lo2[c] = pos2[m] + 1 /\ hi2[c] = hi2[m]
        <5>0. /\ lo[c] \in Int /\ hi[c] \in Int /\ lo[x] <= q /\ q <= hi[x]
              /\ lo[c] <= hi[c]
          BY <1>1, <1>2, <1>8, <3>3
        <5>1. CASE hi[x] = q /\ lo[c] = lo[x] /\ hi[c] = q - 1
          BY <1>7, <2>0, <3>1, <4>1, <5>0, <5>1
        <5>2. CASE lo[x] = q /\ lo[c] = q + 1 /\ hi[c] = hi[x]
          BY <1>7, <2>0, <3>1, <4>1, <5>0, <5>2
        <5> QED
          BY <1>8, <3>3, <5>1, <5>2
      <4> QED
        BY <3>1, <3>3, <4>1, <4>2 DEF RightSide
    <3> QED
      BY <3>2, <3>3
  <2>2. CASE f[m].R = NULL
    <3>1. hi[m] = pos[m] /\ g[m].R = NULL
      BY <1>3, <1>5, <2>2
    <3>2. hi2[m] = pos2[m]
      BY <1>7, <2>0, <3>1
    <3> QED
      BY <3>1, <3>2 DEF RightSide
  <2>3. CASE f[m].R # NULL /\ f[m].R # x
    <3>1. PICK d \in D \ {x} : d = f[m].R /\ f[d].F = m /\ lo[d] = pos[m] + 1 /\ hi[d] = hi[m]
      BY <1>3, <2>3
    <3>2. d # c
      BY <1>8, <2>3, <3>1
    <3>3. /\ g[m].R = d /\ g[d].F = m /\ hi2[d] = hi2[m]
          /\ lo2[d] = IF lo[d] > q THEN lo[d] - 1 ELSE lo[d]
      BY <1>5, <1>6, <2>3, <3>1, <3>2
    <3>4. lo2[d] = pos2[m] + 1
      BY <1>7, <2>0, <3>1, <3>3
    <3> QED
      BY <1>5, <2>3, <3>1, <3>3, <3>4 DEF RightSide
  <2> QED
    BY <2>1, <2>2, <2>3
<1>12. u # NULL => u \in D \ {x} /\ (f[u].L = x \/ f[u].R = x)
  <2>1. f[x].L # x /\ f[x].R # x
    BY <1>2, <1>3
  <2> QED
    BY <1>4, <1>5, <2>1
<1>13. ASSUME NEW m \in D \ {x} PROVE Above(g, h2, n - 1, lo2, hi2, m)
  <2>0. /\ m # NULL /\ lo[m] \in Int /\ hi[m] \in Int
        /\ lo2[m] = IF lo[m] > q THEN lo[m] - 1 ELSE lo[m]
        /\ hi2[m] = IF hi[m] >= q THEN hi[m] - 1 ELSE hi[m]
    BY <1>2, <1>6
  <2>1. CASE m = c
    <3>1. g[m].F = u
      BY <1>5, <2>1
    <3>2. CASE u = NULL
      <4>1. h2 = m /\ lo[x] = 1 /\ hi[x] = n
        BY <1>4, <1>5, <2>1, <3>2
      <4>2. lo2[m] = 1 /\ hi2[m] = n - 1
        <5>1. CASE hi[x] = q /\ lo[c] = lo[x] /\ hi[c] = q - 1
          BY <1>7, <2>0, <2>1, <4>1, <5>1
        <5>2. CASE lo[x] = q /\ lo[c] = q + 1 /\ hi[c] = hi[x]
          BY <1>7, <2>0, <2>1, <4>1, <5>2
        <5> QED
          BY <1>8, <2>0, <2>1, <5>1, <5>2
      <4> QED
        BY <3>1, <3>2, <4>1, <4>2 DEF Above
    <3>3. CASE u # NULL
      BY <1>5, <1>12, <2>1, <3>1, <3>3 DEF Above
    <3> QED
      BY <3>2, <3>3
  <2>2. CASE m # c
    <3>1. g[m].F = f[m].F
      BY <1>5, <2>2
    <3>2. CASE f[m].F = NULL
      <4>1. m = h /\ lo[m] = 1 /\ hi[m] = n
        BY <1>4, <3>2
      <4>2. u # NULL
        BY <1>4, <1>5, <4>1
      <4>3. h2 = m /\ lo2[m] = 1 /\ hi2[m] = n - 1
        BY <1>5, <1>7, <2>0, <4>1, <4>2
      <4> QED
        BY <3>1, <3>2, <4>3 DEF Above
    <3>3. CASE f[m].F # NULL
      <4>1. PICK y \in D : y = f[m].F /\ (f[y].L = m \/ f[y].R = m)
        BY <1>4, <3>3
      <4>2. y # x
        BY <1>5, <2>0, <2>2, <4>1
      <4>3. g[y].L = m \/ g[y].R = m
        BY <1>5, <4>1, <4>2
      <4> QED
        BY <1>5, <3>1, <3>3, <4>1, <4>2, <4>3 DEF Above
    <3> QED
      BY <3>2, <3>3
  <2> QED
    BY <2>1, <2>2
<1>14. IF h2 = NULL THEN DOMAIN g = {} ELSE h2 \in DOMAIN g /\ g[h2].F = NULL
  <2>1. CASE u = NULL /\ c = NULL
    <3>1. lo[x] = 1 /\ hi[x] = n /\ lo[x] = q /\ hi[x] = q
      BY <1>4, <1>5, <1>8, <2>1
    <3>2. \A m \in D : pos[m] = q
      BY <1>2, <3>1
    <3> QED
      BY <1>5, <1>7, <2>1, <3>2
  <2>2. CASE u = NULL /\ c # NULL
    BY <1>5, <1>8, <2>2
  <2>3. CASE u # NULL
    <3>1. h2 = h /\ h # x
      BY <1>4, <1>5, <2>3
    <3>2. h # c
      BY <1>4, <1>8
    <3> QED
      BY <1>4, <1>5, <3>1, <3>2
  <2> QED
    BY <2>1, <2>2, <2>3
<1> QED
  BY <1>5, <1>9, <1>10, <1>11, <1>13, <1>14 DEF Tree

------------------------------------------------------------------------------
(* Insertion. *)

LEMMA Types ==
    ASSUME TypeOK
    PROVE  /\ NULL \notin DOMAIN node /\ nNode + 1 \notin DOMAIN node
           /\ nNode \in Nat /\ nNode + 1 \in Nat /\ nNode + 1 # NULL
           /\ node \in [DOMAIN node -> NodeR]
           /\ \A m \in DOMAIN node : m \in Nat /\ m <= nNode /\ m < nNode + 1
           /\ \A m \in DOMAIN node : Value(m) \in Int
<1>1. nNode \in Nat /\ DOMAIN node \subseteq 1 .. nNode /\ node \in [DOMAIN node -> NodeR]
  BY DEF TypeOK, NodeR
<1>2. \A m \in DOMAIN node : node[m].arg \in Values \X (1 .. MaxNodes)
  BY <1>1 DEF NodeR, Items
<1>3. \A m \in DOMAIN node : Value(m) \in Int
  BY <1>2, ValuesAssumption DEF Value
<1> QED
  BY <1>1, <1>3 DEF NULL

(* The order of the nodes in D is the same in both. *)
SameOrder(D, pos, pos2) == \A m, j \in D : pos[m] <= pos[j] <=> pos2[m] <= pos2[j]

(* The node above the new one. *)
Up(v) == IF head = NULL THEN NULL ELSE ParentFor(v)

LEMMA InsertLinks ==
    ASSUME TypeOK, NEW v \in Values, nNode < MaxNodes, vtree_insert(v), Up(v) \in Nat,
           head # NULL => Up(v) \in DOMAIN node, NEW x, x = nNode + 1
    PROVE  /\ node' \in [DOMAIN node \cup {x} -> NodeR]
           /\ node'[x].arg = <<v, x>> /\ \A m \in DOMAIN node : node'[m].arg = node[m].arg
           /\ head # NULL => Hung(node, node', x, Up(v), GoesRight(Up(v), v))
           /\ node'[x].F = Up(v) /\ node'[x].L = NULL /\ node'[x].R = NULL
<1>1. /\ NULL \notin DOMAIN node /\ x \notin DOMAIN node /\ x \in Nat /\ x # NULL
      /\ node \in [DOMAIN node -> NodeR] /\ x \in 1 .. MaxNodes
  BY Types, MaxNodesAssumption, SMTT(20) DEF TypeOK
<1>2. PICK new : new = NewNode(v, x, Up(v))
  OBVIOUS
<1>3. new \in NodeR /\ new.arg = <<v, x>> /\ new.F = Up(v) /\ new.L = NULL /\ new.R = NULL
  BY <1>1, <1>2 DEF NewNode, NodeR, Items, NULL
<1>4. node' = [m \in DOMAIN node \cup {x} |->
                 IF m = x THEN new
                 ELSE IF m # new.F THEN node[m]
                 ELSE IF GoesRight(m, v) THEN [node[m] EXCEPT !.R = x]
                 ELSE [node[m] EXCEPT !.L = x]]
  BY <1>2 DEF vtree_insert, Up
<1>5. DOMAIN node' = DOMAIN node \cup {x} /\ node'[x] = new
  BY <1>4
<1>6. ASSUME NEW m \in DOMAIN node
      PROVE  /\ node'[m] \in NodeR /\ node'[m].arg = node[m].arg /\ node'[m].F = node[m].F
             /\ node'[m].L = IF m = Up(v) /\ ~GoesRight(m, v) THEN x ELSE node[m].L
             /\ node'[m].R = IF m = Up(v) /\ GoesRight(m, v) THEN x ELSE node[m].R
  <2>1. node[m] \in NodeR /\ m # x
    BY <1>1
  <2>2. CASE m # Up(v)
    <3>1. node'[m] = node[m]
      BY <1>3, <1>4, <2>1, <2>2
    <3> QED
      BY <2>1, <2>2, <3>1
  <2>3. CASE m = Up(v) /\ GoesRight(m, v)
    <3>1. node'[m] = [node[m] EXCEPT !.R = x]
      BY <1>3, <1>4, <2>1, <2>3
    <3> QED
      BY <1>1, <2>1, <2>3, <3>1 DEF NodeR
  <2>4. CASE m = Up(v) /\ ~GoesRight(m, v)
    <3>1. node'[m] = [node[m] EXCEPT !.L = x]
      BY <1>3, <1>4, <2>1, <2>4
    <3> QED
      BY <1>1, <2>1, <2>4, <3>1 DEF NodeR
  <2> QED
    BY <2>2, <2>3, <2>4
<1>7. node' \in [DOMAIN node \cup {x} -> NodeR]
  <2>1. node' = [m \in DOMAIN node \cup {x} |-> node'[m]]
    BY <1>4, Zenon
  <2> QED
    BY <1>3, <1>5, <1>6, <2>1
<1>8. head # NULL => Hung(node, node', x, Up(v), GoesRight(Up(v), v))
  BY <1>3, <1>5, <1>6 DEF Hung
<1> QED
  BY <1>3, <1>5, <1>6, <1>7, <1>8

LEMMA InsertTree ==
    ASSUME TypeOK, NEW pos, NEW lo, NEW hi, Tree(node, head, size, pos, lo, hi), Sorted(node, pos),
           NEW v \in Values, nNode < MaxNodes, vtree_insert(v), NEW x, x = nNode + 1
    PROVE  /\ node' \in [DOMAIN node \cup {x} -> NodeR] /\ head' \in DOMAIN node'
           /\ node'[x].arg = <<v, x>> /\ \A m \in DOMAIN node : node'[m].arg = node[m].arg
           /\ size' = size + 1 /\ size' \in Nat
           /\ \E pos2, lo2, hi2 : /\ Tree(node', head', size', pos2, lo2, hi2)
                                  /\ Sorted(node', pos2) /\ SameOrder(DOMAIN node, pos, pos2)
<1> DEFINE D == DOMAIN node
<1>1. /\ NULL \notin D /\ x \notin D /\ x \in Nat /\ x # NULL /\ v \in Int
      /\ D \subseteq Nat /\ \A m \in D : Value(m) \in Int
  BY Types, ValuesAssumption DEF TypeOK
<1>2. /\ size \in Nat /\ size' = size + 1 /\ size' \in Nat
      /\ \A m \in D : pos[m] \in Int
      /\ \A m, j \in D : pos[m] = pos[j] => m = j
      /\ head = NULL => D = {}
      /\ head # NULL => head \in D
      /\ head' = IF head = NULL THEN x ELSE head
  BY TreeFacts DEF vtree_insert
<1>3. CASE head = NULL
  <2>1. Up(v) = NULL /\ NULL \in Nat /\ D = {}
    BY <1>2, <1>3 DEF Up, NULL
  <2>2. /\ node' \in [D \cup {x} -> NodeR] /\ node'[x].arg = <<v, x>>
        /\ node'[x].F = NULL /\ node'[x].L = NULL /\ node'[x].R = NULL
    BY <1>3, <2>1, InsertLinks
  <2>3. DOMAIN node' = {x} /\ head' = x /\ size = 0 /\ size' = 1
    <3>1. size = 0
      <4>1. \A i \in 1 .. size : \E m \in D : pos[m] = i
        BY TreeFacts
      <4> QED
        BY <1>2, <2>1, <4>1
    <3> QED
      BY <1>2, <1>3, <2>1, <2>2, <3>1
  <2>4. PICK one : one = [m \in {x} |-> 1]
    OBVIOUS
  <2>5. Places(node', 1, one, one, one)
    BY <2>3, <2>4 DEF Places
  <2>6. /\ LeftSide(node', one, one, one, x) /\ RightSide(node', one, one, one, x)
        /\ Above(node', x, 1, one, one, x)
    BY <2>2, <2>4 DEF LeftSide, RightSide, Above
  <2>7. Tree(node', head', size', one, one, one)
    BY <1>1, <2>2, <2>3, <2>5, <2>6 DEF Tree
  <2>8. Sorted(node', one)
    BY <2>3, <2>4 DEF Sorted
  <2>9. SameOrder(D, pos, one)
    BY <2>1 DEF SameOrder
  <2> QED
    BY <1>2, <2>1, <2>2, <2>3, <2>7, <2>8, <2>9
<1>4. CASE head # NULL
  <2>1. PICK y : y = Up(v)
    OBVIOUS
  <2>2. Fits(pos, y, v)
    BY <1>1, <1>4, <2>1, ParentIs DEF Up
  <2>3. y \in D /\ y \in Nat
    BY <1>1, <2>2 DEF Fits
  <2>4. /\ node' \in [D \cup {x} -> NodeR] /\ node'[x].arg = <<v, x>>
        /\ \A m \in D : node'[m].arg = node[m].arg
        /\ Hung(node, node', x, y, GoesRight(y, v))
    BY <1>4, <2>1, <2>3, InsertLinks
  <2>5. PICK right \in BOOLEAN : right <=> GoesRight(y, v)
    OBVIOUS
  <2>6. PICK q, k : q = pos[y] /\ k = IF right THEN q ELSE q - 1
    OBVIOUS
  <2>7. PICK pos2, lo2, hi2 : Widened(D, x, k, q, pos, lo, hi, pos2, lo2, hi2)
    BY DEF Widened
  <2>8. Tree(node', head', size', pos2, lo2, hi2)
    <3>1. right => node[y].R = NULL
      BY <2>2, <2>5 DEF Fits
    <3>2. ~right => node[y].L = NULL
      BY <2>2, <2>5 DEF Fits
    <3>3. Hung(node, node', x, y, right)
      BY <2>4, <2>5 DEF Hung
    <3>4. Tree(node', head, size + 1, pos2, lo2, hi2)
      BY <1>1, <2>3, <2>6, <2>7, <3>1, <3>2, <3>3, HungTree
    <3> QED
      BY <1>2, <1>4, <3>4
  <2>9. /\ pos2[x] = k + 1 /\ q \in Int /\ k \in Int
        /\ \A m \in D : pos2[m] = IF pos[m] > k THEN pos[m] + 1 ELSE pos[m]
    BY <1>1, <1>2, <2>3, <2>6, <2>7 DEF Widened
  <2>10. SameOrder(D, pos, pos2)
    <3>1. ASSUME NEW m \in D, NEW j \in D PROVE pos[m] <= pos[j] <=> pos2[m] <= pos2[j]
      <4>1. /\ pos2[m] = IF pos[m] > k THEN pos[m] + 1 ELSE pos[m]
            /\ pos2[j] = IF pos[j] > k THEN pos[j] + 1 ELSE pos[j]
            /\ pos[m] \in Int /\ pos[j] \in Int
        BY <1>2, <2>9
      <4> QED
        BY <2>9, <4>1
    <3> QED
      BY <3>1 DEF SameOrder
  <2>11. ASSUME NEW m \in D
         PROVE  /\ pos2[m] < pos2[x] => Value(m) <= v
                /\ pos2[x] < pos2[m] => v <= Value(m)
    <3>1. /\ pos[m] \in Int /\ pos2[m] = IF pos[m] > k THEN pos[m] + 1 ELSE pos[m]
          /\ Value(m) \in Int /\ Value(y) \in Int
      BY <1>1, <1>2, <2>3, <2>9
    <3>2. /\ pos2[m] < pos2[x] => pos[m] <= k
          /\ pos2[x] < pos2[m] => k < pos[m]
      BY <2>9, <3>1
    <3>3. /\ pos[m] < q => Value(m) <= Value(y)
          /\ q < pos[m] => Value(y) <= Value(m)
          /\ pos[m] = q => m = y
      BY <1>2, <2>3, <2>6 DEF Sorted, Value
    <3>4. CASE right
      <4>1. Value(y) < v /\ (q < pos[m] => v <= Value(m)) /\ k = q
        BY <2>2, <2>5, <2>6, <3>4 DEF Fits, GoesRight
      <4> QED
        BY <1>1, <2>9, <3>1, <3>2, <3>3, <4>1
    <3>5. CASE ~right
      <4>1. v <= Value(y) /\ (pos[m] < q => Value(m) <= v) /\ k = q - 1
        <5>1. ~(Value(y) < v)
          BY <2>5, <3>5 DEF GoesRight
        <5>2. pos[m] < q => Value(m) <= v
          BY <2>2, <2>5, <2>6, <3>5 DEF Fits
        <5> QED
          BY <1>1, <2>6, <3>1, <3>5, <5>1, <5>2
      <4> QED
        BY <1>1, <2>9, <3>1, <3>2, <3>3, <4>1
    <3> QED
      BY <3>4, <3>5
  <2>12. Sorted(node', pos2)
    <3>1. ASSUME NEW m \in D, NEW j \in D, pos2[m] < pos2[j]
          PROVE  node'[m].arg[1] <= node'[j].arg[1]
      <4>1. pos[m] < pos[j]
        <5>1. pos[m] \in Int /\ pos[j] \in Int /\ pos2[m] \in Int /\ pos2[j] \in Int
          BY <1>2, <2>9
        <5>2. ~(pos[j] <= pos[m])
          BY <2>10, <3>1, <5>1 DEF SameOrder
        <5> QED
          BY <5>1, <5>2
      <4> QED
        BY <2>4, <4>1 DEF Sorted
    <3>2. ASSUME NEW m \in D
          PROVE  /\ pos2[m] < pos2[x] => node'[m].arg[1] <= node'[x].arg[1]
                 /\ pos2[x] < pos2[m] => node'[x].arg[1] <= node'[m].arg[1]
      BY <2>4, <2>11 DEF Value
    <3>3. ~(pos2[x] < pos2[x])
      BY <2>9
    <3>4. DOMAIN node' = D \cup {x}
      BY <2>4
    <3> QED
      BY <3>1, <3>2, <3>3, <3>4 DEF Sorted
  <2> QED
    BY <1>2, <1>4, <2>4, <2>8, <2>10, <2>12
<1> QED
  BY <1>3, <1>4

LEMMA BeforeTrans ==
    ASSUME NEW t, NEW i \in Int, NEW j \in Int, NEW k \in Int, Before(t, i, j), Before(t, j, k)
    PROVE  Before(t, i, k)
<1>1. CASE loop[t].from = FIRST
  BY <1>1 DEF Before
<1>2. CASE loop[t].from # FIRST
  BY <1>2 DEF Before
<1> QED
  BY <1>1, <1>2

LEMMA SeenTypes ==
    ASSUME TypeOK, NEW t \in Threads
    PROVE  /\ Seen(t) \subseteq Items /\ owed[t] \subseteq Items
           /\ \A y \in Seen(t) : y[1] \in Int /\ y[2] \in Int
<1>1. seen[t] \in Seq(Items) /\ owed[t] \subseteq Items
  BY DEF TypeOK
<1>2. Seen(t) \subseteq Items
  BY <1>1 DEF Seen
<1>3. \A y \in Items : y[1] \in Int /\ y[2] \in Int
  <2> SUFFICES ASSUME NEW y \in Items PROVE y[1] \in Int /\ y[2] \in Int
    OBVIOUS
  <2>1. y[1] \in Values /\ y[2] \in 1 .. MaxNodes
    BY DEF Items
  <2>2. \A i \in 1 .. MaxNodes : i \in Int
    BY MaxNodesAssumption
  <2> QED
    BY <2>1, <2>2, ValuesAssumption
<1> QED
  BY <1>1, <1>2, <1>3

(* A node more changes nothing for those that a loop has visited or owes. *)
LEMMA InsertLoop ==
    ASSUME TypeOK, NEW pos, NEW pos2, NEW u \in Threads, LoopSound(u, pos), Visits(u),
           NEW x, x = nNode + 1, NEW v \in Int, node'[x].arg = <<v, x>>,
           DOMAIN node' = DOMAIN node \cup {x},
           \A m \in DOMAIN node : node'[m].arg = node[m].arg,
           \A m \in DOMAIN node : pos[m] \in Int, \A m \in DOMAIN node' : pos2[m] \in Int,
           \A m, j \in DOMAIN node' : pos2[m] = pos2[j] => m = j,
           SameOrder(DOMAIN node, pos, pos2), Sorted(node', pos2),
           cur' = cur, UNCHANGED <<pc, loop, p, seen, owed>>
    PROVE  LoopSound(u, pos2)'
<1> DEFINE D == DOMAIN node
           way == loop[u].from
<1> SUFFICES ASSUME pc[u] = "loop" PROVE LoopSound(u, pos2)'
  BY DEF LoopSound
<1>1. /\ cur \in D \cup {NULL}
      /\ p[u] # NULL => p[u] \in D /\ ~Ahead(way, pos, p[u])
      /\ \A m \in D : Ahead(way, pos, m) =>
            /\ node[m].arg \notin Seen(u)
            /\ \A y \in Seen(u) : Before(u, y[1], Value(m))
      /\ \A y \in owed[u] :
            /\ y[1] \in loop[u].filter
            /\ \E m \in D : node[m].arg = y /\ Ahead(way, pos, m)
  BY DEF LoopSound
<1>2. /\ x \notin D /\ NULL \notin D /\ nNode \in Nat /\ x \in Nat /\ x # NULL
      /\ \A m \in D : Value(m) \in Int
  BY Types
<1>3. Seen(u)' = Seen(u)
  BY DEF Seen
<1>4. ASSUME NEW m \in D PROVE Ahead(way, pos2, m)' <=> Ahead(way, pos, m)
  BY <1>1 DEF Ahead, Toward, SameOrder
<1>5. \A y \in Seen(u) : y[1] \in Int /\ y[2] \in Int /\ y[2] <= nNode
  BY SeenTypes DEF Visits
<1>6. <<v, x>> \notin Seen(u)
  BY <1>2, <1>5
<1>7. ASSUME Ahead(way, pos2, x)', NEW y \in Seen(u) PROVE Before(u, y[1], v)
  <2>1. cur # NULL /\ cur \in D /\ Toward(way, pos2[cur], pos2[x]) /\ pos2[cur] # pos2[x]
    BY <1>1, <1>2, <1>7 DEF Ahead
  <2>2. Ahead(way, pos, cur)
    BY <2>1 DEF Ahead, Toward
  <2>3. Before(u, y[1], Value(cur))
    BY <1>1, <1>7, <2>1, <2>2
  <2>4. Before(u, Value(cur), v)
    <3>1. pos2[cur] \in Int /\ pos2[x] \in Int
      BY <2>1
    <3>2. pos2[cur] < pos2[x] => Value(cur) <= v
      BY <2>1 DEF Sorted, Value
    <3>3. pos2[x] < pos2[cur] => v <= Value(cur)
      BY <2>1 DEF Sorted, Value
    <3> QED
      BY <2>1, <3>1, <3>2, <3>3 DEF Toward, Before
  <2> QED
    BY <1>2, <1>5, <1>7, <2>1, <2>3, <2>4, BeforeTrans
<1>8. ASSUME NEW m \in DOMAIN node', Ahead(way, pos2, m)'
      PROVE  /\ node'[m].arg \notin Seen(u)
             /\ \A y \in Seen(u) : Before(u, y[1], node'[m].arg[1])
  <2>1. CASE m = x
    BY <1>6, <1>7, <1>8, <2>1
  <2>2. CASE m \in D
    <3>1. Ahead(way, pos, m)
      BY <1>4, <1>8, <2>2
    <3>2. node'[m].arg = node[m].arg
      BY <2>2
    <3> QED
      BY <1>1, <2>2, <3>1, <3>2 DEF Value
  <2> QED
    BY <2>1, <2>2
<1>9. ASSUME p[u] # NULL PROVE p[u] \in DOMAIN node' /\ ~Ahead(way, pos2, p[u])'
  <2>1. p[u] \in D /\ ~Ahead(way, pos, p[u])
    BY <1>1, <1>9
  <2>2. ~Ahead(way, pos2, p[u])'
    BY <1>4, <2>1
  <2> QED
    BY <2>1, <2>2
<1>10. ASSUME NEW y \in owed[u]
       PROVE  \E m \in DOMAIN node' : node'[m].arg = y /\ Ahead(way, pos2, m)'
  <2>1. PICK m \in D : node[m].arg = y /\ Ahead(way, pos, m)
    BY <1>1, <1>10
  <2>2. Ahead(way, pos2, m)'
    BY <1>4, <2>1
  <2> QED
    BY <2>1, <2>2
<1>11. cur' \in DOMAIN node' \cup {NULL}
  BY <1>1
<1> QED
  BY <1>1, <1>3, <1>8, <1>9, <1>10, <1>11 DEF LoopSound, Before, Value

LEMMA InsertStep ==
    ASSUME IndInv, NEW t \in Threads, NEW v \in Values, Insert(t, v)
    PROVE  IndInv'
<1>1. /\ nNode < MaxNodes /\ vtree_insert(v) /\ UNCHANGED <<mutex, pc, loop, p, seen, owed>>
      /\ cur' = cur
  BY DEF Insert, vtree_insert
<1>2. TypeOK /\ Numbered /\ \A u \in Threads : Visits(u)
  BY DEF IndInv
<1>3. PICK pos, lo, hi : Shape(pos, lo, hi)
  BY DEF IndInv
<1>4. /\ Tree(node, head, size, pos, lo, hi) /\ Sorted(node, pos)
      /\ \A u \in Threads : LoopSound(u, pos)
  BY <1>3 DEF Shape
<1>5. PICK x : x = nNode + 1
  OBVIOUS
<1>6. /\ node' \in [DOMAIN node \cup {x} -> NodeR] /\ head' \in DOMAIN node'
      /\ node'[x].arg = <<v, x>> /\ \A m \in DOMAIN node : node'[m].arg = node[m].arg
      /\ size' = size + 1 /\ size' \in Nat
      /\ \E pos2, lo2, hi2 : /\ Tree(node', head', size', pos2, lo2, hi2)
                             /\ Sorted(node', pos2) /\ SameOrder(DOMAIN node, pos, pos2)
  BY <1>1, <1>2, <1>4, <1>5, InsertTree
<1>7. PICK pos2, lo2, hi2 : /\ Tree(node', head', size', pos2, lo2, hi2)
                            /\ Sorted(node', pos2) /\ SameOrder(DOMAIN node, pos, pos2)
  BY <1>6
<1>8. /\ x \notin DOMAIN node /\ x \in Nat /\ nNode \in Nat /\ v \in Int /\ x # NULL
      /\ \A m \in DOMAIN node : m \in Nat /\ m <= nNode
  BY <1>2, <1>5, Types, ValuesAssumption
<1>9. /\ nNode' = x /\ items' = items \cup {<<v, x>>}
      /\ memUsage' = memUsage + NodeSize + IntSize
      /\ DOMAIN node' = DOMAIN node \cup {x}
  BY <1>1, <1>5, <1>6 DEF vtree_insert
<1>10. TypeOK'
  <2>1. nNode' \in 0 .. MaxNodes /\ DOMAIN node' \subseteq 1 .. nNode'
    BY <1>1, <1>2, <1>5, <1>8, <1>9, MaxNodesAssumption DEF TypeOK, NULL
  <2>2. node' \in [DOMAIN node' -> NodeR]
    BY <1>6, <1>9
  <2>3. items' \subseteq Items
    BY <1>2, <1>9, <2>1, <1>8 DEF TypeOK, Items, NULL
  <2>4. head' \in Nat /\ size' \in Int /\ cur' \in Nat /\ memUsage' \in Int
    <3>1. head' \in Nat
      BY <1>6, <1>8, <1>9
    <3>2. size' \in Int /\ cur' \in Nat
      BY <1>1, <1>2, <1>6 DEF TypeOK
    <3>3. memUsage' \in Int
      BY <1>2, <1>9 DEF TypeOK, NodeSize, IntSize
    <3> QED
      BY <3>1, <3>2, <3>3
  <2>5. /\ mutex' \subseteq Threads
        /\ pc' \in [Threads -> {"idle", "locked", "loop", "done"}]
        /\ loop' \in [Threads -> [from : {FIRST, LAST}, filter : SUBSET Values]]
        /\ p' \in [Threads -> Nat] /\ seen' \in [Threads -> Seq(Items)]
        /\ owed' \in [Threads -> SUBSET Items]
    BY <1>1, <1>2 DEF TypeOK
  <2> QED
    BY <2>1, <2>2, <2>3, <2>4, <2>5 DEF TypeOK, NodeR
<1>11. Numbered'
  <2>1. /\ \A m, j \in DOMAIN node : node[m].arg[2] = node[j].arg[2] => m = j
        /\ \A m \in DOMAIN node : node[m].arg[2] <= nNode
        /\ items = {node[m].arg : m \in DOMAIN node}
        /\ memUsage = HeaderSize + (NodeSize + IntSize) * size
    BY <1>2 DEF Numbered
  <2>2. ASSUME NEW m \in DOMAIN node PROVE node[m].arg[2] < x /\ node[m].arg[2] \in Int
    <3>1. node[m].arg \in Items
      BY <1>2 DEF TypeOK
    <3>2. node[m].arg[2] \in Int
      BY <3>1, MaxNodesAssumption DEF Items
    <3> QED
      BY <1>5, <1>8, <2>1, <3>2
  <2>3. ASSUME NEW m \in DOMAIN node', NEW j \in DOMAIN node', node'[m].arg[2] = node'[j].arg[2]
        PROVE  m = j
    <3>1. \A i \in DOMAIN node : node'[i].arg[2] = node[i].arg[2] /\ node'[i].arg[2] # x
      BY <1>6, <1>8, <2>2
    <3>2. node'[x].arg[2] = x
      BY <1>6
    <3> QED
      BY <1>9, <2>1, <2>3, <3>1, <3>2
  <2>4. \A m \in DOMAIN node' : node'[m].arg[2] <= nNode'
    BY <1>6, <1>8, <1>9, <2>2
  <2>5. items' = {node'[m].arg : m \in DOMAIN node'}
    <3>1. \A y : y \in items' <=> y = <<v, x>> \/ \E m \in DOMAIN node : y = node[m].arg
      BY <1>9, <2>1
    <3>2. \A y : y \in {node'[m].arg : m \in DOMAIN node'}
                 <=> y = node'[x].arg \/ \E m \in DOMAIN node : y = node'[m].arg
      BY <1>9
    <3>3. node'[x].arg = <<v, x>> /\ \A m \in DOMAIN node : node'[m].arg = node[m].arg
      BY <1>6
    <3> QED
      BY <3>1, <3>2, <3>3
  <2>6. memUsage' = HeaderSize + (NodeSize + IntSize) * size'
    <3>1. size \in Int
      BY <1>2 DEF TypeOK
    <3> QED
      BY <1>6, <1>9, <2>1, <3>1 DEF HeaderSize, NodeSize, IntSize
  <2> QED
    BY <2>3, <2>4, <2>5, <2>6 DEF Numbered
<1>12. ASSUME NEW u \in Threads PROVE LoopSound(u, pos2)' /\ Visits(u)'
  <2>1. /\ \A m \in DOMAIN node : pos[m] \in Int
        /\ \A m \in DOMAIN node' : pos2[m] \in Int
        /\ \A m, j \in DOMAIN node' : pos2[m] = pos2[j] => m = j
    <3>1. \A m \in DOMAIN node : pos[m] \in Int
      BY <1>4, TreeFacts
    <3> QED
      BY <1>7, <3>1, TreeFacts
  <2>2. LoopSound(u, pos2)'
    BY <1>1, <1>2, <1>4, <1>5, <1>6, <1>7, <1>8, <1>9, <2>1, InsertLoop
  <2>3. Visits(u)'
    <3>1. Visits(u) /\ \A y \in Seen(u) : y[2] \in Int
      BY <1>2, SeenTypes
    <3>2. Seen(u)' = Seen(u)
      BY <1>1 DEF Seen
    <3>3. \A y \in Seen(u) : y[2] <= nNode'
      BY <1>5, <1>8, <1>9, <3>1 DEF Visits
    <3> QED
      BY <1>1, <3>1, <3>2, <3>3 DEF Visits, Before
  <2> QED
    BY <2>2, <2>3
<1>13. \E a, b, c \in [DOMAIN node' -> 1 .. size'] : Shape(a, b, c)'
  <2>1. /\ pos2 \in [DOMAIN node' -> 1 .. size'] /\ lo2 \in [DOMAIN node' -> 1 .. size']
        /\ hi2 \in [DOMAIN node' -> 1 .. size']
    BY <1>7 DEF Tree, Places
  <2>2. Shape(pos2, lo2, hi2)'
    BY <1>7, <1>12 DEF Shape
  <2> QED
    BY <2>1, <2>2
<1> QED
  BY <1>6, <1>10, <1>11, <1>12, <1>13 DEF IndInv

------------------------------------------------------------------------------
(* Deletion. *)

(* The node that is freed when z's item goes. *)
Freed(z) == IF node[z].L # NULL /\ node[z].R # NULL THEN Candidate(z) ELSE z

Child(x) == IF node[x].L # NULL THEN node[x].L ELSE node[x].R

LEMMA FreedIs ==
    ASSUME TypeOK, NEW pos, NEW lo, NEW hi, Tree(node, head, size, pos, lo, hi),
           NEW z \in DOMAIN node, NEW x, x = Freed(z)
    PROVE  /\ x \in DOMAIN node /\ (node[x].L = NULL \/ node[x].R = NULL)
           /\ x # z => pos[x] = pos[z] - 1
<1>1. CASE ~(node[z].L # NULL /\ node[z].R # NULL)
  BY <1>1 DEF Freed
<1>2. CASE node[z].L # NULL /\ node[z].R # NULL
  <2>1. node[z].L \in DOMAIN node /\ hi[node[z].L] = pos[z] - 1
    BY <1>2, TreeFacts
  <2>2. x = vtree_mostR(node[z].L)
    BY <1>2 DEF Freed, Candidate
  <2>3. x \in DOMAIN node /\ pos[x] = hi[node[z].L] /\ node[x].R = NULL
    BY <2>1, <2>2, Types, MostRight
  <2> QED
    BY <2>1, <2>3
<1> QED
  BY <1>1, <1>2

LEMMA DeleteLinks ==
    ASSUME TypeOK, NEW z \in DOMAIN node, vtree_delete(z), NEW x \in DOMAIN node, x = Freed(z)
    PROVE  /\ node' \in [DOMAIN node \ {x} -> NodeR]
           /\ \A m \in DOMAIN node \ {x} : node'[m].arg = IF m = z THEN node[x].arg ELSE node[m].arg
           /\ Spliced(node, node', head, head', x, Child(x), node[x].F)
<1> DEFINE D == DOMAIN node
<1>1. node \in [D -> NodeR] /\ NULL \notin D
  BY Types
<1>2. PICK f : f = [node EXCEPT ![z].arg = node[x].arg]
  OBVIOUS
<1>3. /\ DOMAIN f = D /\ f = [m \in D |-> f[m]]
      /\ \A m \in D : /\ f[m] \in NodeR /\ f[m].L = node[m].L /\ f[m].R = node[m].R
                      /\ f[m].F = node[m].F
                      /\ f[m].arg = IF m = z THEN node[x].arg ELSE node[m].arg
  <2>1. DOMAIN f = D /\ f = [m \in D |-> f[m]]
    BY <1>1, <1>2
  <2>2. ASSUME NEW m \in D
        PROVE  /\ f[m] \in NodeR /\ f[m].L = node[m].L /\ f[m].R = node[m].R
               /\ f[m].F = node[m].F
               /\ f[m].arg = IF m = z THEN node[x].arg ELSE node[m].arg
    <3>1. node[m] \in NodeR /\ node[x].arg \in Items
      BY <1>1 DEF NodeR
    <3>2. CASE m = z
      <4>1. f[m] = [node[m] EXCEPT !.arg = node[x].arg]
        BY <1>1, <1>2, <3>2
      <4> QED
        BY <3>1, <3>2, <4>1 DEF NodeR
    <3>3. CASE m # z
      <4>1. f[m] = node[m]
        BY <1>1, <1>2, <3>3
      <4> QED
        BY <3>1, <3>3, <4>1
    <3> QED
      BY <3>2, <3>3
  <2> QED
    BY <2>1, <2>2
<1>4. PICK c, u : c = Child(x) /\ u = node[x].F
  OBVIOUS
<1>5. c = (IF f[x].L # NULL THEN f[x].L ELSE f[x].R) /\ u = f[x].F /\ c \in Nat /\ u \in Nat
  BY <1>1, <1>3, <1>4 DEF Child, NodeR
<1>6. /\ node' = Splice(f, x)
      /\ head' = IF f[x].F = NULL THEN (IF f[x].L # NULL THEN f[x].L ELSE f[x].R) ELSE head
  BY <1>2 DEF vtree_delete, Freed
<1>7. node' = [m \in D \ {x} |->
                 [f[m] EXCEPT !.L = IF m = u /\ @ = x THEN c ELSE @,
                              !.R = IF m = u /\ @ = x THEN c ELSE @,
                              !.F = IF m = c THEN u ELSE @]]
  BY <1>3, <1>5, <1>6 DEF Splice
<1>8. ASSUME NEW m \in D \ {x}
      PROVE  /\ node'[m] \in NodeR /\ node'[m].arg = f[m].arg
             /\ node'[m].F = IF m = c THEN u ELSE f[m].F
             /\ node'[m].L = IF m = u /\ f[m].L = x THEN c ELSE f[m].L
             /\ node'[m].R = IF m = u /\ f[m].R = x THEN c ELSE f[m].R
  <2>1. f[m] \in NodeR
    BY <1>3
  <2>2. PICK a, b, d \in Nat : /\ a = IF m = u /\ f[m].L = x THEN c ELSE f[m].L
                               /\ b = IF m = u /\ f[m].R = x THEN c ELSE f[m].R
                               /\ d = IF m = c THEN u ELSE f[m].F
    <3>1. f[m].L \in Nat /\ f[m].R \in Nat /\ f[m].F \in Nat
      BY <2>1 DEF NodeR
    <3> QED
      BY <1>5, <3>1
  <2>3. node'[m] = [f[m] EXCEPT !.L = a, !.R = b, !.F = d]
    BY <1>7, <2>2
  <2>4. /\ [f[m] EXCEPT !.L = a, !.R = b, !.F = d] \in NodeR
        /\ [f[m] EXCEPT !.L = a, !.R = b, !.F = d].arg = f[m].arg
        /\ [f[m] EXCEPT !.L = a, !.R = b, !.F = d].L = a
        /\ [f[m] EXCEPT !.L = a, !.R = b, !.F = d].R = b
        /\ [f[m] EXCEPT !.L = a, !.R = b, !.F = d].F = d
    BY <2>1 DEF NodeR
  <2> QED
    BY <2>2, <2>3, <2>4
<1>9. node' \in [D \ {x} -> NodeR]
  <2>1. node' = [m \in D \ {x} |-> node'[m]]
    BY <1>7, Zenon
  <2> QED
    BY <1>8, <2>1
<1>10. Spliced(node, node', head, head', x, c, u)
  BY <1>3, <1>4, <1>5, <1>6, <1>8, <1>9 DEF Spliced, Child
<1> QED
  BY <1>3, <1>4, <1>8, <1>9, <1>10

(* The item of z has gone, and with it the node x, which is z or the node  *)
(* before z.                                                               *)
Deleted(pos, z, x) ==
    /\ x \in DOMAIN node /\ node' \in [DOMAIN node \ {x} -> NodeR]
    /\ x # z => pos[x] = pos[z] - 1
    /\ \A m \in DOMAIN node \ {x} : node'[m].arg = IF m = z THEN node[x].arg ELSE node[m].arg
    /\ size' = size - 1 /\ size' \in Nat /\ head' \in DOMAIN node' \cup {NULL}
    /\ \E pos2, lo2, hi2 : /\ Tree(node', head', size', pos2, lo2, hi2)
                           /\ Sorted(node', pos2)
                           /\ SameOrder(DOMAIN node \ {x}, pos, pos2)

LEMMA DeleteTree ==
    ASSUME TypeOK, NEW pos, NEW lo, NEW hi, Tree(node, head, size, pos, lo, hi), Sorted(node, pos),
           NEW z \in DOMAIN node, vtree_delete(z)
    PROVE  Deleted(pos, z, Freed(z))
<1>0. PICK x : x = Freed(z)
  OBVIOUS
<1> DEFINE D == DOMAIN node
<1>1. /\ x \in D /\ (node[x].L = NULL \/ node[x].R = NULL)
      /\ x # z => pos[x] = pos[z] - 1
  BY <1>0, FreedIs
<1>2. /\ node' \in [D \ {x} -> NodeR]
      /\ \A m \in D \ {x} : node'[m].arg = IF m = z THEN node[x].arg ELSE node[m].arg
      /\ Spliced(node, node', head, head', x, Child(x), node[x].F)
  BY <1>0, <1>1, DeleteLinks
<1>3. /\ size \in Nat /\ size' = size - 1 /\ size' \in Nat
      /\ \A m \in D : pos[m] \in Int /\ 1 <= pos[m] /\ pos[m] <= size
      /\ \A m, j \in D : pos[m] = pos[j] => m = j
  <2>1. size' = size - 1
    BY DEF vtree_delete, CountLess
  <2>2. /\ size \in Nat
        /\ \A m \in D : pos[m] \in Int /\ 1 <= pos[m] /\ pos[m] <= size
        /\ \A m, j \in D : pos[m] = pos[j] => m = j
    BY TreeFacts
  <2>3. 1 <= size
    BY <1>1, <2>2
  <2> QED
    BY <2>1, <2>2, <2>3
<1>4. PICK q : q = pos[x]
  OBVIOUS
<1>5. PICK pos2, lo2, hi2 : Narrowed(D, x, q, pos, lo, hi, pos2, lo2, hi2)
  BY DEF Narrowed
<1>6. Tree(node', head', size', pos2, lo2, hi2)
  <2>1. NULL \notin D
    BY Types
  <2>2. PICK c, u, h2 : c = Child(x) /\ u = node[x].F /\ h2 = head'
    OBVIOUS
  <2>3. Spliced(node, node', head, h2, x, c, u)
    BY <1>2, <2>2
  <2>4. Tree(node', h2, size - 1, pos2, lo2, hi2)
    BY <1>1, <1>4, <1>5, <2>1, <2>3, SplicedTree
  <2> QED
    BY <1>3, <2>2, <2>4
<1>7. ASSUME NEW m \in D \ {x}
      PROVE  /\ pos2[m] = IF pos[m] > q THEN pos[m] - 1 ELSE pos[m]
             /\ pos[m] \in Int /\ pos2[m] \in Int /\ pos[m] # q
  BY <1>1, <1>3, <1>4, <1>5 DEF Narrowed
<1>8. SameOrder(D \ {x}, pos, pos2)
  <2>1. ASSUME NEW m \in D \ {x}, NEW j \in D \ {x} PROVE pos[m] <= pos[j] <=> pos2[m] <= pos2[j]
    <3>1. /\ pos2[m] = IF pos[m] > q THEN pos[m] - 1 ELSE pos[m]
          /\ pos2[j] = IF pos[j] > q THEN pos[j] - 1 ELSE pos[j]
          /\ pos[m] \in Int /\ pos[j] \in Int /\ pos[m] # q /\ pos[j] # q /\ q \in Int
      BY <1>1, <1>3, <1>4, <1>7
    <3> QED
      BY <3>1
  <2> QED
    BY <2>1 DEF SameOrder
<1>9. Sorted(node', pos2)
  <2>0. \A m, j \in D : pos[m] < pos[j] => node[m].arg[1] <= node[j].arg[1]
    BY DEF Sorted
  <2> SUFFICES ASSUME NEW m \in D \ {x}, NEW j \in D \ {x}, pos2[m] < pos2[j]
               PROVE  node'[m].arg[1] <= node'[j].arg[1]
    BY <1>2 DEF Sorted
  <2>1. pos[m] < pos[j]
    <3>1. pos[m] \in Int /\ pos[j] \in Int /\ pos2[m] \in Int /\ pos2[j] \in Int
      BY <1>7
    <3>2. ~(pos[j] <= pos[m])
      BY <1>8, <3>1 DEF SameOrder
    <3> QED
      BY <3>1, <3>2
  <2>2. m # j
    BY <1>7, <2>1
  <2>3. /\ pos[m] \in Int /\ pos[j] \in Int /\ pos[x] \in Int /\ pos[z] \in Int
        /\ pos[m] # pos[x] /\ pos[j] # pos[x]
    BY <1>1, <1>3, <1>4, <1>7
  <2>4. CASE m # z /\ j # z
    BY <1>2, <2>0, <2>1, <2>4
  <2>5. CASE m = z
    <3>1. node'[m].arg = node[x].arg /\ node'[j].arg = node[j].arg /\ x # z
      BY <1>2, <2>2, <2>5
    <3>2. pos[x] < pos[j]
      BY <1>1, <2>1, <2>3, <2>5, <3>1
    <3> QED
      BY <1>1, <2>0, <3>1, <3>2
  <2>6. CASE j = z
    <3>1. node'[j].arg = node[x].arg /\ node'[m].arg = node[m].arg /\ x # z
      BY <1>2, <2>2, <2>6
    <3>2. pos[m] < pos[x]
      BY <1>1, <2>1, <2>3, <2>6, <3>1
    <3> QED
      BY <1>1, <2>0, <3>1, <3>2
  <2> QED
    BY <2>4, <2>5, <2>6
<1>10. head' \in DOMAIN node' \cup {NULL}
  BY <1>6 DEF Tree
<1> QED
  BY <1>0, <1>1, <1>2, <1>3, <1>6, <1>8, <1>9, <1>10 DEF Deleted

LEMMA DeleteKeeps ==
    ASSUME TypeOK, Numbered, NEW pos, NEW lo, NEW hi, Tree(node, head, size, pos, lo, hi),
           Sorted(node, pos), NEW z \in DOMAIN node, vtree_delete(z),
           UNCHANGED <<mutex, pc, loop, seen, owed>>, p' \in [Threads -> Nat]
    PROVE  TypeOK' /\ Numbered'
<1> DEFINE D == DOMAIN node
<1>1. PICK x : x = Freed(z)
  OBVIOUS
<1>2. /\ x \in D /\ node' \in [D \ {x} -> NodeR]
      /\ \A m \in D \ {x} : node'[m].arg = IF m = z THEN node[x].arg ELSE node[m].arg
      /\ size' = size - 1 /\ size' \in Nat /\ head' \in DOMAIN node' \cup {NULL}
  <2>1. Deleted(pos, z, x)
    BY <1>1, DeleteTree
  <2> QED
    BY <2>1 DEF Deleted
<1>3. /\ nNode' = nNode /\ cur' = cur /\ items' = items \ {node[z].arg}
      /\ memUsage' = memUsage - NodeSize - IntSize
  BY DEF vtree_delete, Destroyed
<1>4. TypeOK'
  <2>1. nNode' \in 0 .. MaxNodes /\ DOMAIN node' \subseteq 1 .. nNode'
    BY <1>2, <1>3 DEF TypeOK
  <2>2. node' \in [DOMAIN node' -> NodeR]
    BY <1>2
  <2>3. items' \subseteq Items /\ cur' \in Nat /\ size' \in Int
    BY <1>2, <1>3 DEF TypeOK
  <2>4. head' \in Nat
    BY <1>2, Types DEF NULL
  <2>5. memUsage' \in Int
    BY <1>3 DEF TypeOK, NodeSize, IntSize
  <2>6. /\ mutex' \subseteq Threads
        /\ pc' \in [Threads -> {"idle", "locked", "loop", "done"}]
        /\ loop' \in [Threads -> [from : {FIRST, LAST}, filter : SUBSET Values]]
        /\ p' \in [Threads -> Nat] /\ seen' \in [Threads -> Seq(Items)]
        /\ owed' \in [Threads -> SUBSET Items]
    BY DEF TypeOK
  <2> QED
    BY <2>1, <2>2, <2>3, <2>4, <2>5, <2>6 DEF TypeOK, NodeR
<1>5. /\ \A m, j \in D : node[m].arg[2] = node[j].arg[2] => m = j
      /\ \A m \in D : node[m].arg[2] <= nNode
      /\ items = {node[m].arg : m \in D}
      /\ memUsage = HeaderSize + (NodeSize + IntSize) * size
  BY DEF Numbered
<1>6. PICK from : from = [m \in D \ {x} |-> IF m = z THEN x ELSE m]
  OBVIOUS
<1>7. /\ \A m \in D \ {x} : from[m] \in D \ {z} /\ node'[m].arg = node[from[m]].arg
      /\ \A m, j \in D \ {x} : from[m] = from[j] => m = j
      /\ \A m \in D \ {z} : \E j \in D \ {x} : from[j] = m
  BY <1>2, <1>6
<1>8. DOMAIN node' = D \ {x}
  BY <1>2
<1>9. \A m, j \in DOMAIN node' : node'[m].arg[2] = node'[j].arg[2] => m = j
  BY <1>5, <1>7, <1>8
<1>10. \A m \in DOMAIN node' : node'[m].arg[2] <= nNode'
  BY <1>3, <1>5, <1>7, <1>8
<1>11. items' = {node'[m].arg : m \in DOMAIN node'}
  <2>1. \A m, j \in D : node[m].arg = node[j].arg => m = j
    BY <1>5
  <2>2. \A y : y \in items' <=> \E m \in D \ {z} : y = node[m].arg
    BY <1>3, <1>5, <2>1
  <2>3. \A y : (\E m \in D \ {z} : y = node[m].arg) <=> \E m \in D \ {x} : y = node'[m].arg
    BY <1>7
  <2> QED
    BY <1>8, <2>2, <2>3
<1>12. memUsage' = HeaderSize + (NodeSize + IntSize) * size'
  <2>1. size \in Int
    BY DEF TypeOK
  <2> QED
    BY <1>2, <1>3, <1>5, <2>1 DEF HeaderSize, NodeSize, IntSize
<1> QED
  BY <1>4, <1>9, <1>10, <1>11, <1>12 DEF Numbered

(* The loop that deletes the node it came to goes on from the same cursor. *)
LEMMA DeleteLoop ==
    ASSUME TypeOK, NEW pos, NEW pos2, NEW t \in Threads, LoopSound(t, pos),
           loop[t].from = FIRST, pc[t] = "loop", p[t] # NULL,
           NEW x \in DOMAIN node, x # p[t] => pos[x] = pos[p[t]] - 1,
           DOMAIN node' = DOMAIN node \ {x},
           \A m \in DOMAIN node \ {x} :
              node'[m].arg = IF m = p[t] THEN node[x].arg ELSE node[m].arg,
           \A m \in DOMAIN node : pos[m] \in Int,
           SameOrder(DOMAIN node \ {x}, pos, pos2),
           cur' = cur, p'[t] = NULL, UNCHANGED <<pc, loop, seen, owed>>
    PROVE  LoopSound(t, pos2)'
<1> DEFINE D == DOMAIN node
           z == p[t]
<1>1. /\ cur \in D \cup {NULL}
      /\ z \in D /\ ~Ahead(FIRST, pos, z)
      /\ \A m \in D : Ahead(FIRST, pos, m) =>
            /\ node[m].arg \notin Seen(t)
            /\ \A y \in Seen(t) : Before(t, y[1], Value(m))
      /\ \A y \in owed[t] :
            /\ y[1] \in loop[t].filter
            /\ \E m \in D : node[m].arg = y /\ Ahead(FIRST, pos, m)
  BY DEF LoopSound
<1>2. Seen(t)' = Seen(t)
  BY DEF Seen
<1>3. ASSUME NEW m \in D, Ahead(FIRST, pos, m)
      PROVE  m # x /\ m # z /\ cur \in D \ {x} /\ node'[m].arg = node[m].arg
  <2>1. /\ cur \in D /\ pos[cur] <= pos[m] /\ ~(pos[cur] <= pos[z])
    BY <1>1, <1>3 DEF Ahead, Toward
  <2>2. pos[cur] \in Int /\ pos[m] \in Int /\ pos[z] \in Int /\ pos[x] \in Int
    BY <1>1, <2>1
  <2>3. m # z /\ cur # z
    BY <2>1, <2>2
  <2>4. CASE x = z
    BY <2>1, <2>3, <2>4
  <2>5. CASE x # z
    <3>1. pos[x] = pos[z] - 1
      BY <2>5
    <3>2. m # x /\ cur # x
      BY <2>1, <2>2, <3>1
    <3> QED
      BY <2>1, <2>3, <3>2
  <2> QED
    BY <2>4, <2>5
<1>4. \A m \in D \ {x} : Ahead(FIRST, pos2, m)' /\ cur \in D \ {x} => Ahead(FIRST, pos, m)
  BY DEF Ahead, Toward, SameOrder
<1>5. cur = NULL \/ cur \in D \ {x}
  <2>1. CASE cur # NULL
    <3>1. Ahead(FIRST, pos, cur) /\ cur \in D
      BY <1>1, <2>1 DEF Ahead, Toward
    <3> QED
      BY <1>3, <3>1
  <2> QED
    BY <2>1
<1>6. ASSUME NEW m \in D \ {x}, Ahead(FIRST, pos2, m)'
      PROVE  /\ node'[m].arg \notin Seen(t)
             /\ \A y \in Seen(t) : Before(t, y[1], node'[m].arg[1])
  <2>1. Ahead(FIRST, pos, m)
    <3>1. cur # NULL
      BY <1>6 DEF Ahead
    <3> QED
      BY <1>4, <1>5, <1>6, <3>1
  <2>2. node'[m].arg = node[m].arg
    BY <1>3, <2>1
  <2> QED
    BY <1>1, <2>1, <2>2 DEF Value
<1>7. ASSUME NEW y \in owed[t]
      PROVE  \E m \in D \ {x} : node'[m].arg = y /\ Ahead(FIRST, pos2, m)'
  <2>1. PICK m \in D : node[m].arg = y /\ Ahead(FIRST, pos, m)
    BY <1>1, <1>7
  <2>2. m \in D \ {x} /\ cur \in D \ {x} /\ node'[m].arg = y
    BY <1>3, <2>1
  <2>3. Ahead(FIRST, pos2, m)'
    BY <2>1, <2>2 DEF Ahead, Toward, SameOrder
  <2> QED
    BY <2>2, <2>3
<1> QED
  BY <1>1, <1>2, <1>5, <1>6, <1>7 DEF LoopSound, Before, Value

LEMMA DeleteInv ==
    ASSUME IndInv, OneUser, NEW t \in Threads, NEW z \in DOMAIN node, vtree_delete(z),
           UNCHANGED <<mutex, pc, loop, seen, owed>>, p' \in [Threads -> Nat], p'[t] = NULL,
           pc[t] = "idle" \/ (pc[t] = "loop" /\ z = p[t] /\ z # NULL /\ loop[t].from = FIRST)
    PROVE  IndInv'
<1>1. TypeOK /\ Numbered /\ Visits(t) /\ \A u \in Threads : u = t
  BY DEF IndInv, OneUser
<1>2. PICK pos, lo, hi : Shape(pos, lo, hi)
  BY DEF IndInv
<1>3. /\ Tree(node, head, size, pos, lo, hi) /\ Sorted(node, pos)
      /\ \A u \in Threads : LoopSound(u, pos)
  BY <1>2 DEF Shape
<1>4. PICK x : x = Freed(z)
  OBVIOUS
<1>5. /\ x \in DOMAIN node /\ node' \in [DOMAIN node \ {x} -> NodeR]
      /\ x # z => pos[x] = pos[z] - 1
      /\ \A m \in DOMAIN node \ {x} : node'[m].arg = IF m = z THEN node[x].arg ELSE node[m].arg
      /\ size' \in Nat
      /\ \E pos2, lo2, hi2 : /\ Tree(node', head', size', pos2, lo2, hi2)
                             /\ Sorted(node', pos2)
                             /\ SameOrder(DOMAIN node \ {x}, pos, pos2)
  <2>1. Deleted(pos, z, x)
    BY <1>1, <1>3, <1>4, DeleteTree
  <2> QED
    BY <2>1 DEF Deleted
<1>6. PICK pos2, lo2, hi2 : /\ Tree(node', head', size', pos2, lo2, hi2)
                            /\ Sorted(node', pos2)
                            /\ SameOrder(DOMAIN node \ {x}, pos, pos2)
  BY <1>5
<1>7. TypeOK' /\ Numbered'
  BY <1>1, <1>3, DeleteKeeps
<1>8. cur' = cur /\ nNode' = nNode
  BY DEF vtree_delete
<1>9. LoopSound(t, pos2)'
  <2>1. CASE pc[t] = "idle"
    BY <2>1 DEF LoopSound
  <2>2. CASE pc[t] = "loop" /\ z = p[t] /\ z # NULL /\ loop[t].from = FIRST
    <3>1. \A m \in DOMAIN node : pos[m] \in Int
      BY <1>3, TreeFacts
    <3> QED
      BY <1>1, <1>3, <1>5, <1>6, <1>8, <2>2, <3>1, DeleteLoop
  <2> QED
    BY <2>1, <2>2
<1>10. Visits(t)'
  <2>1. Seen(t)' = Seen(t)
    BY DEF Seen
  <2>2. pc[t] # "loop" => owed[t] = {}
    BY <1>1 DEF Visits
  <2> QED
    BY <1>1, <1>8, <2>1, <2>2 DEF Visits, Before
<1>11. \E a, b, c \in [DOMAIN node' -> 1 .. size'] : Shape(a, b, c)'
  <2>1. /\ pos2 \in [DOMAIN node' -> 1 .. size'] /\ lo2 \in [DOMAIN node' -> 1 .. size']
        /\ hi2 \in [DOMAIN node' -> 1 .. size']
    BY <1>6 DEF Tree, Places
  <2>2. Shape(pos2, lo2, hi2)'
    BY <1>1, <1>6, <1>9 DEF Shape
  <2> QED
    BY <2>1, <2>2
<1> QED
  BY <1>1, <1>5, <1>7, <1>10, <1>11 DEF IndInv

LEMMA DeleteStep ==
    ASSUME IndInv, OneUser, NEW t \in Threads, Delete(t)
    PROVE  IndInv'
<1>1. /\ pc[t] = "loop" /\ p[t] # NULL /\ loop[t].from = FIRST /\ vtree_delete(p[t])
      /\ p' = [p EXCEPT ![t] = NULL] /\ UNCHANGED <<mutex, pc, loop, seen, owed>>
  BY DEF Delete, OneUser
<1>2. p[t] \in DOMAIN node
  BY <1>1 DEF IndInv, Shape, LoopSound
<1>3. p' \in [Threads -> Nat] /\ p'[t] = NULL
  BY <1>1 DEF IndInv, TypeOK, NULL
<1> QED
  BY <1>1, <1>2, <1>3, DeleteInv

LEMMA SearchDeleteStep ==
    ASSUME IndInv, OneUser, NEW t \in Threads, NEW v \in Values, SearchDelete(t, v)
    PROVE  IndInv'
<1>1. /\ pc[t] = "idle" /\ vtree_search(v) # NULL /\ vtree_delete(vtree_search(v))
      /\ UNCHANGED <<mutex, pc, loop, p, seen, owed>>
  BY DEF SearchDelete
<1>2. TypeOK /\ Visits(t)
  BY DEF IndInv
<1>3. PICK pos, lo, hi : Tree(node, head, size, pos, lo, hi) /\ Sorted(node, pos)
  BY DEF IndInv, Shape
<1>4. vtree_search(v) \in DOMAIN node
  <2>1. v \in Int
    BY ValuesAssumption
  <2> QED
    BY <1>1, <1>2, <1>3, <2>1, Types, SearchIs
<1>5. p' \in [Threads -> Nat] /\ p'[t] = NULL
  BY <1>1, <1>2 DEF TypeOK, Visits
<1> QED
  BY <1>1, <1>4, <1>5, DeleteInv

------------------------------------------------------------------------------
(* The loop. *)

PassingWalks(t, w) ==
    w = [m \in DOMAIN node \cup {NULL} |->
           IF m = NULL \/ Value(m) \in loop[t].filter THEN m ELSE w[Step(t, m)]]

(* z is the first from place i on to pass the filter. *)
FirstToPass(t, pos, i, z) ==
    IF z = NULL
    THEN \A j \in DOMAIN node : Toward(loop[t].from, i, pos[j]) => Value(j) \notin loop[t].filter
    ELSE /\ z \in DOMAIN node /\ Value(z) \in loop[t].filter
         /\ Toward(loop[t].from, i, pos[z])
         /\ \A j \in DOMAIN node :
              Toward(loop[t].from, i, pos[j]) /\ Value(j) \in loop[t].filter
                 => Toward(loop[t].from, pos[z], pos[j])

LEMMA PassingIs ==
    ASSUME NEW n, NEW pos, NEW lo, NEW hi, Tree(node, head, n, pos, lo, hi),
           NULL \notin DOMAIN node, NEW t, loop[t].from \in {FIRST, LAST},
           cur \in DOMAIN node \cup {NULL}
    PROVE  IF cur = NULL THEN Passing(t) = NULL ELSE FirstToPass(t, pos, pos[cur], Passing(t))
<1> DEFINE D == DOMAIN node
           A == D \cup {NULL}
           way == loop[t].from
           filter == loop[t].filter
<1>1. PICK S, b, g, k :
          /\ S = {m \in A : m = NULL \/ Value(m) \in filter}
          /\ b = [m \in A |-> m]
          /\ g = [m \in A |-> Step(t, m)]
          /\ k = [m \in A |-> IF m = NULL THEN 0
                              ELSE IF way = FIRST THEN n + 1 - pos[m] ELSE pos[m]]
  OBVIOUS
<1>2. /\ n \in Nat
      /\ \A m \in D : m # NULL /\ pos[m] \in 1 .. n
      /\ \A m, j \in D : pos[m] = pos[j] => m = j
  BY DEF Tree, Places
<1>3. \A m \in D : k[m] = IF way = FIRST THEN n + 1 - pos[m] ELSE pos[m]
  BY <1>1, <1>2
<1>4. ASSUME NEW m \in D
      PROVE  IF Step(t, m) = NULL THEN pos[m] = IF way = FIRST THEN n ELSE 1
             ELSE /\ Step(t, m) \in D
                  /\ pos[Step(t, m)] = IF way = FIRST THEN pos[m] + 1 ELSE pos[m] - 1
  BY StepIs
<1>5. Falls(A, S, g, k, n)
  <2>1. ASSUME NEW m \in A \ S PROVE g[m] \in A /\ k[g[m]] < k[m]
    <3>1. m \in D /\ g[m] = Step(t, m)
      BY <1>1, <2>1
    <3>2. k[m] \in 1 .. n
      BY <1>2, <1>3, <3>1
    <3>3. CASE g[m] = NULL
      <4>1. k[g[m]] = 0
        BY <1>1, <3>3
      <4> QED
        BY <3>2, <3>3, <4>1, <1>2
    <3>4. CASE g[m] # NULL
      <4>1. g[m] \in D /\ pos[g[m]] = IF way = FIRST THEN pos[m] + 1 ELSE pos[m] - 1
        BY <1>4, <3>1, <3>4
      <4> QED
        BY <1>2, <1>3, <3>1, <4>1
    <3> QED
      BY <3>3, <3>4
  <2>2. ASSUME NEW m \in A PROVE k[m] \in 0 .. n
    <3>1. CASE m = NULL
      BY <1>1, <1>2, <3>1
    <3>2. CASE m # NULL
      BY <1>2, <1>3, <3>2
    <3> QED
      BY <3>1, <3>2
  <2> QED
    BY <1>2, <2>1, <2>2 DEF Falls
<1>6. ASSUME NEW w PROVE PassingWalks(t, w) <=> Goes(A, S, b, g, w)
  <2>1. \A m \in A : (IF m = NULL \/ Value(m) \in filter THEN m ELSE w[Step(t, m)])
                       = IF m \in S THEN b[m] ELSE w[g[m]]
    BY <1>1
  <2> QED
    BY <2>1 DEF PassingWalks, Goes
<1>7. PICK w : w = CHOOSE u : PassingWalks(t, u)
  OBVIOUS
<1>8. PassingWalks(t, w)
  <2>1. \E u : PassingWalks(t, u)
    BY <1>5, <1>6, GoesExists
  <2> QED
    BY <1>7, <2>1, Zenon
<1>9. Passing(t) = w[cur]
  BY <1>7, Zenon DEF Passing, PassingWalks
<1>10. \A m \in A : w[m] = IF m \in S THEN m ELSE w[g[m]]
  <2>1. Goes(A, S, b, g, w)
    BY <1>6, <1>8
  <2>2. \A m \in A : w[m] = IF m \in S THEN b[m] ELSE w[g[m]]
    BY <2>1 DEF Goes
  <2>3. \A m \in A : b[m] = m
    BY <1>1
  <2> QED
    BY <2>2, <2>3
<1>11. PICK T : T = {m \in A : IF m = NULL THEN w[m] = NULL ELSE FirstToPass(t, pos, pos[m], w[m])}
  OBVIOUS
<1>12. ASSUME NEW m \in A, \A j \in A : k[j] < k[m] => j \in T PROVE m \in T
  <2>1. CASE m = NULL
    BY <1>1, <1>10, <1>11, <2>1
  <2>2. CASE m \in S /\ m # NULL
    <3>1. w[m] = m /\ m \in D /\ Value(m) \in filter
      BY <1>1, <1>10, <2>2
    <3>2. FirstToPass(t, pos, pos[m], m)
      BY <1>2, <3>1 DEF FirstToPass, Toward
    <3> QED
      BY <1>11, <2>2, <3>1, <3>2
  <2>3. CASE m \notin S
    <3>1. g[m] \in T /\ w[m] = w[g[m]] /\ g[m] = Step(t, m)
      BY <1>1, <1>5, <1>10, <1>12, <2>3 DEF Falls
    <3>2. m \in D /\ Value(m) \notin filter /\ m # NULL
      BY <1>1, <2>3
    <3>3. CASE g[m] = NULL
      <4>1. w[m] = NULL
        BY <1>11, <3>1, <3>3
      <4>2. ASSUME NEW j \in D, Toward(way, pos[m], pos[j]) PROVE Value(j) \notin filter
        <5>1. pos[m] = IF way = FIRST THEN n ELSE 1
          BY <1>4, <3>1, <3>2, <3>3
        <5>2. pos[j] = pos[m]
          BY <1>2, <3>2, <4>2, <5>1 DEF Toward
        <5> QED
          BY <1>2, <3>2, <5>2
      <4>3. FirstToPass(t, pos, pos[m], NULL)
        BY <4>2 DEF FirstToPass
      <4> QED
        BY <1>11, <3>2, <4>1, <4>3
    <3>4. CASE g[m] # NULL
      <4>1. g[m] \in D /\ pos[g[m]] = IF way = FIRST THEN pos[m] + 1 ELSE pos[m] - 1
        BY <1>4, <3>1, <3>2, <3>4
      <4>2. FirstToPass(t, pos, pos[g[m]], w[m])
        BY <1>11, <3>1, <3>4
      <4>3. ASSUME NEW j \in D, Value(j) \in filter
            PROVE  Toward(way, pos[m], pos[j]) <=> Toward(way, pos[g[m]], pos[j])
        <5>1. pos[j] # pos[m]
          BY <1>2, <3>2, <4>3
        <5>2. pos[j] \in Int /\ pos[m] \in Int
          BY <1>2, <3>2
        <5> QED
          BY <4>1, <5>1, <5>2 DEF Toward
      <4>4. FirstToPass(t, pos, pos[m], w[m])
        BY <4>2, <4>3 DEF FirstToPass
      <4> QED
        BY <1>11, <3>2, <4>4
    <3> QED
      BY <3>3, <3>4
  <2> QED
    BY <2>1, <2>2, <2>3
<1>13. \A m \in A : m \in T
  <2>1. \A m \in A : k[m] \in Nat
    BY <1>5 DEF Falls
  <2> HIDE DEF A
  <2> QED
    BY <1>12, <2>1, ByRank
<1> QED
  BY <1>9, <1>11, <1>13

SameTree == UNCHANGED <<node, items, nNode, head, size, memUsage>>

LEMMA SameTreeKeeps ==
    ASSUME IndInv, OneUser, NEW t \in Threads, SameTree, cur' \in Nat, mutex' \subseteq Threads,
           pc' \in [Threads -> {"idle", "locked", "loop", "done"}],
           loop' \in [Threads -> [from : {FIRST, LAST}, filter : SUBSET Values]],
           p' \in [Threads -> Nat], seen' \in [Threads -> Seq(Items)],
           owed' \in [Threads -> SUBSET Items], Visits(t)',
           \A pos, lo, hi : Shape(pos, lo, hi) => LoopSound(t, pos)'
    PROVE  IndInv'
<1>1. TypeOK /\ Numbered /\ size \in Nat /\ \A u \in Threads : u = t
  BY DEF IndInv, OneUser
<1>2. PICK pos, lo, hi \in [DOMAIN node -> 1 .. size] : Shape(pos, lo, hi)
  BY DEF IndInv
<1>3. UNCHANGED <<node, items, nNode, head, size, memUsage>>
  BY DEF SameTree
<1>4. TypeOK'
  BY <1>1, <1>3 DEF TypeOK
<1>5. Numbered' /\ size' \in Nat
  BY <1>1, <1>3 DEF Numbered
<1>6. Shape(pos, lo, hi)'
  <2>1. Tree(node, head, size, pos, lo, hi)' /\ Sorted(node, pos)'
    BY <1>2, <1>3 DEF Shape
  <2>2. \A u \in Threads : LoopSound(u, pos)'
    BY <1>1, <1>2
  <2> QED
    BY <2>1, <2>2 DEF Shape
<1>7. \E a, b, c \in [DOMAIN node' -> 1 .. size'] : Shape(a, b, c)'
  BY <1>2, <1>3, <1>6
<1>8. \A u \in Threads : Visits(u)'
  BY <1>1
<1> QED
  BY <1>4, <1>5, <1>7, <1>8 DEF IndInv

LEMMA LockStep ==
    ASSUME IndInv, OneUser, NEW t \in Threads, Lock(t)
    PROVE  IndInv'
<1>1. /\ pc[t] = "idle" /\ mutex' = mutex \ {t} /\ pc' = [pc EXCEPT ![t] = "locked"]
      /\ UNCHANGED <<treeVars, loop, p, seen, owed>>
  BY DEF Lock, vtree_lock, Goto
<1>2. TypeOK /\ Visits(t)
  BY DEF IndInv
<1>3. SameTree /\ cur' = cur /\ nNode' = nNode
  BY <1>1 DEF SameTree, treeVars
<1>4. pc'[t] = "locked" /\ pc' \in [Threads -> {"idle", "locked", "loop", "done"}]
  BY <1>1, <1>2 DEF TypeOK
<1>5. Visits(t)'
  <2>1. Seen(t)' = Seen(t)
    BY <1>1 DEF Seen
  <2>2. seen[t] = <<>> /\ p[t] = NULL /\ owed[t] = {}
    BY <1>1, <1>2 DEF Visits
  <2> QED
    BY <1>1, <1>2, <1>3, <2>1, <2>2 DEF Visits, Before
<1>6. \A pos : LoopSound(t, pos)'
  BY <1>4 DEF LoopSound
<1> QED
  BY <1>1, <1>2, <1>3, <1>4, <1>5, <1>6, SameTreeKeeps DEF TypeOK

LEMMA UnlockStep ==
    ASSUME IndInv, OneUser, NEW t \in Threads, Unlock(t)
    PROVE  IndInv'
<1>1. /\ pc[t] = "done" /\ mutex' = mutex \ {t} /\ pc' = [pc EXCEPT ![t] = "idle"]
      /\ seen' = [seen EXCEPT ![t] = <<>>] /\ owed' = [owed EXCEPT ![t] = {}]
      /\ UNCHANGED <<treeVars, loop, p>>
  BY DEF Unlock, vtree_unlock, Goto
<1>2. TypeOK /\ Visits(t)
  BY DEF IndInv
<1>3. SameTree /\ cur' = cur
  BY <1>1 DEF SameTree, treeVars
<1>4. /\ pc'[t] = "idle" /\ pc' \in [Threads -> {"idle", "locked", "loop", "done"}]
      /\ seen'[t] = <<>> /\ seen' \in [Threads -> Seq(Items)]
      /\ owed'[t] = {} /\ owed' \in [Threads -> SUBSET Items]
  BY <1>1, <1>2 DEF TypeOK
<1>5. Visits(t)'
  <2>1. Seen(t)' = {} /\ DOMAIN seen'[t] = {}
    BY <1>4 DEF Seen
  <2>2. p'[t] = NULL
    BY <1>1, <1>2 DEF Visits
  <2> QED
    BY <1>4, <2>1, <2>2 DEF Visits
<1>6. \A pos : LoopSound(t, pos)'
  BY <1>4 DEF LoopSound
<1> QED
  BY <1>1, <1>2, <1>3, <1>4, <1>5, <1>6, SameTreeKeeps DEF TypeOK

LEMMA SeekStep ==
    ASSUME IndInv, OneUser, NEW t \in Threads, NEW way \in {FIRST, LAST},
           NEW filter \in SUBSET Values, Seek(t, way, filter)
    PROVE  IndInv'
<1>1. /\ pc[t] = "locked"
      /\ cur' = IF way = FIRST THEN vtree_mostL(head) ELSE vtree_mostR(head)
      /\ loop' = [loop EXCEPT ![t] = [from |-> way, filter |-> filter]]
      /\ seen' = [seen EXCEPT ![t] = <<>>]
      /\ owed' = [owed EXCEPT ![t] = {x \in items : x[1] \in filter}]
      /\ pc' = [pc EXCEPT ![t] = "loop"]
      /\ UNCHANGED <<node, items, nNode, head, size, memUsage, mutex, p>>
  BY DEF Seek, Goto
<1>2. TypeOK /\ Visits(t) /\ Numbered
  BY DEF IndInv
<1>3. SameTree
  BY <1>1 DEF SameTree
<1>4. /\ pc'[t] = "loop" /\ pc' \in [Threads -> {"idle", "locked", "loop", "done"}]
      /\ seen'[t] = <<>> /\ seen' \in [Threads -> Seq(Items)]
      /\ owed'[t] = {x \in items : x[1] \in filter} /\ owed' \in [Threads -> SUBSET Items]
      /\ loop'[t].from = way /\ loop'[t].filter = filter
      /\ loop' \in [Threads -> [from : {FIRST, LAST}, filter : SUBSET Values]]
      /\ p'[t] = NULL
  BY <1>1, <1>2 DEF TypeOK, Visits
<1>5. Seen(t)' = {} /\ DOMAIN seen'[t] = {}
  BY <1>4 DEF Seen
<1>6. Visits(t)'
  BY <1>4, <1>5 DEF Visits
<1>7. ASSUME NEW pos, NEW lo, NEW hi, Shape(pos, lo, hi)
      PROVE  /\ cur' \in DOMAIN node \cup {NULL}
             /\ \A m \in DOMAIN node : Ahead(way, pos, m)'
  <2>1. Tree(node, head, size, pos, lo, hi) /\ NULL \notin DOMAIN node
    BY <1>2, <1>7, Types DEF Shape
  <2>2. CASE head = NULL
    <3>1. vtree_mostL(head) = NULL /\ vtree_mostR(head) = NULL
      BY <2>2, Zenon DEF vtree_mostL, vtree_mostR
    <3>2. DOMAIN node = {}
      BY <2>1, <2>2, TreeFacts
    <3> QED
      BY <1>1, <3>1, <3>2
  <2>3. CASE head # NULL
    <3>1. head \in DOMAIN node /\ lo[head] = 1 /\ hi[head] = size
      BY <2>1, <2>3, TreeFacts
    <3>2. /\ vtree_mostL(head) \in DOMAIN node /\ pos[vtree_mostL(head)] = 1
          /\ vtree_mostR(head) \in DOMAIN node /\ pos[vtree_mostR(head)] = size
      BY <2>1, <3>1, MostLeft, MostRight
    <3>3. cur' \in DOMAIN node /\ cur' # NULL /\ pos[cur'] = IF way = FIRST THEN 1 ELSE size
      BY <1>1, <2>1, <3>2
    <3>4. ASSUME NEW m \in DOMAIN node PROVE Toward(way, pos[cur'], pos[m])
      <4>1. pos[m] \in Int /\ 1 <= pos[m] /\ pos[m] <= size
        <5>1. /\ size \in Nat /\ pos[m] \in Int /\ lo[m] \in Int /\ hi[m] \in Int
              /\ 1 <= lo[m] /\ lo[m] <= pos[m] /\ pos[m] <= hi[m] /\ hi[m] <= size
          BY <2>1, TreeFacts
        <5> QED
          BY <5>1
      <4> QED
        BY <3>3, <4>1 DEF Toward
    <3> QED
      BY <3>3, <3>4 DEF Ahead
  <2> QED
    BY <2>2, <2>3
<1>8. cur' \in Nat
  <2>1. PICK pos, lo, hi : Shape(pos, lo, hi)
    BY DEF IndInv
  <2>2. cur' \in DOMAIN node \cup {NULL}
    BY <1>7, <2>1
  <2> QED
    BY <1>2, <2>2, Types DEF NULL
<1>9. ASSUME NEW pos, NEW lo, NEW hi, Shape(pos, lo, hi) PROVE LoopSound(t, pos)'
  <2>1. cur' \in DOMAIN node \cup {NULL} /\ \A m \in DOMAIN node : Ahead(way, pos, m)'
    BY <1>7, <1>9
  <2>2. ASSUME NEW y \in owed'[t]
        PROVE  y[1] \in filter /\ \E m \in DOMAIN node : node[m].arg = y /\ Ahead(way, pos, m)'
    <3>1. y \in items /\ y[1] \in filter
      BY <1>4, <2>2
    <3>2. PICK m \in DOMAIN node : node[m].arg = y
      BY <1>2, <3>1 DEF Numbered
    <3> QED
      BY <2>1, <3>1, <3>2
  <2> QED
    BY <1>1, <1>4, <1>5, <2>1, <2>2 DEF LoopSound
<1> QED
  BY <1>1, <1>2, <1>3, <1>4, <1>6, <1>8, <1>9, SameTreeKeeps DEF TypeOK

LEMMA SeenAppend ==
    ASSUME NEW t, NEW q \in Seq(Items), NEW a \in Items,
           \A j, k \in DOMAIN q : j < k => q[j] # q[k] /\ Before(t, q[j][1], q[k][1]),
           \A x \in {q[j] : j \in DOMAIN q} : x # a /\ Before(t, x[1], a[1])
    PROVE  /\ Append(q, a) \in Seq(Items)
           /\ {Append(q, a)[j] : j \in DOMAIN Append(q, a)} = {q[j] : j \in DOMAIN q} \cup {a}
           /\ \A j, k \in DOMAIN Append(q, a) : j < k =>
                 /\ Append(q, a)[j] # Append(q, a)[k]
                 /\ Before(t, Append(q, a)[j][1], Append(q, a)[k][1])
<1>1. PICK r : r = Append(q, a)
  OBVIOUS
<1>2. /\ r \in Seq(Items) /\ Len(q) \in Nat /\ DOMAIN q = 1 .. Len(q)
      /\ DOMAIN r = 1 .. Len(q) + 1 /\ r[Len(q) + 1] = a
      /\ \A j \in 1 .. Len(q) : r[j] = q[j]
  BY <1>1
<1>3. ASSUME NEW j \in DOMAIN r
      PROVE  \/ j \in DOMAIN q /\ r[j] = q[j]
             \/ j = Len(q) + 1 /\ r[j] = a
  BY <1>2
<1>4. DOMAIN q \subseteq DOMAIN r /\ Len(q) + 1 \in DOMAIN r
  BY <1>2
<1>5. {r[j] : j \in DOMAIN r} = {q[j] : j \in DOMAIN q} \cup {a}
  BY <1>2, <1>3, <1>4
<1>6. ASSUME NEW j \in DOMAIN r, NEW k \in DOMAIN r, j < k
      PROVE  r[j] # r[k] /\ Before(t, r[j][1], r[k][1])
  <2>1. j \in DOMAIN q /\ r[j] = q[j]
    BY <1>2, <1>6
  <2>2. CASE k \in DOMAIN q
    <3>1. r[k] = q[k]
      BY <1>2, <2>2
    <3> QED
      BY <1>6, <2>1, <2>2, <3>1
  <2>3. CASE k \notin DOMAIN q
    <3>1. r[k] = a
      BY <1>3, <2>3
    <3> QED
      BY <2>1, <3>1
  <2> QED
    BY <2>2, <2>3
<1> QED
  BY <1>1, <1>2, <1>5, <1>6

LEMMA ForeachStep ==
    ASSUME IndInv, OneUser, NEW t \in Threads, Foreach(t)
    PROVE  IndInv'
<1> DEFINE D == DOMAIN node
           way == loop[t].from
<1>1. PICK z : z = Passing(t)
  OBVIOUS
<1>2. /\ pc[t] = "loop" /\ z # NULL /\ p' = [p EXCEPT ![t] = z] /\ cur' = Step(t, z)
      /\ seen' = [seen EXCEPT ![t] = Append(@, node[z].arg)]
      /\ owed' = [owed EXCEPT ![t] = @ \ {node[z].arg}]
      /\ UNCHANGED <<node, items, nNode, head, size, memUsage, mutex, pc, loop>>
  BY <1>1 DEF Foreach
<1>3. TypeOK /\ Visits(t) /\ Numbered
  BY DEF IndInv
<1>4. /\ NULL \notin D /\ node \in [D -> NodeR] /\ way \in {FIRST, LAST}
      /\ \A m \in D : m \in Nat /\ Value(m) \in Int
      /\ seen[t] \in Seq(Items) /\ owed[t] \in SUBSET Items
  BY <1>3, Types DEF TypeOK
<1>5. SameTree
  BY <1>2 DEF SameTree
<1>6. ASSUME NEW pos, NEW lo, NEW hi, Shape(pos, lo, hi)
      PROVE  /\ Tree(node, head, size, pos, lo, hi) /\ Sorted(node, pos) /\ LoopSound(t, pos)
             /\ cur \in D \cup {NULL} /\ cur # NULL /\ FirstToPass(t, pos, pos[cur], z)
  <2>1. Tree(node, head, size, pos, lo, hi) /\ Sorted(node, pos) /\ LoopSound(t, pos)
    BY <1>6 DEF Shape
  <2>2. cur \in D \cup {NULL}
    BY <1>2, <2>1 DEF LoopSound
  <2>3. IF cur = NULL THEN z = NULL ELSE FirstToPass(t, pos, pos[cur], z)
    BY <1>1, <1>4, <2>1, <2>2, PassingIs
  <2> QED
    BY <1>2, <2>1, <2>2, <2>3
<1>7. PICK pos0, lo0, hi0 : Shape(pos0, lo0, hi0)
  BY DEF IndInv
<1>8. z \in D /\ node[z].arg \in Items
  <2>1. z \in D
    BY <1>2, <1>6, <1>7 DEF FirstToPass
  <2> QED
    BY <1>4, <2>1 DEF NodeR
<1>9. /\ node[z].arg \notin Seen(t)
      /\ \A x \in Seen(t) : Before(t, x[1], Value(z))
  <2>1. Ahead(way, pos0, z)
    BY <1>2, <1>6, <1>7 DEF FirstToPass, Ahead
  <2> QED
    BY <1>2, <1>6, <1>7, <1>8, <2>1 DEF LoopSound
<1>10. /\ seen'[t] \in Seq(Items) /\ Seen(t)' = Seen(t) \cup {node[z].arg}
       /\ \A j, k \in DOMAIN seen'[t] : j < k =>
            seen'[t][j] # seen'[t][k] /\ Before(t, seen'[t][j][1], seen'[t][k][1])
  <2>1. seen'[t] = Append(seen[t], node[z].arg)
    BY <1>2, <1>3 DEF TypeOK
  <2>2. \A x \in {seen[t][j] : j \in DOMAIN seen[t]} :
           x # node[z].arg /\ Before(t, x[1], node[z].arg[1])
    BY <1>9 DEF Seen, Value
  <2>3. \A j, k \in DOMAIN seen[t] : j < k =>
           seen[t][j] # seen[t][k] /\ Before(t, seen[t][j][1], seen[t][k][1])
    BY <1>3 DEF Visits
  <2>4. PICK q, a : q = seen[t] /\ a = node[z].arg
    OBVIOUS
  <2>5. q \in Seq(Items) /\ a \in Items
    BY <1>4, <1>8, <2>4
  <2>6. \A j, k \in DOMAIN q : j < k => q[j] # q[k] /\ Before(t, q[j][1], q[k][1])
    BY <2>3, <2>4
  <2>7. \A x \in {q[j] : j \in DOMAIN q} : x # a /\ Before(t, x[1], a[1])
    BY <2>2, <2>4
  <2>8. /\ Append(q, a) \in Seq(Items)
        /\ {Append(q, a)[j] : j \in DOMAIN Append(q, a)} = {q[j] : j \in DOMAIN q} \cup {a}
        /\ \A j, k \in DOMAIN Append(q, a) : j < k =>
              Append(q, a)[j] # Append(q, a)[k] /\ Before(t, Append(q, a)[j][1], Append(q, a)[k][1])
    BY <2>5, <2>6, <2>7, SeenAppend, Zenon
  <2>9. seen'[t] = Append(q, a)
    BY <2>1, <2>4
  <2> QED
    BY <2>4, <2>8, <2>9 DEF Seen
<1>11. /\ p'[t] = z /\ p' \in [Threads -> Nat] /\ cur' = Step(t, z)
       /\ owed'[t] = owed[t] \ {node[z].arg} /\ owed' \in [Threads -> SUBSET Items]
       /\ seen' \in [Threads -> Seq(Items)]
  <2>1. z \in Nat
    BY <1>4, <1>8
  <2>2. Append(seen[t], node[z].arg) \in Seq(Items)
    BY <1>4, <1>8
  <2> QED
    BY <1>2, <1>3, <1>4, <2>1, <2>2 DEF TypeOK
<1>12. Visits(t)'
  <2>1. \A x \in Seen(t)' : x[2] <= nNode'
    <3>1. \A x \in Seen(t) : x[2] <= nNode
      BY <1>3 DEF Visits
    <3>2. node[z].arg[2] <= nNode
      BY <1>3, <1>8 DEF Numbered
    <3> QED
      BY <1>2, <1>10, <3>1, <3>2
  <2>2. pc'[t] = "loop" /\ loop' = loop
    BY <1>2
  <2> QED
    BY <1>10, <2>1, <2>2 DEF Visits, Before
<1>13. ASSUME NEW pos, NEW lo, NEW hi, Shape(pos, lo, hi)
       PROVE  /\ cur' \in D \cup {NULL}
              /\ \A m \in D : Ahead(way, pos, m)' <=> m # z /\ Toward(way, pos[z], pos[m])
  <2>1. Tree(node, head, size, pos, lo, hi)
    BY <1>6, <1>13
  <2>2. IF cur' = NULL THEN pos[z] = IF way = FIRST THEN size ELSE 1
        ELSE cur' \in D /\ pos[cur'] = IF way = FIRST THEN pos[z] + 1 ELSE pos[z] - 1
    BY <1>4, <1>8, <1>11, <2>1, StepIs
  <2>3. /\ \A m \in D : pos[m] \in 1 .. size
        /\ \A m, j \in D : pos[m] = pos[j] => m = j
        /\ size \in Nat
    BY <2>1 DEF Tree, Places
  <2>4. cur' \in D \cup {NULL}
    BY <2>2
  <2>5. ASSUME NEW m \in D
        PROVE  Ahead(way, pos, m)' <=> m # z /\ Toward(way, pos[z], pos[m])
    <3>1. pos[m] \in 1 .. size /\ pos[z] \in 1 .. size /\ (pos[m] = pos[z] <=> m = z)
      BY <1>8, <2>3
    <3>2. Ahead(way, pos, m)' <=> cur' # NULL /\ Toward(way, pos[cur'], pos[m])
      BY <1>2 DEF Ahead
    <3>3. CASE cur' = NULL
      BY <1>4, <2>2, <2>3, <3>1, <3>2, <3>3 DEF Toward
    <3>4. CASE cur' # NULL
      BY <1>4, <2>2, <2>3, <3>1, <3>2, <3>4 DEF Toward
    <3> QED
      BY <3>3, <3>4
  <2> QED
    BY <2>4, <2>5
<1>14. ASSUME NEW pos, NEW lo, NEW hi, Shape(pos, lo, hi)
       PROVE  LoopSound(t, pos)'
  <2>1. /\ FirstToPass(t, pos, pos[cur], z) /\ cur \in D /\ cur # NULL
        /\ Sorted(node, pos) /\ LoopSound(t, pos)
        /\ \A m \in D : pos[m] \in Int
        /\ \A m, j \in D : pos[m] = pos[j] => m = j
    BY <1>6, <1>14, TreeFacts
  <2>2. /\ cur' \in D \cup {NULL}
        /\ \A m \in D : Ahead(way, pos, m)' <=> m # z /\ Toward(way, pos[z], pos[m])
    BY <1>13, <1>14
  <2>3. /\ \A m \in D : Ahead(way, pos, m) =>
              /\ node[m].arg \notin Seen(t)
              /\ \A x \in Seen(t) : Before(t, x[1], Value(m))
        /\ \A y \in owed[t] :
              /\ y[1] \in loop[t].filter
              /\ \E m \in D : node[m].arg = y /\ Ahead(way, pos, m)
    BY <1>2, <2>1 DEF LoopSound
  <2>4. ASSUME NEW m \in D, Ahead(way, pos, m)'
        PROVE  /\ node[m].arg \notin Seen(t)'
               /\ \A x \in Seen(t)' : Before(t, x[1], Value(m))
    <3>1. m # z /\ Toward(way, pos[z], pos[m]) /\ Toward(way, pos[cur], pos[z])
      BY <1>2, <2>1, <2>2, <2>4 DEF FirstToPass
    <3>2. Ahead(way, pos, m)
      BY <1>8, <2>1, <3>1 DEF Toward, Ahead
    <3>3. node[m].arg # node[z].arg
      BY <1>3, <1>8, <3>1 DEF Numbered
    <3>4. Before(t, node[z].arg[1], Value(m))
      <4>1. pos[m] # pos[z] /\ pos[m] \in Int /\ pos[z] \in Int
        BY <1>8, <2>1, <3>1
      <4>2. way = FIRST => pos[z] < pos[m]
        BY <3>1, <4>1 DEF Toward
      <4>3. way # FIRST => pos[m] < pos[z]
        BY <3>1, <4>1 DEF Toward
      <4> QED
        BY <1>8, <2>1, <4>2, <4>3 DEF Sorted, Before, Value
    <3> QED
      BY <1>10, <2>3, <3>2, <3>3, <3>4
  <2>5. ASSUME NEW y \in owed'[t]
        PROVE  y[1] \in loop[t].filter /\ \E m \in D : node[m].arg = y /\ Ahead(way, pos, m)'
    <3>1. y \in owed[t] /\ y # node[z].arg
      BY <1>11, <2>5
    <3>2. PICK m \in D : node[m].arg = y /\ Ahead(way, pos, m)
      BY <2>3, <3>1
    <3>3. y[1] \in loop[t].filter /\ Value(m) = y[1] /\ m # z
      BY <2>3, <3>1, <3>2 DEF Value
    <3>4. Toward(way, pos[z], pos[m])
      BY <1>2, <2>1, <3>2, <3>3 DEF FirstToPass, Ahead
    <3> QED
      BY <2>2, <3>2, <3>3, <3>4
  <2>6. z \in D /\ ~Ahead(way, pos, z)'
    BY <1>8, <2>2
  <2> QED
    BY <1>2, <1>11, <2>2, <2>4, <2>5, <2>6 DEF LoopSound, Before, Value
<1>15. cur' \in Nat
  <2>1. cur' \in D \cup {NULL}
    BY <1>7, <1>13
  <2> QED
    BY <1>4, <2>1 DEF NULL
<1> QED
  BY <1>2, <1>3, <1>5, <1>11, <1>12, <1>14, <1>15, SameTreeKeeps DEF TypeOK

LEMMA EndLoopStep ==
    ASSUME IndInv, OneUser, NEW t \in Threads, EndLoop(t)
    PROVE  IndInv'
<1>1. /\ pc[t] = "loop" /\ Passing(t) = NULL /\ cur' = NULL
      /\ p' = [p EXCEPT ![t] = NULL] /\ pc' = [pc EXCEPT ![t] = "done"]
      /\ UNCHANGED <<node, items, nNode, head, size, memUsage, mutex, loop, seen, owed>>
  BY DEF EndLoop, Goto
<1>2. TypeOK /\ Visits(t)
  BY DEF IndInv
<1>3. SameTree
  BY <1>1 DEF SameTree
<1>4. /\ pc'[t] = "done" /\ pc' \in [Threads -> {"idle", "locked", "loop", "done"}]
      /\ p'[t] = NULL /\ p' \in [Threads -> Nat] /\ cur' \in Nat
  BY <1>1, <1>2 DEF TypeOK, NULL
<1>5. PICK pos, lo, hi : Shape(pos, lo, hi)
  BY DEF IndInv
<1>6. owed[t] = {}
  <2>1. /\ Tree(node, head, size, pos, lo, hi) /\ NULL \notin DOMAIN node
        /\ loop[t].from \in {FIRST, LAST}
    BY <1>2, <1>5, Types DEF Shape, TypeOK
  <2>2. /\ cur \in DOMAIN node \cup {NULL}
        /\ \A y \in owed[t] :
             /\ y[1] \in loop[t].filter
             /\ \E m \in DOMAIN node : node[m].arg = y /\ Ahead(loop[t].from, pos, m)
    BY <1>1, <1>5 DEF Shape, LoopSound
  <2>3. cur # NULL => FirstToPass(t, pos, pos[cur], NULL)
    BY <1>1, <2>1, <2>2, PassingIs
  <2>4. ASSUME NEW m \in DOMAIN node, Ahead(loop[t].from, pos, m)
        PROVE  Value(m) \notin loop[t].filter
    BY <2>3, <2>4 DEF Ahead, FirstToPass
  <2> QED
    BY <2>2, <2>4 DEF Value
<1>7. Visits(t)'
  <2>1. Seen(t)' = Seen(t)
    BY <1>1 DEF Seen
  <2> QED
    BY <1>1, <1>2, <1>4, <1>6, <2>1 DEF Visits, Before
<1>8. \A q : LoopSound(t, q)'
  BY <1>4 DEF LoopSound
<1> QED
  BY <1>1, <1>2, <1>3, <1>4, <1>7, <1>8, SameTreeKeeps DEF TypeOK

------------------------------------------------------------------------------
(* The invariant. *)

LEMMA InitHolds ==
    ASSUME Init
    PROVE  IndInv
<1>1. /\ DOMAIN node = {} /\ items = {} /\ nNode = 0 /\ head = NULL
      /\ size = 0 /\ cur = NULL /\ mutex = {} /\ memUsage = HeaderSize
      /\ pc   = [t \in Threads |-> "idle"]
      /\ loop = [t \in Threads |-> [from |-> FIRST, filter |-> {}]]
      /\ p    = [t \in Threads |-> NULL]
      /\ seen = [t \in Threads |-> <<>>]
      /\ owed = [t \in Threads |-> {}]
  BY DEF Init
<1>2. node \in [DOMAIN node -> [arg : Items, F : Nat, L : Nat, R : Nat]]
  BY DEF Init
<1>3. TypeOK
  <2>1. seen \in [Threads -> Seq(Items)]
    BY <1>1
  <2>2. loop \in [Threads -> [from : {FIRST, LAST}, filter : SUBSET Values]]
    BY <1>1 DEF FIRST
  <2>3. nNode \in 0 .. MaxNodes /\ DOMAIN node \subseteq 1 .. nNode
    BY <1>1, MaxNodesAssumption
  <2> QED
    BY <1>1, <1>2, <2>1, <2>2, <2>3 DEF TypeOK, NULL, HeaderSize
<1>4. Numbered
  BY <1>1 DEF Numbered, HeaderSize, NodeSize, IntSize
<1>5. \A t \in Threads : Visits(t)
  <2>1. ASSUME NEW t \in Threads PROVE Visits(t)
    <3>1. seen[t] = <<>> /\ p[t] = NULL /\ owed[t] = {}
      BY <1>1
    <3>2. Seen(t) = {} /\ DOMAIN seen[t] = {}
      BY <3>1 DEF Seen
    <3> QED
      BY <3>1, <3>2 DEF Visits
  <2> QED
    BY <2>1
<1>6. PICK e : e = [m \in {} |-> 1]
  OBVIOUS
<1>7. Shape(e, e, e)
  <2>1. e \in [DOMAIN node -> 1 .. size] /\ size \in Nat /\ 1 .. size = {}
    BY <1>1, <1>6
  <2>2. Tree(node, head, size, e, e, e)
    <3>1. Places(node, size, e, e, e)
      BY <1>1, <2>1 DEF Places
    <3> QED
      BY <1>1, <3>1 DEF Tree
  <2>3. Sorted(node, e)
    BY <1>1 DEF Sorted
  <2>4. \A t \in Threads : LoopSound(t, e)
    BY <1>1 DEF LoopSound
  <2> QED
    BY <2>2, <2>3, <2>4 DEF Shape
<1>8. e \in [DOMAIN node -> 1 .. size]
  BY <1>1, <1>6
<1> QED
  BY <1>1, <1>3, <1>4, <1>5, <1>7, <1>8 DEF IndInv

LEMMA StutterKeeps ==
    ASSUME IndInv, UNCHANGED vars
    PROVE  IndInv'
<1>1. UNCHANGED <<node, items, nNode, head, size, cur, memUsage, mutex, pc, loop, p, seen, owed>>
  BY DEF vars
<1>2. TypeOK /\ Numbered /\ size \in Nat /\ \A u \in Threads : Visits(u)
  BY DEF IndInv
<1>3. PICK pos, lo, hi \in [DOMAIN node -> 1 .. size] : Shape(pos, lo, hi)
  BY DEF IndInv
<1>4. TypeOK' /\ Numbered' /\ size' \in Nat
  BY <1>1, <1>2 DEF TypeOK, Numbered
<1>5. ASSUME NEW u \in Threads PROVE Visits(u)' /\ LoopSound(u, pos)'
  <2>1. Visits(u)'
    BY <1>1, <1>2 DEF Visits, Seen, Before
  <2>2. LoopSound(u, pos)
    BY <1>3 DEF Shape
  <2>3. LoopSound(u, pos)'
    BY <1>1, <2>2 DEF LoopSound, Seen, Ahead, Before, Value
  <2> QED
    BY <2>1, <2>3
<1>6. Shape(pos, lo, hi)'
  BY <1>1, <1>3, <1>5 DEF Shape
<1>7. \E a, b, c \in [DOMAIN node' -> 1 .. size'] : Shape(a, b, c)'
  BY <1>1, <1>3, <1>6
<1> QED
  BY <1>4, <1>5, <1>7 DEF IndInv

LEMMA InvariantStep ==
    ASSUME IndInv, OneUser, [Next]_vars
    PROVE  IndInv'
<1>1. ASSUME NEW t \in Threads, Thread(t) PROVE IndInv'
  <2>1. CASE \E v \in Values : Insert(t, v)
    BY <2>1, InsertStep
  <2>2. CASE \E v \in Values : SearchDelete(t, v)
    BY <2>2, SearchDeleteStep
  <2>3. CASE \E way \in {FIRST, LAST}, filter \in SUBSET Values : Seek(t, way, filter)
    BY <2>3, SeekStep
  <2>4. CASE Lock(t)
    BY <2>4, LockStep
  <2>5. CASE Foreach(t)
    BY <2>5, ForeachStep
  <2>6. CASE Delete(t)
    BY <2>6, DeleteStep
  <2>7. CASE EndLoop(t)
    BY <2>7, EndLoopStep
  <2>8. CASE Unlock(t)
    BY <2>8, UnlockStep
  <2> QED
    BY <1>1, <2>1, <2>2, <2>3, <2>4, <2>5, <2>6, <2>7, <2>8 DEF Thread
<1>2. CASE UNCHANGED vars
  BY <1>2, StutterKeeps
<1> QED
  BY <1>1, <1>2 DEF Next

(* The tree's invariant, in every state of its one user: the shape, the    *)
(* order of the values, and where the loop is in it.                       *)
THEOREM TreeSound ==
    ASSUME OneUser
    PROVE  Spec => []IndInv
<1>1. Init => IndInv
  BY InitHolds
<1>2. IndInv /\ [Next]_vars => IndInv'
  BY InvariantStep
<1> QED
  BY <1>1, <1>2, PTL DEF Spec

------------------------------------------------------------------------------
(* The properties the runs check: vtree_travel goes along the places. *)

LEMMA Backwards ==
    ASSUME NEW n \in Nat, NEW S, n + 1 \in S,
           \A i \in 1 .. n : i + 1 \in S => i \in S
    PROVE  \A i \in 1 .. n + 1 : i \in S
<1> DEFINE B == {d \in 0 .. n : n + 1 - d \notin S}
<1>1. B = {}
  <2> SUFFICES ASSUME B # {} PROVE FALSE
    OBVIOUS
  <2>1. B \in SUBSET Nat
    OBVIOUS
  <2>2. PICK m \in B : \A d \in B : m <= d
    <3> HIDE DEF B
    <3> QED
      BY <2>1, NatMin
  <2>3. m \in 0 .. n /\ n + 1 - m \notin S
    BY <2>2
  <2>4. m # 0
    BY <2>3
  <2>5. m - 1 \in 0 .. n /\ m - 1 \notin B
    BY <2>2, <2>3, <2>4
  <2>6. n + 1 - (m - 1) \in S
    BY <2>5
  <2>7. n + 1 - (m - 1) = (n + 1 - m) + 1 /\ n + 1 - m \in 1 .. n
    BY <2>3, <2>4
  <2> QED
    BY <2>3, <2>6, <2>7
<1>2. ASSUME NEW i \in 1 .. n + 1 PROVE i \in S
  <2>1. n + 1 - i \in 0 .. n /\ n + 1 - (n + 1 - i) = i
    OBVIOUS
  <2>2. n + 1 - i \notin B
    BY <1>1, Zenon
  <2>3. n + 1 - (n + 1 - i) \in S
    BY <2>1, <2>2, Zenon
  <2> QED
    BY <2>1, <2>3, Zenon
<1> QED
  BY <1>2

(* The order of the sequence of nodes that is read from the left. *)
Travels(w) ==
    w = [m \in DOMAIN node \cup {NULL} |->
           IF m = NULL THEN <<>> ELSE <<m>> \o w[vtree_next(m)]]

LEMMA Prefixed ==
    ASSUME NEW U, NEW x \in U, NEW q \in Seq(U)
    PROVE  <<x>> \o q = [j \in 1 .. 1 + Len(q) |-> IF j = 1 THEN x ELSE q[j - 1]]
<1>1. Len(<<x>>) = 1 /\ <<x>> \in Seq(U) /\ <<x>>[1] = x /\ Len(q) \in Nat
  OBVIOUS
<1>2. <<x>> \o q \in Seq(U) /\ Len(<<x>> \o q) = 1 + Len(q)
  BY <1>1
<1>3. DOMAIN (<<x>> \o q) = 1 .. 1 + Len(q)
  BY <1>2
<1>4. \A j \in 1 .. 1 + Len(q) : (<<x>> \o q)[j] = IF j = 1 THEN x ELSE q[j - 1]
  OBVIOUS
<1>5. <<x>> \o q = [j \in DOMAIN (<<x>> \o q) |-> (<<x>> \o q)[j]]
  BY <1>2
<1> QED
  BY <1>3, <1>4, <1>5

(* The nodes from the i-th place on. *)
Suffix(n, s, i) == [j \in 1 .. n + 1 - i |-> s[i + j - 1]]

LEMMA SuffixStep ==
    ASSUME NEW U, NEW n \in Nat, NEW s \in [1 .. n -> U], NEW i \in 1 .. n
    PROVE  Suffix(n, s, i) = <<s[i]>> \o Suffix(n, s, i + 1)
<1>1. PICK m : m = n - i
  OBVIOUS
<1>2. m \in Nat /\ 1 .. m = 1 .. n + 1 - (i + 1) /\ 1 .. 1 + m = 1 .. n + 1 - i
  BY <1>1
<1>3. s[i] \in U /\ \A j \in 1 .. m : i + j \in 1 .. n /\ i + 1 + j - 1 = i + j
  BY <1>1
<1>4. PICK q : q = Suffix(n, s, i + 1)
  OBVIOUS
<1>5. q = [j \in 1 .. m |-> s[i + j]]
  <2>1. q = [j \in 1 .. m |-> s[i + 1 + j - 1]]
    BY <1>2, <1>4, Zenon DEF Suffix
  <2> QED
    BY <1>3, <2>1
<1>6. q \in Seq(U) /\ Len(q) = m /\ \A j \in 1 .. m : q[j] = s[i + j]
  BY <1>2, <1>3, <1>5
<1>7. <<s[i]>> \o q = [j \in 1 .. 1 + m |-> IF j = 1 THEN s[i] ELSE q[j - 1]]
  BY <1>3, <1>6, Prefixed
<1>8. \A j \in 1 .. 1 + m : (IF j = 1 THEN s[i] ELSE q[j - 1]) = s[i + j - 1]
  <2>1. i + 1 - 1 = i
    OBVIOUS
  <2>2. \A j \in 1 .. 1 + m : j # 1 => j - 1 \in 1 .. m /\ i + (j - 1) = i + j - 1
    BY <1>2
  <2> QED
    BY <1>6, <2>1, <2>2
<1>9. Suffix(n, s, i) = [j \in 1 .. 1 + m |-> s[i + j - 1]]
  BY <1>2, Zenon DEF Suffix
<1> QED
  BY <1>4, <1>7, <1>8, <1>9

(* s lists the nodes by their places. *)
ByPlace(n, pos, s) == s \in [1 .. n -> DOMAIN node] /\ \A i \in 1 .. n : pos[s[i]] = i

LEMMA TravelsExists ==
    ASSUME NEW n, NEW pos, NEW lo, NEW hi, Tree(node, head, n, pos, lo, hi),
           NULL \notin DOMAIN node, NEW s, ByPlace(n, pos, s)
    PROVE  \E w : Travels(w)
<1> DEFINE w == [y \in DOMAIN node \cup {NULL} |-> IF y = NULL THEN <<>> ELSE Suffix(n, s, pos[y])]
<1>1. /\ n \in Nat /\ \A m \in DOMAIN node : pos[m] \in 1 .. n
      /\ \A m, j \in DOMAIN node : pos[m] = pos[j] => m = j
      /\ s \in [1 .. n -> DOMAIN node] /\ \A i \in 1 .. n : pos[s[i]] = i
  BY DEF Tree, Places, ByPlace
<1>2. ASSUME NEW y \in DOMAIN node PROVE w[y] = <<y>> \o w[vtree_next(y)]
  <2>1. PICK i : i = pos[y]
    OBVIOUS
  <2>2. i \in 1 .. n /\ s[i] = y
    BY <1>1, <2>1
  <2>3. w[y] = Suffix(n, s, i)
    BY <2>1
  <2>4. Suffix(n, s, i) = <<y>> \o Suffix(n, s, i + 1)
    <3>1. n \in Nat /\ s \in [1 .. n -> DOMAIN node]
      BY <1>1
    <3>2. Suffix(n, s, i) = <<s[i]>> \o Suffix(n, s, i + 1)
      BY <2>2, <3>1, SuffixStep
    <3> QED
      BY <2>2, <3>2
  <2>5. w[vtree_next(y)] = Suffix(n, s, i + 1)
    <3>0. IF vtree_next(y) = NULL THEN pos[y] = n
          ELSE vtree_next(y) \in DOMAIN node /\ pos[vtree_next(y)] = pos[y] + 1
      BY NextIs
    <3>1. CASE vtree_next(y) = NULL
      <4>1. Suffix(n, s, i + 1) = <<>>
        BY <1>1, <2>1, <3>0, <3>1 DEF Suffix
      <4>2. w[NULL] = <<>>
        OBVIOUS
      <4> HIDE DEF w
      <4> QED
        BY <3>1, <4>1, <4>2
    <3>2. CASE vtree_next(y) # NULL
      <4>1. vtree_next(y) \in DOMAIN node /\ pos[vtree_next(y)] = i + 1
        BY <2>1, <3>0, <3>2
      <4>2. w[vtree_next(y)] = Suffix(n, s, pos[vtree_next(y)])
        BY <3>2, <4>1
      <4> HIDE DEF w
      <4> QED
        BY <4>1, <4>2
    <3> QED
      BY <3>1, <3>2
  <2> HIDE DEF w
  <2> QED
    BY <2>3, <2>4, <2>5
<1>3. w[NULL] = <<>> /\ w = [y \in DOMAIN node \cup {NULL} |-> w[y]]
  OBVIOUS
<1>4. Travels(w)
  <2> HIDE DEF w
  <2> QED
    BY <1>2, <1>3 DEF Travels
<1> QED
  BY <1>4

LEMMA TravelIs ==
    ASSUME NEW n, NEW pos, NEW lo, NEW hi, Tree(node, head, n, pos, lo, hi),
           NULL \notin DOMAIN node, NEW s, ByPlace(n, pos, s)
    PROVE  Travel = s
<1>1. \E w : Travels(w)
  BY TravelsExists
<1>2. Travel = (CHOOSE v : Travels(v))[vtree_mostL(head)]
  BY Zenon DEF Travel, Travels
<1>3. PICK v : Travels(v) /\ Travel = v[vtree_mostL(head)]
  <2> HIDE DEF Travels
  <2>1. Travels(CHOOSE v : Travels(v))
    BY <1>1, Zenon
  <2> QED
    BY <1>2, <2>1
<1>4. v[NULL] = <<>> /\ \A y \in DOMAIN node : v[y] = <<y>> \o v[vtree_next(y)]
  BY <1>3 DEF Travels
<1>5. /\ n \in Nat /\ s \in [1 .. n -> DOMAIN node] /\ \A i \in 1 .. n : pos[s[i]] = i
      /\ \A m \in DOMAIN node : pos[m] \in 1 .. n
      /\ \A m, j \in DOMAIN node : pos[m] = pos[j] => m = j
  BY DEF Tree, Places, ByPlace
<1> DEFINE pt(i) == IF i = n + 1 THEN NULL ELSE s[i]
           S     == {i \in 1 .. n + 1 : v[pt(i)] = Suffix(n, s, i)}
<1>6. n + 1 \in S
  <2>1. Suffix(n, s, n + 1) = <<>>
    BY <1>5 DEF Suffix
  <2> QED
    BY <1>4, <1>5, <2>1
<1>7. ASSUME NEW i \in 1 .. n PROVE s[i] \in DOMAIN node /\ vtree_next(s[i]) = pt(i + 1)
  <2>1. s[i] \in DOMAIN node /\ pos[s[i]] = i
    BY <1>5
  <2>2. IF vtree_next(s[i]) = NULL THEN pos[s[i]] = n
        ELSE vtree_next(s[i]) \in DOMAIN node /\ pos[vtree_next(s[i])] = pos[s[i]] + 1
    BY <2>1, NextIs
  <2>3. CASE vtree_next(s[i]) = NULL
    BY <1>5, <2>1, <2>2, <2>3
  <2>4. CASE vtree_next(s[i]) # NULL
    <3>1. vtree_next(s[i]) \in DOMAIN node /\ pos[vtree_next(s[i])] = i + 1
      BY <2>1, <2>2, <2>4
    <3>2. i + 1 \in 1 .. n
      BY <1>5, <3>1
    <3>3. s[i + 1] \in DOMAIN node /\ pos[s[i + 1]] = i + 1 /\ i + 1 # n + 1
      BY <1>5, <3>2
    <3> QED
      BY <1>5, <2>1, <3>1, <3>3
  <2> QED
    BY <2>3, <2>4
<1>8. ASSUME NEW i \in 1 .. n, i + 1 \in S PROVE i \in S
  <2>1. v[pt(i + 1)] = Suffix(n, s, i + 1)
    BY <1>8
  <2>2. s[i] \in DOMAIN node /\ vtree_next(s[i]) = pt(i + 1) /\ pt(i) = s[i] /\ i \in 1 .. n + 1
    BY <1>5, <1>7
  <2>3. Suffix(n, s, i) = <<s[i]>> \o Suffix(n, s, i + 1)
    <3>1. n \in Nat /\ s \in [1 .. n -> DOMAIN node]
      BY <1>5
    <3> HIDE DEF S, pt
    <3> QED
      BY <3>1, SuffixStep
  <2>4. v[pt(i)] = Suffix(n, s, i)
    <3> HIDE DEF pt
    <3>1. v[s[i]] = <<s[i]>> \o v[vtree_next(s[i])]
      BY <1>4, <2>2
    <3>2. v[s[i]] = <<s[i]>> \o Suffix(n, s, i + 1)
      BY <2>1, <2>2, <3>1, Zenon
    <3> QED
      BY <2>2, <2>3, <3>2, Zenon
  <2> QED
    BY <2>2, <2>4
<1>9. 1 \in S
  <2> HIDE DEF S
  <2>1. \A i \in 1 .. n + 1 : i \in S
    BY <1>5, <1>6, <1>8, Backwards
  <2> QED
    BY <1>5, <2>1
<1>10. vtree_mostL(head) = pt(1)
  <2>1. CASE head = NULL
    <3>1. vtree_mostL(head) = NULL
      BY <2>1, Zenon DEF vtree_mostL
    <3>2. DOMAIN node = {}
      BY <2>1, TreeFacts
    <3>3. n = 0
      BY <1>5, <3>2
    <3> QED
      BY <3>1, <3>3
  <2>2. CASE head # NULL
    <3>1. head \in DOMAIN node /\ lo[head] = 1
      BY <2>2, TreeFacts
    <3>2. vtree_mostL(head) \in DOMAIN node /\ pos[vtree_mostL(head)] = 1
      BY <3>1, MostLeft
    <3>3. 1 \in 1 .. n /\ 1 # n + 1
      BY <1>5, <3>2
    <3>4. s[1] \in DOMAIN node /\ pos[s[1]] = 1
      BY <1>5, <3>3
    <3> QED
      BY <1>5, <3>2, <3>3, <3>4
  <2> QED
    BY <2>1, <2>2
<1>11. v[vtree_mostL(head)] = Suffix(n, s, 1)
  BY <1>9, <1>10
<1>12. Suffix(n, s, 1) = s
  BY <1>5 DEF Suffix
<1> QED
  BY <1>3, <1>11, <1>12

LEMMA AsMany ==
    ASSUME NEW n \in Nat, NEW M, NEW s \in [1 .. n -> M],
           \A i, j \in 1 .. n : s[i] = s[j] => i = j,
           \A m \in M : \E i \in 1 .. n : s[i] = m
    PROVE  IsFiniteSet(M) /\ Cardinality(M) = n
<1>1. IsFiniteSet(1 .. n) /\ Cardinality(1 .. n) = n
  BY FS_Interval
<1>2. s \in Bijection(1 .. n, M)
  BY DEF Bijection, Injection, Surjection, IsInjective
<1> QED
  BY <1>1, <1>2, FS_Bijection DEF ExistsBijection

LEMMA LinksFollow ==
    ASSUME NEW n, NEW pos, NEW lo, NEW hi, Tree(node, head, n, pos, lo, hi),
           NULL \notin DOMAIN node
    PROVE  LinksAgree
<1>1. head = NULL <=> DOMAIN node = {}
  BY TreeFacts
<1>2. head # NULL => head \in DOMAIN node /\ node[head].F = NULL
  BY TreeFacts
<1>3. ASSUME NEW m \in DOMAIN node
      PROVE  /\ \A c \in {node[m].L, node[m].R} \ {NULL} : c \in DOMAIN node /\ node[c].F = m
             /\ node[m].L # NULL => node[m].L # node[m].R
             /\ m # head => /\ node[m].F \in DOMAIN node
                            /\ m \in {node[node[m].F].L, node[node[m].F].R}
  <2>1. /\ node[m].L # NULL => /\ node[m].L \in DOMAIN node /\ node[node[m].L].F = m
                               /\ hi[node[m].L] = pos[m] - 1
        /\ node[m].R # NULL => /\ node[m].R \in DOMAIN node /\ node[node[m].R].F = m
                               /\ lo[node[m].R] = pos[m] + 1
        /\ pos[m] \in Int
    BY TreeFacts
  <2>2. ASSUME node[m].L # NULL, node[m].L = node[m].R PROVE FALSE
    <3>1. PICK c \in DOMAIN node : hi[c] = pos[m] - 1 /\ lo[c] = pos[m] + 1
      BY <2>1, <2>2
    <3>2. lo[c] <= pos[c] /\ pos[c] <= hi[c] /\ pos[c] \in Int
      BY TreeFacts
    <3> QED
      BY <2>1, <3>1, <3>2
  <2>3. m # head => /\ node[m].F \in DOMAIN node
                    /\ node[node[m].F].L = m \/ node[node[m].F].R = m
    BY TreeFacts
  <2> QED
    BY <2>1, <2>2, <2>3
<1> QED
  BY <1>1, <1>2, <1>3 DEF LinksAgree

LEMMA Properties ==
    ASSUME IndInv
    PROVE  InOrder /\ ItemsKept /\ VisitsAll
<1>1. TypeOK /\ Numbered /\ size \in Nat /\ \A t \in Threads : Visits(t)
  BY DEF IndInv
<1>2. PICK pos, lo, hi : Shape(pos, lo, hi)
  BY DEF IndInv
<1>3. /\ Tree(node, head, size, pos, lo, hi) /\ Sorted(node, pos)
      /\ \A t \in Threads : LoopSound(t, pos)
  BY <1>2 DEF Shape
<1>4. NULL \notin DOMAIN node /\ \A m \in DOMAIN node : Value(m) \in Int
  BY <1>1, Types
<1>5. /\ \A m \in DOMAIN node : pos[m] \in 1 .. size
      /\ \A m, j \in DOMAIN node : pos[m] = pos[j] => m = j
      /\ \A i \in 1 .. size : \E m \in DOMAIN node : pos[m] = i
  BY <1>3 DEF Tree, Places
<1>6. PICK s : s = [i \in 1 .. size |-> CHOOSE m \in DOMAIN node : pos[m] = i]
  OBVIOUS
<1>7. ByPlace(size, pos, s)
  <2>1. ASSUME NEW i \in 1 .. size PROVE s[i] \in DOMAIN node /\ pos[s[i]] = i
    BY <1>5, <1>6
  <2> QED
    BY <1>6, <2>1 DEF ByPlace
<1>8. /\ s \in [1 .. size -> DOMAIN node] /\ \A i \in 1 .. size : pos[s[i]] = i
      /\ \A i, j \in 1 .. size : s[i] = s[j] => i = j
      /\ \A m \in DOMAIN node : \E i \in 1 .. size : s[i] = m
  BY <1>5, <1>7 DEF ByPlace
<1>9. Travel = s
  BY <1>3, <1>4, <1>7, TravelIs
<1>10. Len(s) = size /\ DOMAIN s = 1 .. size
  BY <1>1, <1>8
<1>11. Cardinality(DOMAIN node) = size
  BY <1>1, <1>8, AsMany
<1>12. InOrder
  <2>1. LinksAgree
    BY <1>3, <1>4, LinksFollow
  <2>2. ElementsOf(s) = DOMAIN node
    <3>1. ASSUME NEW m PROVE m \in DOMAIN node <=> \E i \in 1 .. size : s[i] = m
      BY <1>8
    <3>2. ASSUME NEW m PROVE m \in {s[j] : j \in DOMAIN s} <=> \E i \in 1 .. size : s[i] = m
      BY <1>10
    <3> QED
      BY <3>1, <3>2 DEF ElementsOf
  <2>3. ASSUME NEW j \in 2 .. Len(s) PROVE Value(s[j - 1]) <= Value(s[j])
    <3>1. j \in 1 .. size /\ j - 1 \in 1 .. size /\ j - 1 < j
      BY <1>1, <1>10, <2>3
    <3>2. s[j] \in DOMAIN node /\ s[j - 1] \in DOMAIN node /\ pos[s[j - 1]] < pos[s[j]]
      BY <1>8, <3>1
    <3> QED
      BY <1>3, <3>2 DEF Sorted, Value
  <2> QED
    BY <1>1, <1>9, <1>10, <1>11, <2>1, <2>2, <2>3 DEF InOrder
<1>13. ItemsKept
  <2>1. SearchExact
    <3>1. ASSUME NEW v \in Values
          PROVE  (\E n \in DOMAIN node : Value(n) = v)
                    <=> (vtree_search(v) # NULL /\ Value(vtree_search(v)) = v)
      <4>1. v \in Int
        BY ValuesAssumption
      <4>2. IF vtree_search(v) = NULL THEN \A x \in DOMAIN node : Value(x) # v
            ELSE vtree_search(v) \in DOMAIN node /\ Value(vtree_search(v)) = v
        BY <1>3, <1>4, <4>1, SearchIs
      <4> QED
        BY <4>2
    <3> QED
      BY <3>1 DEF SearchExact
  <2>2. /\ items = {node[m].arg : m \in DOMAIN node}
        /\ \A m, j \in DOMAIN node : node[m].arg = node[j].arg => m = j
        /\ memUsage = HeaderSize + (NodeSize + IntSize) * size
    BY <1>1 DEF Numbered
  <2>3. Cardinality(items) = size
    <3>1. PICK a : a = [i \in 1 .. size |-> node[s[i]].arg]
      OBVIOUS
    <3>2. a \in [1 .. size -> items]
      BY <1>8, <2>2, <3>1
    <3>3. \A i, j \in 1 .. size : a[i] = a[j] => i = j
      BY <1>8, <2>2, <3>1
    <3>4. \A x \in items : \E i \in 1 .. size : a[i] = x
      BY <1>8, <2>2, <3>1
    <3> QED
      BY <1>1, <3>2, <3>3, <3>4, AsMany
  <2>4. memUsage = HeaderSize + NodeSize * Cardinality(DOMAIN node) + IntSize * Cardinality(items)
    <3>1. memUsage = HeaderSize + NodeSize * size + IntSize * size
      BY <1>1, <2>2 DEF HeaderSize, NodeSize, IntSize
    <3> QED
      BY <1>11, <2>3, <3>1
  <2> QED
    BY <2>1, <2>2, <2>4 DEF ItemsKept
<1>14. VisitsAll
  <2>1. NoDanglingCursor
    <3>1. ASSUME NEW t \in Threads, pc[t] = "loop"
          PROVE  cur \in DOMAIN node \cup {NULL} /\ p[t] \in DOMAIN node \cup {NULL}
      BY <1>3, <3>1 DEF LoopSound
    <3> QED
      BY <3>1 DEF NoDanglingCursor
  <2>2. ASSUME NEW t \in Threads
        PROVE  /\ \A j, k \in DOMAIN seen[t] : j < k =>
                    seen[t][j] # seen[t][k] /\ Before(t, seen[t][j][1], seen[t][k][1])
               /\ pc[t] = "done" => owed[t] = {}
    BY <1>1 DEF Visits
  <2> QED
    BY <2>1, <2>2 DEF VisitsAll
<1> QED
  BY <1>12, <1>13, <1>14

(* Whatever its user inserts, deletes and loops over: the links agree in   *)
(* both directions, a travel comes to every node once, in the order of the *)
(* values, and the size is their number (vutil.c:1930-2005, 2039-2120).    *)
THEOREM InOrderCorrect ==
    ASSUME OneUser
    PROVE  Spec => []InOrder
<1>1. IndInv => InOrder
  BY Properties
<1> QED
  BY <1>1, TreeSound, PTL

(* A search finds a value if and only if an item has it, each item not     *)
(* destroyed is in exactly one node, also after deletion moved it, and the *)
(* counter of vutil.c is what the tree takes (vutil.c:2008, 2048-2124).    *)
THEOREM ItemsKeptCorrect ==
    ASSUME OneUser
    PROVE  Spec => []ItemsKept
<1>1. IndInv => ItemsKept
  BY Properties
<1> QED
  BY <1>1, TreeSound, PTL

(* A loop comes to what it has to visit in the order of its direction,     *)
(* none twice and none left out, and never holds a freed node, also when   *)
(* it deletes what it visits or inserts (vutil.c:2074, 2176-2194).         *)
THEOREM VisitsAllCorrect ==
    ASSUME OneUser
    PROVE  Spec => []VisitsAll
<1>1. IndInv => VisitsAll
  BY Properties
<1> QED
  BY <1>1, TreeSound, PTL

==============================================================================
