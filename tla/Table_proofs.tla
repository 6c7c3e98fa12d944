----------------------------- MODULE Table_proofs -----------------------------
(* table.c keeps its lists linked and its keys apart, for any number of    *)
(* threads, calls and keys.  IndInv is the inductive invariant.            *)
EXTENDS TableTurns, FiniteSetTheorems, SequenceTheorems, TLAPS

(* Header h leads to the elements s[1] .. s[n] of f, in this order. *)
Chain(f, h, n, s) ==
    /\ n \in Nat /\ s \in [1 .. n -> DOMAIN f]
    /\ \A i, j \in 1 .. n : s[i] = s[j] => i = j
    /\ h.size = n
    /\ h.mostL = IF n = 0 THEN NULL ELSE s[1]
    /\ h.mostR = IF n = 0 THEN NULL ELSE s[n]
    /\ \A i \in 1 .. n : /\ f[s[i]].L = IF i = 1 THEN NULL ELSE s[i - 1]
                         /\ f[s[i]].R = IF i = n THEN NULL ELSE s[i + 1]

(* Sequences, as functions on 1 .. n. *)
PutR(n, s, x) == [i \in 1 .. n + 1 |-> IF i = n + 1 THEN x ELSE s[i]]
PutL(n, s, x) == [i \in 1 .. n + 1 |-> IF i = 1 THEN x ELSE s[i - 1]]
Drop(n, s, p) == [i \in 1 .. n - 1 |-> IF i < p THEN s[i] ELSE s[i + 1]]

------------------------------------------------------------------------------
(* What the operations of table.c do to a chain. *)

LEMMA PushRChain ==
    ASSUME NEW f, NEW g, NEW h, NEW e, NEW x, NEW n, NEW s,
           Chain(f, h, n, s), NULL \notin DOMAIN f,
           x \notin DOMAIN f, x # NULL,
           DOMAIN g = DOMAIN f \cup {x},
           g[x].L = h.mostR, g[x].R = NULL,
           \A y \in DOMAIN f : /\ g[y].L = f[y].L
                               /\ g[y].R = IF y = h.mostR THEN x ELSE f[y].R,
           e.size = h.size + 1, e.mostR = x,
           e.mostL = IF h.mostR = NULL THEN x ELSE h.mostL
    PROVE  Chain(g, e, n + 1, PutR(n, s, x))
<1> DEFINE r == PutR(n, s, x)
<1>1. /\ n \in Nat /\ \A i \in 1 .. n : s[i] \in DOMAIN f
      /\ \A i, j \in 1 .. n : s[i] = s[j] => i = j
      /\ h.size = n /\ h.mostL = (IF n = 0 THEN NULL ELSE s[1])
      /\ h.mostR = (IF n = 0 THEN NULL ELSE s[n])
      /\ \A i \in 1 .. n : /\ f[s[i]].L = IF i = 1 THEN NULL ELSE s[i - 1]
                           /\ f[s[i]].R = IF i = n THEN NULL ELSE s[i + 1]
  BY DEF Chain
<1>3. \A i \in 1 .. n + 1 : i \in 1 .. n \/ i = n + 1
  BY <1>1
<1>4. n + 1 \in Nat /\ r \in [1 .. n + 1 -> DOMAIN g]
  <2>1. \A i \in 1 .. n + 1 : (IF i = n + 1 THEN x ELSE s[i]) \in DOMAIN g
    BY <1>1, <1>3
  <2> QED
    BY <1>1, <2>1 DEF PutR
<1>2. r[n + 1] = x /\ \A i \in 1 .. n : r[i] = s[i]
  BY <1>1 DEF PutR
<1> HIDE DEF r
<1>5. \A i, j \in 1 .. n + 1 : r[i] = r[j] => i = j
  BY <1>1, <1>2, <1>3
<1>6. /\ e.size = n + 1 /\ e.mostL = (IF n + 1 = 0 THEN NULL ELSE r[1])
      /\ e.mostR = (IF n + 1 = 0 THEN NULL ELSE r[n + 1])
  <2>1. n # 0 => 1 \in 1 .. n /\ n \in 1 .. n
    BY <1>1
  <2> QED
    BY <1>1, <1>2, <2>1
<1>7. ASSUME NEW i \in 1 .. n + 1
      PROVE  /\ g[r[i]].L = IF i = 1 THEN NULL ELSE r[i - 1]
             /\ g[r[i]].R = IF i = n + 1 THEN NULL ELSE r[i + 1]
  <2>1. CASE i = n + 1
    <3>1. n # 0 => n \in 1 .. n
      BY <1>1
    <3> QED
      BY <1>1, <1>2, <2>1, <3>1
  <2>2. CASE i \in 1 .. n
    <3>1. s[i] \in DOMAIN f /\ r[i] = s[i] /\ n # 0
      BY <1>1, <1>2, <2>2
    <3>2. s[i] = h.mostR <=> i = n
      <4>1. n \in 1 .. n
        BY <1>1, <2>2
      <4> QED
        BY <1>1, <2>2, <4>1
    <3>3. i # 1 => i - 1 \in 1 .. n
      BY <1>1, <2>2
    <3>4. i # n => i + 1 \in 1 .. n
      BY <1>1, <2>2
    <3> QED
      BY <1>1, <1>2, <2>2, <3>1, <3>2, <3>3, <3>4
  <2> QED
    BY <1>3, <2>1, <2>2
<1> QED
  BY <1>4, <1>5, <1>6, <1>7 DEF Chain, r

LEMMA PushLChain ==
    ASSUME NEW f, NEW g, NEW h, NEW e, NEW x, NEW n, NEW s,
           Chain(f, h, n, s), NULL \notin DOMAIN f,
           x \notin DOMAIN f, x # NULL,
           DOMAIN g = DOMAIN f \cup {x},
           g[x].L = NULL, g[x].R = h.mostL,
           \A y \in DOMAIN f : /\ g[y].R = f[y].R
                               /\ g[y].L = IF y = h.mostL THEN x ELSE f[y].L,
           e.size = h.size + 1, e.mostL = x,
           e.mostR = IF h.mostL = NULL THEN x ELSE h.mostR
    PROVE  Chain(g, e, n + 1, PutL(n, s, x))
<1> DEFINE r == PutL(n, s, x)
<1>1. /\ n \in Nat /\ \A i \in 1 .. n : s[i] \in DOMAIN f
      /\ \A i, j \in 1 .. n : s[i] = s[j] => i = j
      /\ h.size = n /\ h.mostL = (IF n = 0 THEN NULL ELSE s[1])
      /\ h.mostR = (IF n = 0 THEN NULL ELSE s[n])
      /\ \A i \in 1 .. n : /\ f[s[i]].L = IF i = 1 THEN NULL ELSE s[i - 1]
                           /\ f[s[i]].R = IF i = n THEN NULL ELSE s[i + 1]
  BY DEF Chain
<1>3. \A i \in 1 .. n + 1 : i = 1 \/ (i - 1 \in 1 .. n /\ i \in Nat /\ i # 1)
  BY <1>1
<1>4. n + 1 \in Nat /\ r \in [1 .. n + 1 -> DOMAIN g]
  <2>1. \A i \in 1 .. n + 1 : (IF i = 1 THEN x ELSE s[i - 1]) \in DOMAIN g
    BY <1>1, <1>3
  <2> QED
    BY <1>1, <2>1 DEF PutL
<1>2. r[1] = x /\ \A i \in 1 .. n + 1 : i # 1 => r[i] = s[i - 1]
  BY <1>1 DEF PutL
<1> HIDE DEF r
<1>5. \A i, j \in 1 .. n + 1 : r[i] = r[j] => i = j
  <2> SUFFICES ASSUME NEW i \in 1 .. n + 1, NEW j \in 1 .. n + 1, r[i] = r[j]
               PROVE  i = j
    OBVIOUS
  <2>1. i # 1 /\ j # 1 => i - 1 = j - 1 /\ i \in Nat /\ j \in Nat
    BY <1>1, <1>2, <1>3
  <2>2. i = 1 <=> j = 1
    BY <1>1, <1>2, <1>3
  <2> QED
    BY <2>1, <2>2
<1>6. /\ e.size = n + 1 /\ e.mostL = (IF n + 1 = 0 THEN NULL ELSE r[1])
      /\ e.mostR = (IF n + 1 = 0 THEN NULL ELSE r[n + 1])
  <2>1. n # 0 => 1 \in 1 .. n /\ n \in 1 .. n /\ n + 1 \in 1 .. n + 1 /\ n + 1 # 1 /\ n + 1 - 1 = n
    BY <1>1
  <2> QED
    BY <1>1, <1>2, <2>1
<1>7. ASSUME NEW i \in 1 .. n + 1
      PROVE  /\ g[r[i]].L = IF i = 1 THEN NULL ELSE r[i - 1]
             /\ g[r[i]].R = IF i = n + 1 THEN NULL ELSE r[i + 1]
  <2>1. CASE i = 1
    <3>1. n # 0 => 1 \in 1 .. n /\ 2 \in 1 .. n + 1 /\ 2 - 1 = 1 /\ 1 + 1 = 2
      BY <1>1
    <3> QED
      BY <1>1, <1>2, <2>1, <3>1
  <2>2. CASE i # 1
    <3>0. PICK k : k = i - 1
      OBVIOUS
    <3>1. k \in 1 .. n /\ i = k + 1 /\ r[i] = s[k] /\ s[k] \in DOMAIN f /\ n # 0
      BY <1>1, <1>2, <1>3, <2>2, <3>0
    <3>2. s[k] = h.mostL <=> k = 1
      <4>1. 1 \in 1 .. n
        BY <1>1, <3>1
      <4> QED
        BY <1>1, <3>1, <4>1
    <3>3. k # 1 => k \in 1 .. n + 1 /\ r[k] = s[k - 1]
      BY <1>1, <1>2, <3>1
    <3>4. k # n => i + 1 \in 1 .. n + 1 /\ i + 1 # 1 /\ r[i + 1] = s[k + 1]
      BY <1>1, <1>2, <3>1
    <3>5. k = 1 => r[i - 1] = x
      BY <1>2, <3>0
    <3>6. i = n + 1 <=> k = n
      BY <1>1, <3>1
    <3> QED
      BY <1>1, <2>2, <3>0, <3>1, <3>2, <3>3, <3>4, <3>5, <3>6
  <2> QED
    BY <2>1, <2>2
<1> QED
  BY <1>4, <1>5, <1>6, <1>7 DEF Chain, r

LEMMA DropChain ==
    ASSUME NEW f, NEW g, NEW h, NEW e, NEW n, NEW s, NEW p \in 1 .. n, NEW x,
           Chain(f, h, n, s), NULL \notin DOMAIN f,
           x = s[p],
           DOMAIN g = DOMAIN f \ {x},
           \A y \in DOMAIN f \ {x} : /\ g[y].R = IF y = f[x].L THEN f[x].R ELSE f[y].R
                                     /\ g[y].L = IF y = f[x].R THEN f[x].L ELSE f[y].L,
           e.size = h.size - 1,
           e.mostL = IF f[x].L = NULL THEN f[x].R ELSE h.mostL,
           e.mostR = IF f[x].R = NULL THEN f[x].L ELSE h.mostR
    PROVE  Chain(g, e, n - 1, Drop(n, s, p))
<1> DEFINE r == Drop(n, s, p)
           o(i) == IF i < p THEN i ELSE i + 1
<1>1. /\ n \in Nat /\ \A i \in 1 .. n : s[i] \in DOMAIN f
      /\ \A i, j \in 1 .. n : s[i] = s[j] => i = j
      /\ h.size = n /\ h.mostL = (IF n = 0 THEN NULL ELSE s[1])
      /\ h.mostR = (IF n = 0 THEN NULL ELSE s[n])
      /\ \A i \in 1 .. n : /\ f[s[i]].L = IF i = 1 THEN NULL ELSE s[i - 1]
                           /\ f[s[i]].R = IF i = n THEN NULL ELSE s[i + 1]
  BY DEF Chain
<1>2. /\ DOMAIN r = 1 .. n - 1 /\ r = [i \in 1 .. n - 1 |-> r[i]]
      /\ \A i \in 1 .. n - 1 : r[i] = s[o(i)]
  BY <1>1 DEF Drop
<1> HIDE DEF r
<1>n. n \in Nat
  BY <1>1
<1>3. /\ p \in Nat /\ 1 <= p /\ p <= n /\ n - 1 \in Nat
      /\ \A i \in 1 .. n - 1 : o(i) \in 1 .. n /\ o(i) # p /\ i \in Nat
      /\ \A i, j \in 1 .. n - 1 : o(i) = o(j) => i = j
  BY <1>1
<1>4. \A i \in 1 .. n - 1 : r[i] \in DOMAIN f /\ r[i] # x
  BY <1>1, <1>2, <1>3
<1>5. r \in [1 .. n - 1 -> DOMAIN g]
  BY <1>2, <1>4
<1>6. \A i, j \in 1 .. n - 1 : r[i] = r[j] => i = j
  BY <1>1, <1>2, <1>3
<1>7. /\ f[x].L = (IF p = 1 THEN NULL ELSE s[p - 1])
      /\ f[x].R = (IF p = n THEN NULL ELSE s[p + 1])
      /\ (p # 1 => p - 1 \in 1 .. n) /\ (p # n => p + 1 \in 1 .. n)
      /\ f[x].L = NULL <=> p = 1
      /\ f[x].R = NULL <=> p = n
  <2>1. (p # 1 => p - 1 \in 1 .. n) /\ (p # n => p + 1 \in 1 .. n)
    BY <1>1, <1>3
  <2> QED
    BY <1>1, <2>1
<1>8. /\ e.size = n - 1
      /\ e.mostL = IF n - 1 = 0 THEN NULL ELSE r[1]
      /\ e.mostR = IF n - 1 = 0 THEN NULL ELSE r[n - 1]
  <2>1. n - 1 # 0 => 1 \in 1 .. n - 1 /\ n - 1 \in 1 .. n - 1
    BY <1>n
  <2>2. n - 1 # 0 => /\ r[1] = s[IF p = 1 THEN 2 ELSE 1]
                     /\ r[n - 1] = s[IF p = n THEN n - 1 ELSE n]
    BY <1>1, <1>2, <1>3, <2>1
  <2>3. n - 1 = 0 => p = 1 /\ p = n
    BY <1>1, <1>3
  <2> QED
    BY <1>1, <1>3, <1>7, <2>2, <2>3
<1>9. ASSUME NEW i \in 1 .. n - 1
      PROVE  /\ g[r[i]].L = IF i = 1 THEN NULL ELSE r[i - 1]
             /\ g[r[i]].R = IF i = n - 1 THEN NULL ELSE r[i + 1]
  <2>0. PICK k : k = o(i)
    OBVIOUS
  <2>1. k \in 1 .. n /\ k # p /\ r[i] = s[k] /\ s[k] \in DOMAIN f \ {x} /\ i \in Nat /\ k \in Nat
    BY <1>1, <1>2, <1>3, <1>4, <2>0
  <2>2. /\ g[r[i]].R = IF s[k] = f[x].L THEN f[x].R ELSE f[s[k]].R
        /\ g[r[i]].L = IF s[k] = f[x].R THEN f[x].L ELSE f[s[k]].L
    BY <2>1
  <2>3. /\ s[k] = f[x].L <=> k = p - 1
        /\ s[k] = f[x].R <=> k = p + 1
    <3>1. p = 1 => f[x].L = NULL /\ s[k] # NULL /\ k # p - 1
      BY <1>7, <2>1
    <3>2. p = n => f[x].R = NULL /\ s[k] # NULL /\ k # p + 1
      BY <1>1, <1>7, <2>1
    <3> QED
      BY <1>1, <1>7, <2>1, <3>1, <3>2
  <2>4. i # 1 => i - 1 \in 1 .. n - 1 /\ r[i - 1] = s[o(i - 1)]
    BY <1>2, <1>3
  <2>5. i # n - 1 => i + 1 \in 1 .. n - 1 /\ r[i + 1] = s[o(i + 1)]
    BY <1>2, <1>3
  <2>6. /\ f[s[k]].L = IF k = 1 THEN NULL ELSE s[k - 1]
        /\ f[s[k]].R = IF k = n THEN NULL ELSE s[k + 1]
    BY <1>1, <2>1
  <2>7. g[r[i]].L = IF i = 1 THEN NULL ELSE r[i - 1]
    <3>1. CASE k = p + 1
      <4>1. i = p
        BY <1>3, <2>0, <2>1, <3>1
      <4>2. i # 1 => o(i - 1) = p - 1
        BY <1>3, <4>1
      <4> QED
        BY <1>7, <2>2, <2>3, <2>4, <3>1, <4>1, <4>2
    <3>2. CASE k # p + 1
      <4>1. i = 1 => k = 1
        BY <1>3, <2>0, <2>1, <3>2
      <4>2. i # 1 => k # 1 /\ o(i - 1) = k - 1
        BY <1>3, <2>0, <2>1, <3>2
      <4> QED
        BY <2>2, <2>3, <2>4, <2>6, <3>2, <4>1, <4>2
    <3> QED
      BY <3>1, <3>2
  <2>8. g[r[i]].R = IF i = n - 1 THEN NULL ELSE r[i + 1]
    <3>1. CASE k = p - 1
      <4>1. i = p - 1
        BY <1>3, <2>0, <2>1, <3>1
      <4>2. i # n - 1 => o(i + 1) = p + 1 /\ p # n
        BY <1>1, <1>3, <4>1
      <4>3. i = n - 1 => p = n
        BY <1>1, <1>3, <4>1
      <4> QED
        BY <1>7, <2>2, <2>3, <2>5, <3>1, <4>2, <4>3
    <3>2. CASE k # p - 1
      <4>1. i = n - 1 => k = n
        BY <1>1, <1>3, <2>0, <2>1, <3>2
      <4>2. i # n - 1 => k # n /\ o(i + 1) = k + 1
        BY <1>1, <1>3, <2>0, <2>1, <3>2
      <4> QED
        BY <2>2, <2>3, <2>5, <2>6, <3>2, <4>1, <4>2
    <3> QED
      BY <3>1, <3>2
  <2> QED
    BY <2>7, <2>8
<1> QED
  BY <1>3, <1>5, <1>6, <1>8, <1>9 DEF Chain, r

(* A chain that the operation does not touch. *)
LEMMA KeepChain ==
    ASSUME NEW f, NEW g, NEW h, NEW e, NEW n, NEW s,
           Chain(f, h, n, s),
           \A i \in 1 .. n : s[i] \in DOMAIN g /\ g[s[i]].L = f[s[i]].L /\ g[s[i]].R = f[s[i]].R,
           e.size = h.size, e.mostL = h.mostL, e.mostR = h.mostR
    PROVE  Chain(g, e, n, s)
<1>1. n \in Nat /\ s \in [1 .. n -> DOMAIN f] /\ \A i, j \in 1 .. n : s[i] = s[j] => i = j
  BY DEF Chain
<1>2. s \in [1 .. n -> DOMAIN g]
  BY <1>1
<1>3. /\ h.size = n
      /\ h.mostL = IF n = 0 THEN NULL ELSE s[1]
      /\ h.mostR = IF n = 0 THEN NULL ELSE s[n]
  BY DEF Chain
<1>4. \A i \in 1 .. n : /\ f[s[i]].L = IF i = 1 THEN NULL ELSE s[i - 1]
                        /\ f[s[i]].R = IF i = n THEN NULL ELSE s[i + 1]
  BY DEF Chain
<1>5. \A i \in 1 .. n : /\ g[s[i]].L = IF i = 1 THEN NULL ELSE s[i - 1]
                        /\ g[s[i]].R = IF i = n THEN NULL ELSE s[i + 1]
  <2> SUFFICES ASSUME NEW i \in 1 .. n
               PROVE  /\ g[s[i]].L = IF i = 1 THEN NULL ELSE s[i - 1]
                      /\ g[s[i]].R = IF i = n THEN NULL ELSE s[i + 1]
    OBVIOUS
  <2>1. g[s[i]].L = f[s[i]].L /\ g[s[i]].R = f[s[i]].R
    OBVIOUS
  <2> QED
    BY <1>4, <2>1
<1>6. /\ e.size = n
      /\ e.mostL = IF n = 0 THEN NULL ELSE s[1]
      /\ e.mostR = IF n = 0 THEN NULL ELSE s[n]
  BY <1>3
<1> QED
  BY <1>1, <1>2, <1>5, <1>6 DEF Chain

------------------------------------------------------------------------------
(* Sets of numbers have a least element. *)

LEMMA NatMin ==
    ASSUME NEW S \in SUBSET Nat, S # {}
    PROVE  \E m \in S : \A n \in S : m <= n
<1> DEFINE F == {0 .. n : n \in S}
<1>1. IsWellFoundedOn(StrictSubsetOrdering(Nat), FiniteSubsetsOf(Nat))
  BY FS_StrictSubsetOrderingWellFounded
<1>2. F \subseteq FiniteSubsetsOf(Nat)
  <2>1. ASSUME NEW n \in S PROVE IsFiniteSet(0 .. n)
    BY FS_Interval
  <2> QED
    BY <2>1 DEF FiniteSubsetsOf
<1>3. PICK X \in F : \A Y \in F : ~ (<<Y, X>> \in StrictSubsetOrdering(Nat))
  <2>1. F # {}
    OBVIOUS
  <2> HIDE DEF F
  <2> QED
    BY <1>1, <1>2, <2>1, WFMin
<1>4. PICK m \in S : X = 0 .. m
  OBVIOUS
<1>5. ASSUME NEW n \in S, n < m PROVE FALSE
  <2>1. <<0 .. n, 0 .. m>> \in StrictSubsetOrdering(Nat)
    <3>1. 0 .. n \in SUBSET Nat /\ 0 .. m \in SUBSET Nat
      OBVIOUS
    <3>2. 0 .. n \subseteq 0 .. m /\ m \in 0 .. m /\ m \notin 0 .. n
      BY <1>5
    <3> QED
      BY <3>1, <3>2 DEF StrictSubsetOrdering
  <2> QED
    BY <1>3, <1>4, <2>1
<1> QED
  BY <1>5

(* What holds at the end, and at i when at i + 1, holds everywhere. *)
LEMMA Backwards ==
    ASSUME NEW n \in Nat, NEW S, n + 1 \in S,
           \A i \in 1 .. n : i + 1 \in S => i \in S
    PROVE  \A i \in 1 .. n + 1 : i \in S
<1> DEFINE B == {d \in 0 .. n : n + 1 - d \notin S}
<1>1. B = {}
  <2> SUFFICES ASSUME B # {} PROVE FALSE
    OBVIOUS
  <2>1. B \in SUBSET Nat
    OBVIOUS
  <2>2. PICK m \in B : \A d \in B : m <= d
    <3> HIDE DEF B
    <3> QED
      BY <2>1, NatMin
  <2>3. m \in 0 .. n /\ n + 1 - m \notin S
    BY <2>2
  <2>4. m # 0
    BY <2>3
  <2>5. m - 1 \in 0 .. n /\ m - 1 \notin B
    BY <2>2, <2>3, <2>4
  <2>6. n + 1 - (m - 1) \in S
    BY <2>5
  <2>7. n + 1 - (m - 1) = (n + 1 - m) + 1 /\ n + 1 - m \in 1 .. n
    BY <2>3, <2>4
  <2> QED
    BY <2>3, <2>6, <2>7
<1>2. ASSUME NEW i \in 1 .. n + 1 PROVE i \in S
  <2>1. n + 1 - i \in 0 .. n /\ n + 1 - (n + 1 - i) = i
    OBVIOUS
  <2>2. n + 1 - i \notin B
    BY <1>1, Zenon
  <2>3. n + 1 - (n + 1 - i) \in S
    BY <2>1, <2>2, Zenon
  <2> QED
    BY <2>1, <2>3, Zenon
<1> QED
  BY <1>2

(* The order of the sequence of a chain that is read to the right. *)
Rights(f, w) ==
    w = [y \in DOMAIN f \cup {NULL} |-> IF y = NULL THEN <<>> ELSE <<y>> \o w[f[y].R]]

LEMMA Prefixed ==
    ASSUME NEW U, NEW x \in U, NEW q \in Seq(U)
    PROVE  <<x>> \o q = [j \in 1 .. 1 + Len(q) |-> IF j = 1 THEN x ELSE q[j - 1]]
<1>1. Len(<<x>>) = 1 /\ <<x>> \in Seq(U) /\ <<x>>[1] = x /\ Len(q) \in Nat
  OBVIOUS
<1>2. <<x>> \o q \in Seq(U) /\ Len(<<x>> \o q) = 1 + Len(q)
  BY <1>1
<1>3. DOMAIN (<<x>> \o q) = 1 .. 1 + Len(q)
  BY <1>2
<1>4. \A j \in 1 .. 1 + Len(q) : (<<x>> \o q)[j] = IF j = 1 THEN x ELSE q[j - 1]
  OBVIOUS
<1>5. <<x>> \o q = [j \in DOMAIN (<<x>> \o q) |-> (<<x>> \o q)[j]]
  BY <1>2
<1> QED
  BY <1>3, <1>4, <1>5

LEMMA RightIs ==
    ASSUME NEW f, NEW w, Rights(f, w), NULL \notin DOMAIN f,
           NEW h, NEW n, NEW s, Chain(f, h, n, s)
    PROVE  Right(f, h.mostL) = s
<1>1. Rights(f, CHOOSE v : Rights(f, v))
  BY Zenon
<1>2. Right(f, h.mostL) = (CHOOSE v : Rights(f, v))[h.mostL]
  BY Zenon DEF Right, Rights
<1>3. PICK v : Rights(f, v) /\ Right(f, h.mostL) = v[h.mostL]
  <2> HIDE DEF Rights
  <2> QED
    BY <1>1, <1>2
<1>4. /\ DOMAIN v = DOMAIN f \cup {NULL}
      /\ v[NULL] = <<>>
      /\ \A y \in DOMAIN f : v[y] = <<y>> \o v[f[y].R]
  BY <1>3 DEF Rights
<1>5. /\ n \in Nat /\ s \in [1 .. n -> DOMAIN f]
      /\ h.mostL = IF n = 0 THEN NULL ELSE s[1]
      /\ \A i \in 1 .. n : f[s[i]].R = IF i = n THEN NULL ELSE s[i + 1]
  BY DEF Chain
<1> DEFINE pt(i)  == IF i = n + 1 THEN NULL ELSE s[i]
           suf(i) == [j \in 1 .. n + 1 - i |-> s[i + j - 1]]
           S      == {i \in 1 .. n + 1 : v[pt(i)] = suf(i)}
<1>6. n + 1 \in S
  <2>1. suf(n + 1) = <<>>
    BY <1>5
  <2> QED
    BY <1>4, <1>5, <2>1
<1>7. ASSUME NEW i \in 1 .. n, i + 1 \in S PROVE i \in S
  <2>1. v[pt(i + 1)] = suf(i + 1)
    BY <1>7
  <2>2. s[i] \in DOMAIN f /\ f[s[i]].R = pt(i + 1) /\ pt(i) = s[i]
    BY <1>5
  <2>3. <<s[i]>> \o suf(i + 1) = suf(i)
    <3>1. suf(i + 1) \in Seq(DOMAIN f) /\ Len(suf(i + 1)) = n - i
      <4>1. n - i \in Nat /\ 1 .. n + 1 - (i + 1) = 1 .. n - i
        BY <1>5
      <4>2. \A j \in 1 .. n - i : i + 1 + j - 1 \in 1 .. n
        BY <1>5
      <4> QED
        BY <1>5, <4>1, <4>2
    <3>2. \A j \in 1 .. n - i : suf(i + 1)[j] = s[i + j]
      BY <1>5
    <3>3. 1 .. 1 + (n - i) = 1 .. n + 1 - i
      BY <1>5
    <3> HIDE DEF suf
    <3>4. <<s[i]>> \o suf(i + 1) = [j \in 1 .. 1 + (n - i) |-> IF j = 1 THEN s[i] ELSE suf(i + 1)[j - 1]]
      BY <2>2, <3>1, Prefixed
    <3>5. \A j \in 1 .. n + 1 - i : (IF j = 1 THEN s[i] ELSE suf(i + 1)[j - 1]) = s[i + j - 1]
      BY <1>5, <3>2
    <3> QED
      BY <3>3, <3>4, <3>5 DEF suf
  <2>4. v[pt(i)] = suf(i)
    <3> HIDE DEF pt, suf
    <3>1. v[s[i]] = <<s[i]>> \o v[f[s[i]].R]
      BY <1>4, <2>2
    <3>2. v[s[i]] = <<s[i]>> \o suf(i + 1)
      BY <2>1, <2>2, <3>1, Zenon
    <3> QED
      BY <2>2, <2>3, <3>2, Zenon
  <2>5. i \in 1 .. n + 1
    BY <1>5
  <2> QED
    BY <2>4, <2>5
<1>8. 1 \in S
  <2> HIDE DEF S
  <2>1. \A i \in 1 .. n + 1 : i \in S
    BY <1>5, <1>6, <1>7, Backwards
  <2> QED
    BY <1>5, <2>1
<1>9. v[h.mostL] = suf(1)
  BY <1>5, <1>8
<1>10. suf(1) = s
  BY <1>5
<1> QED
  BY <1>3, <1>9, <1>10

(* Every element of f is on one of the chains ch[d] of the headers hd[d]. *)
OnChains(f, D, hd, ch) ==
    /\ \A d \in D : Chain(f, hd[d], hd[d].size, ch[d])
    /\ \A d, c \in D : \A i \in 1 .. hd[d].size, j \in 1 .. hd[c].size :
           ch[d][i] = ch[c][j] => d = c
    /\ \A y \in DOMAIN f : \E d \in D : \E i \in 1 .. hd[d].size : ch[d][i] = y

(* Then the recursion has a solution. *)
LEMMA SuffixesExist ==
    ASSUME NEW f, NULL \notin DOMAIN f, NEW D, NEW hd, NEW ch, OnChains(f, D, hd, ch)
    PROVE  \E w : Rights(f, w)
<1> DEFINE len(d) == hd[d].size
           own(y) == CHOOSE d \in D : \E i \in 1 .. len(d) : ch[d][i] = y
           pos(y) == CHOOSE i \in 1 .. len(own(y)) : ch[own(y)][i] = y
           suf(d, i) == [j \in 1 .. len(d) + 1 - i |-> ch[d][i + j - 1]]
           w == [y \in DOMAIN f \cup {NULL} |->
                    IF y = NULL THEN <<>> ELSE suf(own(y), pos(y))]
<1>0. /\ \A d \in D : Chain(f, hd[d], hd[d].size, ch[d])
      /\ \A d, c \in D : \A i \in 1 .. len(d), j \in 1 .. len(c) : ch[d][i] = ch[c][j] => d = c
      /\ \A y \in DOMAIN f : \E d \in D : \E i \in 1 .. len(d) : ch[d][i] = y
  BY DEF OnChains
<1>1. ASSUME NEW d \in D
      PROVE  /\ len(d) \in Nat /\ ch[d] \in [1 .. len(d) -> DOMAIN f]
             /\ \A i, j \in 1 .. len(d) : ch[d][i] = ch[d][j] => i = j
             /\ \A i \in 1 .. len(d) : f[ch[d][i]].R = IF i = len(d) THEN NULL ELSE ch[d][i + 1]
  <2>1. Chain(f, hd[d], len(d), ch[d])
    BY <1>0
  <2> HIDE DEF len
  <2> QED
    BY <2>1 DEF Chain
<1>2. ASSUME NEW y \in DOMAIN f
      PROVE  own(y) \in D /\ pos(y) \in 1 .. len(own(y)) /\ ch[own(y)][pos(y)] = y
  <2>1. \E d \in D : \E i \in 1 .. len(d) : ch[d][i] = y
    BY <1>0
  <2>2. own(y) \in D /\ \E i \in 1 .. len(own(y)) : ch[own(y)][i] = y
    <3> HIDE DEF len
    <3> QED
      BY <2>1, Zenon
  <2> HIDE DEF own, len
  <2> QED
    BY <2>2, Zenon
<1>3. ASSUME NEW d \in D, NEW i \in 1 .. len(d)
      PROVE  own(ch[d][i]) = d /\ pos(ch[d][i]) = i
  <2>0. ch[d][i] \in DOMAIN f
    BY <1>1
  <2> DEFINE y == ch[d][i]
  <2>1. own(y) \in D /\ pos(y) \in 1 .. len(own(y)) /\ ch[own(y)][pos(y)] = y
    <3> HIDE DEF own, len, pos
    <3> QED
      BY <1>2, <2>0
  <2>2. own(y) = d
    <3> HIDE DEF own, pos, len
    <3> QED
      BY <1>0, <2>1
  <2>3. pos(y) = i
    <3> HIDE DEF own, len, pos
    <3> QED
      BY <1>1, <2>1, <2>2
  <2> QED
    BY <2>2, <2>3
<1>4. ASSUME NEW d \in D, NEW i \in 1 .. len(d), i # len(d)
      PROVE  suf(d, i) = <<ch[d][i]>> \o suf(d, i + 1)
  <2>0. PICK z, c, m : z = len(d) /\ c = ch[d] /\ m = z - i
    OBVIOUS
  <2>1. z \in Nat /\ c \in [1 .. z -> DOMAIN f] /\ i \in 1 .. z /\ i # z
    <3> HIDE DEF len
    <3> QED
      BY <1>1, <1>4, <2>0
  <2>2. m \in Nat /\ 1 .. m = 1 .. z + 1 - (i + 1) /\ 1 .. 1 + m = 1 .. z + 1 - i
    BY <2>0, <2>1
  <2>3. c[i] \in DOMAIN f /\ \A j \in 1 .. m : i + j \in 1 .. z /\ i + 1 + j - 1 = i + j
    BY <2>0, <2>1
  <2>4. suf(d, i + 1) = [j \in 1 .. m |-> c[i + j]] /\ suf(d, i) = [j \in 1 .. 1 + m |-> c[i + j - 1]]
    <3> HIDE DEF len
    <3>1. suf(d, i + 1) = [j \in 1 .. z + 1 - (i + 1) |-> c[i + 1 + j - 1]]
      BY <2>0
    <3>2. suf(d, i) = [j \in 1 .. z + 1 - i |-> c[i + j - 1]]
      BY <2>0
    <3> HIDE DEF suf, own, pos, w
    <3>3. suf(d, i + 1) = [j \in 1 .. m |-> c[i + 1 + j - 1]]
      BY <2>2, <3>1, Zenon
    <3>4. [j \in 1 .. m |-> c[i + 1 + j - 1]] = [j \in 1 .. m |-> c[i + j]]
      BY <2>3
    <3>5. suf(d, i) = [j \in 1 .. 1 + m |-> c[i + j - 1]]
      BY <2>2, <3>2, Zenon
    <3> QED
      BY <3>3, <3>4, <3>5
  <2>5. PICK q : q = suf(d, i + 1)
    OBVIOUS
  <2> HIDE DEF suf, len, own, pos, w
  <2>6. q \in Seq(DOMAIN f) /\ Len(q) = m /\ \A j \in 1 .. m : q[j] = c[i + j]
    BY <2>1, <2>2, <2>3, <2>4, <2>5
  <2>7. <<c[i]>> \o q = [j \in 1 .. 1 + m |-> IF j = 1 THEN c[i] ELSE q[j - 1]]
    BY <2>3, <2>6, Prefixed
  <2>8. \A j \in 1 .. 1 + m : (IF j = 1 THEN c[i] ELSE q[j - 1]) = c[i + j - 1]
    <3>1. i + 1 - 1 = i
      BY <2>1
    <3>2. \A j \in 1 .. 1 + m : j # 1 => j - 1 \in 1 .. m /\ i + (j - 1) = i + j - 1
      BY <2>1, <2>2
    <3> QED
      BY <2>6, <3>1, <3>2
  <2> QED
    BY <2>0, <2>4, <2>5, <2>7, <2>8
<1>5. ASSUME NEW d \in D, NEW i \in 1 .. len(d), i = len(d)
      PROVE  suf(d, i) = <<ch[d][i]>> \o <<>>
  <2>1. ch[d][i] \in DOMAIN f /\ len(d) + 1 - i = 1
    BY <1>1, <1>5
  <2>2. <<ch[d][i]>> \o <<>> = <<ch[d][i]>>
    BY <2>1
  <2>3. suf(d, i) = [j \in 1 .. 1 |-> ch[d][i + j - 1]]
    BY <2>1
  <2>4. \A j \in 1 .. 1 : ch[d][i + j - 1] = ch[d][i]
    BY <1>1
  <2> QED
    BY <2>2, <2>3, <2>4
<1>6. ASSUME NEW y \in DOMAIN f
      PROVE  w[y] = <<y>> \o w[f[y].R]
  <2>1. PICK d, i : d = own(y) /\ i = pos(y)
    OBVIOUS
  <2>2. d \in D /\ i \in 1 .. len(d) /\ ch[d][i] = y
    <3> HIDE DEF own, len, pos
    <3> QED
      BY <1>2, <2>1
  <2>3. y # NULL /\ w[y] = suf(d, i)
    <3> HIDE DEF own, pos, suf
    <3> QED
      BY <2>1
  <2>4. CASE i = len(d)
    <3>1. f[y].R = NULL
      BY <1>1, <2>2, <2>4
    <3>2. w[f[y].R] = <<>>
      BY <3>1
    <3> HIDE DEF w, suf, own, pos
    <3> QED
      BY <1>5, <2>2, <2>3, <2>4, <3>2
  <2>5. CASE i # len(d)
    <3>1. i + 1 \in 1 .. len(d)
      BY <1>1, <2>2, <2>5
    <3>2. f[y].R = ch[d][i + 1] /\ ch[d][i + 1] \in DOMAIN f
      BY <1>1, <2>2, <2>5, <3>1
    <3>3. own(f[y].R) = d /\ pos(f[y].R) = i + 1
      <4> HIDE DEF own, pos, len
      <4> QED
        BY <1>3, <2>2, <3>1, <3>2
    <3>4. w[f[y].R] = suf(d, i + 1)
      <4> HIDE DEF own, pos, suf
      <4> QED
        BY <3>2, <3>3
    <3> HIDE DEF w, suf, own, pos, len
    <3> QED
      BY <1>4, <2>2, <2>3, <2>5, <3>4
  <2> QED
    BY <2>4, <2>5
<1>7. w = [y \in DOMAIN f \cup {NULL} |-> IF y = NULL THEN <<>> ELSE <<y>> \o w[f[y].R]]
  <2> HIDE DEF suf, own, pos
  <2>1. w = [y \in DOMAIN f \cup {NULL} |-> w[y]] /\ w[NULL] = <<>>
    OBVIOUS
  <2> HIDE DEF w
  <2>2. \A y \in DOMAIN f \cup {NULL} : w[y] = IF y = NULL THEN <<>> ELSE <<y>> \o w[f[y].R]
    BY <1>6, <2>1
  <2> QED
    BY <2>1, <2>2
<1> QED
  <2> HIDE DEF w
  <2> QED
    BY <1>7 DEF Rights

------------------------------------------------------------------------------
(* The inductive invariant. *)

(* The lists of the table, all of them, in the order s. *)
ListChain(n, s) ==
    /\ Chain(list, T, n, s)
    /\ \A l \in DOMAIN list : \E i \in 1 .. n : s[i] = l

(* The nodes of each list l in the order ch[l]; every node is in one list. *)
NodeChains(ch) == OnChains(node, DOMAIN list, list, ch)

Holding == {"find", "findBack", "push", "pushBack", "take", "drop", "unlock"}

(* One thread at most is between lock and unlock, and each is where its    *)
(* calls allow it.                                                         *)
Exclusive ==
    /\ \A t, u \in mutex : t = u
    /\ \A t \in Threads : pc[t] \in Holding <=> t \in mutex

Placed ==
    \A t \in Threads :
        /\ pc[t] \in {"put", "putBack", "find", "findBack", "push", "pushBack"} => key[t] \in Keys
        /\ pc[t] \in {"get", "take", "drop"} => t \in Getters
        /\ pc[t] \in {"size", "sizeNext"} => t \in Counters
        /\ pc[t] \in {"sizeNext", "push", "pushBack", "drop"} => L[t] # NULL
        /\ pc[t] # "idle" => calls[t] < Calls
        /\ pc[t] = "drop" => T.cur # L[t]

EmptyHeld ==
    \A l \in DOMAIN list : list[l].mostL = NULL =>
        \E t \in Threads : L[t] = l /\ pc[t] \in {"push", "pushBack", "drop"}

Counted ==
    memUsage = TableSize + ListSize * Cardinality(DOMAIN list) + NodeSize * Cardinality(DOMAIN node)

Chained == (\E n, s : ListChain(n, s)) /\ (\E ch : NodeChains(ch))

IndInv ==
    /\ TypeOK /\ Exclusive /\ Placed /\ NoDanglingList
    /\ Chained /\ EmptyHeld /\ Counted /\ OneListPerKey

------------------------------------------------------------------------------
(* What the chains say of Find and of AllLinked. *)

Finds(k, v) ==
    v = [l \in DOMAIN list \cup {NULL} |->
            IF l = NULL \/ list[l].key = k THEN l ELSE v[list[l].R]]

LEMMA FindFacts ==
    ASSUME NEW k, NEW n, NEW s, ListChain(n, s), NULL \notin DOMAIN list
    PROVE  /\ Find(k) # NULL => Find(k) \in DOMAIN list /\ list[Find(k)].key = k
           /\ Find(k) # NULL => \E i \in 1 .. n : /\ s[i] = Find(k)
                                                 /\ \A h \in 1 .. i - 1 : list[s[h]].key # k
           /\ Find(k) = NULL => \A l \in DOMAIN list : list[l].key # k
<1>1. /\ n \in Nat /\ s \in [1 .. n -> DOMAIN list]
      /\ \A i, j \in 1 .. n : s[i] = s[j] => i = j
      /\ T.mostL = IF n = 0 THEN NULL ELSE s[1]
      /\ \A i \in 1 .. n : list[s[i]].R = IF i = n THEN NULL ELSE s[i + 1]
      /\ \A l \in DOMAIN list : \E i \in 1 .. n : s[i] = l
  BY DEF ListChain, Chain
<1> DEFINE hits(i) == {j \in i .. n : list[s[j]].key = k}
           leastOf(M) == CHOOSE m \in M : \A j \in M : m <= j
           first(i) == IF hits(i) = {} THEN NULL ELSE s[leastOf(hits(i))]
           pos(l)   == CHOOSE i \in 1 .. n : s[i] = l
           w        == [l \in DOMAIN list \cup {NULL} |-> IF l = NULL THEN NULL ELSE first(pos(l))]
<1>2. ASSUME NEW i \in 1 .. n, list[s[i]].key = k
      PROVE  first(i) = s[i]
  <2>1. i \in hits(i) /\ hits(i) \subseteq Nat /\ \A j \in hits(i) : i <= j
    BY <1>1, <1>2
  <2>2. \A m \in hits(i) : (\A j \in hits(i) : m <= j) => m = i
    <3> HIDE DEF hits
    <3> QED
      BY <2>1
  <2>3. leastOf(hits(i)) = i
    <3> HIDE DEF hits
    <3> QED
      BY <2>1, <2>2
  <2> HIDE DEF leastOf, hits
  <2> QED
    BY <2>1, <2>3
<1>3. ASSUME NEW i \in 1 .. n, list[s[i]].key # k
      PROVE  first(i) = first(i + 1)
  <2>1. hits(i) = hits(i + 1)
    BY <1>1, <1>3
  <2> HIDE DEF leastOf, hits
  <2> QED
    BY <2>1
<1>4. first(n + 1) = NULL
  <2>1. hits(n + 1) = {}
    BY <1>1
  <2> HIDE DEF leastOf, hits
  <2> QED
    BY <2>1
<1>5. ASSUME NEW l \in DOMAIN list
      PROVE  /\ pos(l) \in 1 .. n /\ s[pos(l)] = l
             /\ \A i \in 1 .. n : s[i] = l => pos(l) = i
  BY <1>1
<1>6. Finds(k, w)
  <2> HIDE DEF first, pos
  <2>1. w = [l \in DOMAIN list \cup {NULL} |-> w[l]] /\ w[NULL] = NULL
        /\ \A l \in DOMAIN list : w[l] = first(pos(l))
    OBVIOUS
  <2> HIDE DEF w
  <2>2. ASSUME NEW l \in DOMAIN list
        PROVE  w[l] = IF list[l].key = k THEN l ELSE w[list[l].R]
    <3>1. PICK i \in 1 .. n : i = pos(l) /\ s[i] = l
      BY <1>5
    <3>2. CASE list[l].key = k
      BY <1>2, <2>1, <3>1, <3>2
    <3>3. CASE list[l].key # k
      <4>1. w[l] = first(i + 1)
        BY <1>3, <2>1, <3>1, <3>3
      <4>2. i = n => list[l].R = NULL /\ w[list[l].R] = first(i + 1)
        BY <1>1, <1>4, <2>1, <3>1
      <4>3. i # n => list[l].R = s[i + 1] /\ i + 1 \in 1 .. n
        BY <1>1, <3>1
      <4>4. i # n => w[list[l].R] = first(i + 1)
        BY <1>1, <1>5, <2>1, <4>3
      <4> QED
        BY <3>3, <4>1, <4>2, <4>4
    <3> QED
      BY <3>2, <3>3
  <2>3. \A l \in DOMAIN list \cup {NULL} :
            w[l] = IF l = NULL \/ list[l].key = k THEN l ELSE w[list[l].R]
    BY <2>1, <2>2
  <2> QED
    BY <2>1, <2>3 DEF Finds
<1>7. PICK v : Finds(k, v) /\ Find(k) = v[T.mostL]
  <2>1. Finds(k, CHOOSE v : Finds(k, v))
    <3> HIDE DEF w
    <3> QED
      BY <1>6, Zenon
  <2>2. Find(k) = (CHOOSE v : Finds(k, v))[T.mostL]
    BY Zenon DEF Find, Finds
  <2> QED
    BY <2>1, <2>2
<1>8. /\ v[NULL] = NULL
      /\ \A l \in DOMAIN list : v[l] = IF list[l].key = k THEN l ELSE v[list[l].R]
  <2> HIDE DEF w
  <2> QED
    BY <1>7 DEF Finds
<1> HIDE DEF hits, leastOf, first, pos, w
<1> DEFINE pt(i) == IF i = n + 1 THEN NULL ELSE s[i]
           S == {i \in 1 .. n + 1 :
                   /\ v[pt(i)] # NULL =>
                        \E j \in i .. n : /\ s[j] = v[pt(i)] /\ list[s[j]].key = k
                                          /\ \A h \in i .. j - 1 : list[s[h]].key # k
                   /\ v[pt(i)] = NULL => \A j \in i .. n : list[s[j]].key # k}
<1>9. n + 1 \in S
  BY <1>1, <1>8
<1>10. ASSUME NEW i \in 1 .. n, i + 1 \in S PROVE i \in S
  <2>1. pt(i) = s[i] /\ s[i] \in DOMAIN list /\ list[s[i]].R = pt(i + 1) /\ s[i] # NULL
    BY <1>1
  <2>2. CASE list[s[i]].key = k
    <3>1. v[pt(i)] = s[i]
      BY <1>8, <2>1, <2>2
    <3>2. i \in i .. n /\ i .. i - 1 = {} /\ i \in 1 .. n + 1
      BY <1>1
    <3> QED
      BY <1>1, <2>1, <2>2, <3>1, <3>2
  <2>3. CASE list[s[i]].key # k
    <3>1. v[pt(i)] = v[pt(i + 1)]
      <4> HIDE DEF pt
      <4> QED
        BY <1>8, <2>1, <2>3
    <3>2. \A j \in i .. n : j = i \/ j \in i + 1 .. n
      BY <1>1
    <3>3. i \in 1 .. n + 1
      BY <1>1
    <3>4. \A j \in i + 1 .. n : j \in i .. n /\ \A h \in i .. j - 1 : h = i \/ h \in i + 1 .. j - 1
      BY <1>1
    <3> HIDE DEF pt
    <3>5. ASSUME v[pt(i)] # NULL
          PROVE  \E j \in i .. n : /\ s[j] = v[pt(i)] /\ list[s[j]].key = k
                                   /\ \A h \in i .. j - 1 : list[s[h]].key # k
      <4>1. PICK j \in i + 1 .. n : /\ s[j] = v[pt(i + 1)] /\ list[s[j]].key = k
                                    /\ \A h \in i + 1 .. j - 1 : list[s[h]].key # k
        BY <1>10, <3>1, <3>5
      <4> QED
        BY <2>3, <3>1, <3>4, <4>1
    <3> QED
      BY <1>10, <2>3, <3>1, <3>2, <3>3, <3>5
  <2> QED
    BY <2>2, <2>3
<1>11. 1 \in S
  <2> HIDE DEF S
  <2>1. \A i \in 1 .. n + 1 : i \in S
    BY <1>1, <1>9, <1>10, Backwards
  <2> QED
    BY <1>1, <2>1
<1>12. pt(1) = T.mostL
  BY <1>1
<1> QED
  <2> HIDE DEF pt
  <2>1. Find(k) # NULL => \E j \in 1 .. n : /\ s[j] = Find(k) /\ list[s[j]].key = k
                                            /\ \A h \in 1 .. j - 1 : list[s[h]].key # k
    BY <1>7, <1>11, <1>12
  <2>2. Find(k) = NULL => \A l \in DOMAIN list : list[l].key # k
    <3>1. Find(k) = NULL => \A j \in 1 .. n : list[s[j]].key # k
      BY <1>7, <1>11, <1>12
    <3> QED
      BY <1>1, <3>1
  <2>3. Find(k) # NULL => Find(k) \in DOMAIN list /\ list[Find(k)].key = k
    BY <1>1, <2>1
  <2> QED
    BY <2>1, <2>2, <2>3

LEMMA ChainLinked ==
    ASSUME NEW f, NEW w, Rights(f, w), NULL \notin DOMAIN f,
           NEW h, NEW n, NEW s, Chain(f, h, n, s)
    PROVE  LinkedFrom(h, f) /\ Elements(Right(f, h.mostL)) = {s[i] : i \in 1 .. n}
<1>1. Right(f, h.mostL) = s
  BY RightIs
<1>2. /\ n \in Nat /\ s \in [1 .. n -> DOMAIN f]
      /\ h.size = n
      /\ h.mostL = IF n = 0 THEN NULL ELSE s[1]
      /\ h.mostR = IF n = 0 THEN NULL ELSE s[n]
  BY DEF Chain
<1>3. \A i \in 1 .. n : /\ f[s[i]].L = IF i = 1 THEN NULL ELSE s[i - 1]
                        /\ f[s[i]].R = IF i = n THEN NULL ELSE s[i + 1]
  BY DEF Chain
<1>4. Len(s) = n /\ DOMAIN s = 1 .. n
  BY <1>2
<1>5. n # 0 => 1 \in 1 .. n /\ n \in 1 .. n
  BY <1>2
<1>6. /\ h.mostL = NULL <=> h.mostR = NULL
      /\ h.mostL # NULL => h.mostL \in DOMAIN f /\ f[h.mostL].L = NULL
      /\ h.mostR # NULL => h.mostR \in DOMAIN f /\ f[h.mostR].R = NULL
  BY <1>2, <1>3, <1>5
<1>7. /\ Len(s) = h.size
      /\ Len(s) > 0 => s[Len(s)] = h.mostR
      /\ \A j \in 2 .. Len(s) : f[s[j]].L = s[j - 1]
  BY <1>2, <1>3, <1>4
<1>8. LinkedFrom(h, f)
  BY <1>1, <1>6, <1>7 DEF LinkedFrom
<1>9. Elements(Right(f, h.mostL)) = {s[i] : i \in 1 .. n}
  BY <1>1, <1>4 DEF Elements
<1> QED
  BY <1>8, <1>9

LEMMA Linked == IndInv => AllLinked
<1> SUFFICES ASSUME IndInv PROVE AllLinked
  OBVIOUS
<1>1. NULL \notin DOMAIN list /\ NULL \notin DOMAIN node
  BY DEF IndInv, TypeOK, NULL
<1>2. PICK n, s : ListChain(n, s)
  BY DEF IndInv, Chained
<1>3. PICK ch : NodeChains(ch)
  BY DEF IndInv, Chained
<1>4. LinkedFrom(T, list) /\ Elements(Right(list, T.mostL)) = {s[i] : i \in 1 .. n}
  <2>1. Chain(list, T, n, s) /\ T.size = n /\ \A l \in DOMAIN list : \E i \in 1 .. n : s[i] = l
    BY <1>2 DEF ListChain, Chain
  <2> DEFINE hd == [d \in {0} |-> T]
             cs == [d \in {0} |-> s]
  <2>2. \A d \in {0} : Chain(list, hd[d], hd[d].size, cs[d])
    BY <2>1
  <2>3. \A d, c \in {0} : \A i \in 1 .. hd[d].size, j \in 1 .. hd[c].size : cs[d][i] = cs[c][j] => d = c
    OBVIOUS
  <2>4. \A y \in DOMAIN list : \E d \in {0} : \E i \in 1 .. hd[d].size : cs[d][i] = y
    BY <2>1
  <2> HIDE DEF hd, cs
  <2>5. OnChains(list, {0}, hd, cs)
    BY <2>2, <2>3, <2>4 DEF OnChains
  <2>6. \E w : Rights(list, w)
    BY <1>1, <2>5, SuffixesExist
  <2> QED
    BY <1>1, <2>1, <2>6, ChainLinked
<1>5. \A l \in DOMAIN list : /\ LinkedFrom(list[l], node)
                             /\ Elements(Right(node, list[l].mostL)) = {ch[l][i] : i \in 1 .. list[l].size}
  <2>1. \A l \in DOMAIN list : Chain(node, list[l], list[l].size, ch[l])
    BY <1>3 DEF NodeChains, OnChains
  <2>2. \E w : Rights(node, w)
    BY <1>1, <1>3, SuffixesExist DEF NodeChains
  <2> QED
    BY <1>1, <2>1, <2>2, ChainLinked
<1>6. DOMAIN list = Elements(Right(list, T.mostL))
  <2>1. s \in [1 .. n -> DOMAIN list] /\ \A l \in DOMAIN list : \E i \in 1 .. n : s[i] = l
    BY <1>2 DEF ListChain, Chain
  <2> QED
    BY <1>4, <2>1
<1>7. DOMAIN node = UNION {Elements(Right(node, list[l].mostL)) : l \in DOMAIN list}
  <2> DEFINE E(l) == Elements(Right(node, list[l].mostL))
  <2>1. \A l \in DOMAIN list : \A i \in 1 .. list[l].size : ch[l][i] \in DOMAIN node
    BY <1>3 DEF NodeChains, OnChains, Chain
  <2>2. \A y \in DOMAIN node : \E l \in DOMAIN list : \E i \in 1 .. list[l].size : ch[l][i] = y
    BY <1>3 DEF NodeChains, OnChains
  <2>3. \A l \in DOMAIN list : E(l) = {ch[l][i] : i \in 1 .. list[l].size}
    BY <1>5
  <2> HIDE DEF E
  <2>4. \A y \in DOMAIN node : \E l \in DOMAIN list : y \in E(l)
    BY <2>2, <2>3
  <2>5. \A l \in DOMAIN list : E(l) \subseteq DOMAIN node
    BY <2>1, <2>3
  <2>6. DOMAIN node = UNION {E(l) : l \in DOMAIN list}
    BY <2>4, <2>5
  <2> QED
    BY <2>6 DEF E
<1> QED
  BY <1>4, <1>5, <1>6, <1>7 DEF AllLinked, IndInv, EmptyHeld, Counted

------------------------------------------------------------------------------
(* The operations on links, for records of either type. *)
ListR == [key : Names, size : Int, L : Nat, R : Nat, mostL : Nat, mostR : Nat]
NodeR == [arg : Items, L : Nat, R : Nat]

ListAfter(f, p, x, r, g, q) ==
    /\ DOMAIN g = DOMAIN f \cup {x} /\ g \in [DOMAIN g -> ListR]
    /\ g[x].L = p /\ g[x].R = q
    /\ g[x].key = r.key /\ g[x].size = r.size /\ g[x].mostL = r.mostL /\ g[x].mostR = r.mostR
    /\ \A y \in DOMAIN f :
          /\ g[y].L = IF y = q THEN x ELSE f[y].L
          /\ g[y].R = IF y = p THEN x ELSE f[y].R
          /\ g[y].key = f[y].key /\ g[y].size = f[y].size /\ g[y].mostL = f[y].mostL /\ g[y].mostR = f[y].mostR

LEMMA AfterList ==
    ASSUME NEW f, f \in [DOMAIN f -> ListR], NEW p \in Nat, p # NULL => p \in DOMAIN f,
           NEW x \in Nat, x \notin DOMAIN f, NEW r \in ListR,
           NEW g, g = After(f, p, x, r),
           NEW q, q = IF p = NULL THEN NULL ELSE f[p].R
    PROVE  ListAfter(f, p, x, r, g, q)
<1>1. q \in Nat
  BY DEF ListR, NULL
<1>2. g = [y \in DOMAIN f \cup {x} |->
             IF y = x THEN [r EXCEPT !.L = p, !.R = q]
             ELSE [f[y] EXCEPT !.L = IF y = q THEN x ELSE @, !.R = IF y = p THEN x ELSE @]]
  BY DEF After
<1>3. [r EXCEPT !.L = p, !.R = q] \in ListR
  BY <1>1 DEF ListR
<1>4. ASSUME NEW y \in DOMAIN f
      PROVE  g[y] \in ListR /\ g[y].L = (IF y = q THEN x ELSE f[y].L) /\ g[y].R = (IF y = p THEN x ELSE f[y].R)
             /\ g[y].key = f[y].key /\ g[y].size = f[y].size /\ g[y].mostL = f[y].mostL /\ g[y].mostR = f[y].mostR
  <2>1. g[y] = [f[y] EXCEPT !.L = IF y = q THEN x ELSE @, !.R = IF y = p THEN x ELSE @]
    BY <1>2
  <2>2. f[y] \in ListR
    OBVIOUS
  <2> QED
    BY <2>1, <2>2 DEF ListR
<1>5. g[x] = [r EXCEPT !.L = p, !.R = q] /\ DOMAIN g = DOMAIN f \cup {x} /\ g = [y \in DOMAIN g |-> g[y]]
  BY <1>2
<1>6. g \in [DOMAIN g -> ListR]
  BY <1>3, <1>4, <1>5
<1>7. g[x].L = p /\ g[x].R = q /\ g[x].key = r.key /\ g[x].size = r.size /\ g[x].mostL = r.mostL /\ g[x].mostR = r.mostR
  BY <1>5 DEF ListR
<1> QED
  BY <1>4, <1>5, <1>6, <1>7 DEF ListAfter

NodeAfter(f, p, x, r, g, q) ==
    /\ DOMAIN g = DOMAIN f \cup {x} /\ g \in [DOMAIN g -> NodeR]
    /\ g[x].L = p /\ g[x].R = q
    /\ g[x].arg = r.arg
    /\ \A y \in DOMAIN f :
          /\ g[y].L = IF y = q THEN x ELSE f[y].L
          /\ g[y].R = IF y = p THEN x ELSE f[y].R
          /\ g[y].arg = f[y].arg

LEMMA AfterNode ==
    ASSUME NEW f, f \in [DOMAIN f -> NodeR], NEW p \in Nat, p # NULL => p \in DOMAIN f,
           NEW x \in Nat, x \notin DOMAIN f, NEW r \in NodeR,
           NEW g, g = After(f, p, x, r),
           NEW q, q = IF p = NULL THEN NULL ELSE f[p].R
    PROVE  NodeAfter(f, p, x, r, g, q)
<1>1. q \in Nat
  BY DEF NodeR, NULL
<1>2. g = [y \in DOMAIN f \cup {x} |->
             IF y = x THEN [r EXCEPT !.L = p, !.R = q]
             ELSE [f[y] EXCEPT !.L = IF y = q THEN x ELSE @, !.R = IF y = p THEN x ELSE @]]
  BY DEF After
<1>3. [r EXCEPT !.L = p, !.R = q] \in NodeR
  BY <1>1 DEF NodeR
<1>4. ASSUME NEW y \in DOMAIN f
      PROVE  g[y] \in NodeR /\ g[y].L = (IF y = q THEN x ELSE f[y].L) /\ g[y].R = (IF y = p THEN x ELSE f[y].R)
             /\ g[y].arg = f[y].arg
  <2>1. g[y] = [f[y] EXCEPT !.L = IF y = q THEN x ELSE @, !.R = IF y = p THEN x ELSE @]
    BY <1>2
  <2>2. f[y] \in NodeR
    OBVIOUS
  <2> QED
    BY <2>1, <2>2 DEF NodeR
<1>5. g[x] = [r EXCEPT !.L = p, !.R = q] /\ DOMAIN g = DOMAIN f \cup {x} /\ g = [y \in DOMAIN g |-> g[y]]
  BY <1>2
<1>6. g \in [DOMAIN g -> NodeR]
  BY <1>3, <1>4, <1>5
<1>7. g[x].L = p /\ g[x].R = q /\ g[x].arg = r.arg
  BY <1>5 DEF NodeR
<1> QED
  BY <1>4, <1>5, <1>6, <1>7 DEF NodeAfter

NodeBefore(f, p, x, r, g, q) ==
    /\ DOMAIN g = DOMAIN f \cup {x} /\ g \in [DOMAIN g -> NodeR]
    /\ g[x].L = q /\ g[x].R = p
    /\ g[x].arg = r.arg
    /\ \A y \in DOMAIN f :
          /\ g[y].L = IF y = p THEN x ELSE f[y].L
          /\ g[y].R = IF y = q THEN x ELSE f[y].R
          /\ g[y].arg = f[y].arg

LEMMA BeforeNode ==
    ASSUME NEW f, f \in [DOMAIN f -> NodeR], NEW p \in Nat, p # NULL => p \in DOMAIN f,
           NEW x \in Nat, x \notin DOMAIN f, NEW r \in NodeR,
           NEW g, g = Before(f, p, x, r),
           NEW q, q = IF p = NULL THEN NULL ELSE f[p].L
    PROVE  NodeBefore(f, p, x, r, g, q)
<1>1. q \in Nat
  BY DEF NodeR, NULL
<1>2. g = [y \in DOMAIN f \cup {x} |->
             IF y = x THEN [r EXCEPT !.L = q, !.R = p]
             ELSE [f[y] EXCEPT !.R = IF y = q THEN x ELSE @, !.L = IF y = p THEN x ELSE @]]
  BY DEF Before
<1>3. [r EXCEPT !.L = q, !.R = p] \in NodeR
  BY <1>1 DEF NodeR
<1>4. ASSUME NEW y \in DOMAIN f
      PROVE  g[y] \in NodeR /\ g[y].L = (IF y = p THEN x ELSE f[y].L) /\ g[y].R = (IF y = q THEN x ELSE f[y].R)
             /\ g[y].arg = f[y].arg
  <2>1. g[y] = [f[y] EXCEPT !.R = IF y = q THEN x ELSE @, !.L = IF y = p THEN x ELSE @]
    BY <1>2
  <2>2. f[y] \in NodeR
    OBVIOUS
  <2> QED
    BY <2>1, <2>2 DEF NodeR
<1>5. g[x] = [r EXCEPT !.L = q, !.R = p] /\ DOMAIN g = DOMAIN f \cup {x} /\ g = [y \in DOMAIN g |-> g[y]]
  BY <1>2
<1>6. g \in [DOMAIN g -> NodeR]
  BY <1>3, <1>4, <1>5
<1>7. g[x].L = q /\ g[x].R = p /\ g[x].arg = r.arg
  BY <1>5 DEF NodeR
<1> QED
  BY <1>4, <1>5, <1>6, <1>7 DEF NodeBefore

ListWithout(f, x, g) ==
    /\ DOMAIN g = DOMAIN f \ {x} /\ g \in [DOMAIN g -> ListR]
    /\ \A y \in DOMAIN f \ {x} :
          /\ g[y].R = IF y = f[x].L THEN f[x].R ELSE f[y].R
          /\ g[y].L = IF y = f[x].R THEN f[x].L ELSE f[y].L
          /\ g[y].key = f[y].key /\ g[y].size = f[y].size /\ g[y].mostL = f[y].mostL /\ g[y].mostR = f[y].mostR

LEMMA WithoutList ==
    ASSUME NEW f, f \in [DOMAIN f -> ListR], NEW x \in DOMAIN f, NEW g, g = Without(f, x)
    PROVE  ListWithout(f, x, g)
<1>1. g = [y \in DOMAIN f \ {x} |-> [f[y] EXCEPT !.R = IF y = f[x].L THEN f[x].R ELSE @, !.L = IF y = f[x].R THEN f[x].L ELSE @]]
  BY DEF Without
<1>2. f[x].L \in Nat /\ f[x].R \in Nat
  BY DEF ListR
<1>3. ASSUME NEW y \in DOMAIN f \ {x}
      PROVE  g[y] \in ListR /\ g[y].R = (IF y = f[x].L THEN f[x].R ELSE f[y].R)
             /\ g[y].L = (IF y = f[x].R THEN f[x].L ELSE f[y].L)
             /\ g[y].key = f[y].key /\ g[y].size = f[y].size /\ g[y].mostL = f[y].mostL /\ g[y].mostR = f[y].mostR
  <2>1. g[y] = [f[y] EXCEPT !.R = IF y = f[x].L THEN f[x].R ELSE @, !.L = IF y = f[x].R THEN f[x].L ELSE @]
    BY <1>1
  <2>2. f[y] \in ListR
    OBVIOUS
  <2> QED
    BY <1>2, <2>1, <2>2 DEF ListR
<1>4. DOMAIN g = DOMAIN f \ {x} /\ g = [y \in DOMAIN g |-> g[y]]
  BY <1>1
<1> QED
  BY <1>3, <1>4 DEF ListWithout

NodeWithout(f, x, g) ==
    /\ DOMAIN g = DOMAIN f \ {x} /\ g \in [DOMAIN g -> NodeR]
    /\ \A y \in DOMAIN f \ {x} :
          /\ g[y].R = IF y = f[x].L THEN f[x].R ELSE f[y].R
          /\ g[y].L = IF y = f[x].R THEN f[x].L ELSE f[y].L
          /\ g[y].arg = f[y].arg

LEMMA WithoutNode ==
    ASSUME NEW f, f \in [DOMAIN f -> NodeR], NEW x \in DOMAIN f, NEW g, g = Without(f, x)
    PROVE  NodeWithout(f, x, g)
<1>1. g = [y \in DOMAIN f \ {x} |-> [f[y] EXCEPT !.R = IF y = f[x].L THEN f[x].R ELSE @, !.L = IF y = f[x].R THEN f[x].L ELSE @]]
  BY DEF Without
<1>2. f[x].L \in Nat /\ f[x].R \in Nat
  BY DEF NodeR
<1>3. ASSUME NEW y \in DOMAIN f \ {x}
      PROVE  g[y] \in NodeR /\ g[y].R = (IF y = f[x].L THEN f[x].R ELSE f[y].R)
             /\ g[y].L = (IF y = f[x].R THEN f[x].L ELSE f[y].L)
             /\ g[y].arg = f[y].arg
  <2>1. g[y] = [f[y] EXCEPT !.R = IF y = f[x].L THEN f[x].R ELSE @, !.L = IF y = f[x].R THEN f[x].L ELSE @]
    BY <1>1
  <2>2. f[y] \in NodeR
    OBVIOUS
  <2> QED
    BY <1>2, <2>1, <2>2 DEF NodeR
<1>4. DOMAIN g = DOMAIN f \ {x} /\ g = [y \in DOMAIN g |-> g[y]]
  BY <1>1
<1> QED
  BY <1>3, <1>4 DEF NodeWithout

------------------------------------------------------------------------------
(* The steps that leave the table alone. *)

LEMMA Kept ==
    ASSUME IndInv, UNCHANGED <<list, node, memUsage>>,
           T'.size = T.size, T'.mostL = T.mostL, T'.mostR = T.mostR
    PROVE  Chained' /\ Counted' /\ OneListPerKey'
<1>1. \E n, s : ListChain(n, s)'
  <2>1. PICK n, s : ListChain(n, s)
    BY DEF IndInv, Chained
  <2>2. Chain(list, T', n, s)
    <3>1. Chain(list, T, n, s)
      BY <2>1 DEF ListChain
    <3> QED
      BY <3>1 DEF Chain
  <2>3. ListChain(n, s)'
    BY <2>1, <2>2 DEF ListChain
  <2> QED
    BY <2>3
<1>2. \E ch : NodeChains(ch)'
  <2>1. PICK ch : NodeChains(ch)
    BY DEF IndInv, Chained
  <2>2. NodeChains(ch)'
    BY <2>1 DEF NodeChains
  <2> QED
    BY <2>2
<1>3. Chained'
  BY <1>1, <1>2 DEF Chained
<1>4. Counted'
  BY DEF IndInv, Counted
<1>5. OneListPerKey'
  BY DEF IndInv, OneListPerKey
<1> QED
  BY <1>3, <1>4, <1>5

LEMMA ListLinks ==
    ASSUME IndInv
    PROVE  /\ NULL \notin DOMAIN list /\ NULL \notin DOMAIN node
           /\ T.mostL # NULL => T.mostL \in DOMAIN list
           /\ T.mostR # NULL => T.mostR \in DOMAIN list /\ list[T.mostR].R = NULL
           /\ \A l \in DOMAIN list : /\ list[l].R # l
                                     /\ list[l].R # NULL => list[l].R \in DOMAIN list
<1>1. PICK n, s : ListChain(n, s)
  BY DEF IndInv, Chained
<1>2. NULL \notin DOMAIN list /\ NULL \notin DOMAIN node
  BY DEF IndInv, TypeOK, NULL
<1>3. /\ n \in Nat /\ s \in [1 .. n -> DOMAIN list]
      /\ \A i, j \in 1 .. n : s[i] = s[j] => i = j
      /\ T.mostL = IF n = 0 THEN NULL ELSE s[1]
      /\ T.mostR = IF n = 0 THEN NULL ELSE s[n]
      /\ \A i \in 1 .. n : list[s[i]].R = IF i = n THEN NULL ELSE s[i + 1]
      /\ \A l \in DOMAIN list : \E i \in 1 .. n : s[i] = l
  BY <1>1 DEF ListChain, Chain
<1>4. n # 0 => 1 \in 1 .. n /\ n \in 1 .. n
  BY <1>3
<1>5. ASSUME NEW l \in DOMAIN list
      PROVE  list[l].R # l /\ (list[l].R # NULL => list[l].R \in DOMAIN list)
  <2>1. PICK i \in 1 .. n : s[i] = l
    BY <1>3
  <2>2. i # n => i + 1 \in 1 .. n /\ i + 1 # i
    BY <1>3
  <2> QED
    BY <1>2, <1>3, <2>1, <2>2
<1> QED
  BY <1>2, <1>3, <1>4, <1>5

LEMMA CallPutStep ==
    ASSUME IndInv, NEW t \in Threads, NEW k \in Keys, CallPut(t, k)
    PROVE  IndInv'
<1>1. TypeOK'
  BY DEF IndInv, TypeOK, Labels, CallPut, Goto, At, dataVars, CanCall
<1>2. Exclusive'
  BY DEF IndInv, TypeOK, Exclusive, Holding, CallPut, Goto, At, dataVars, CanCall
<1>3. Placed'
  BY DEF IndInv, TypeOK, Exclusive, Placed, Holding, CallPut, Goto, At, dataVars, CanCall
<1>4. NoDanglingList'
  BY DEF IndInv, TypeOK, Placed, NoDanglingList, CallPut, Goto, At, dataVars, CanCall
<1>5. EmptyHeld'
  BY DEF IndInv, TypeOK, EmptyHeld, CallPut, Goto, At, dataVars, CanCall
<1>6. Chained' /\ Counted' /\ OneListPerKey'
  BY Kept DEF IndInv, TypeOK, CallPut, Goto, At, dataVars, CanCall
<1> QED
  BY <1>1, <1>2, <1>3, <1>4, <1>5, <1>6 DEF IndInv

LEMMA CallGetStep ==
    ASSUME IndInv, NEW t \in Threads, CallGet(t)
    PROVE  IndInv'
<1>1. TypeOK'
  BY DEF IndInv, TypeOK, Labels, CallGet, Goto, At, dataVars, CanCall
<1>2. Exclusive'
  BY DEF IndInv, TypeOK, Exclusive, Holding, CallGet, Goto, At, dataVars, CanCall
<1>3. Placed'
  BY DEF IndInv, TypeOK, Exclusive, Placed, Holding, CallGet, Goto, At, dataVars, CanCall
<1>4. NoDanglingList'
  BY DEF IndInv, TypeOK, Placed, NoDanglingList, CallGet, Goto, At, dataVars, CanCall
<1>5. EmptyHeld'
  BY DEF IndInv, TypeOK, EmptyHeld, CallGet, Goto, At, dataVars, CanCall
<1>6. Chained' /\ Counted' /\ OneListPerKey'
  BY Kept DEF IndInv, TypeOK, CallGet, Goto, At, dataVars, CanCall
<1> QED
  BY <1>1, <1>2, <1>3, <1>4, <1>5, <1>6 DEF IndInv

LEMMA CallSizeStep ==
    ASSUME IndInv, NEW t \in Threads, CallSize(t)
    PROVE  IndInv'
<1>0. T.mostL # NULL => T.mostL \in DOMAIN list
  BY ListLinks
<1>1. TypeOK'
  BY DEF IndInv, TypeOK, Labels, CallSize, Goto, At, dataVars, CanCall, SizeFrom
<1>2. Exclusive'
  BY DEF IndInv, TypeOK, Exclusive, Holding, CallSize, Goto, At, dataVars, CanCall, SizeFrom
<1>3. Placed'
  BY DEF IndInv, TypeOK, Exclusive, Placed, Holding, CallSize, Goto, At, dataVars, CanCall, SizeFrom
<1>4. NoDanglingList'
  BY <1>0 DEF IndInv, TypeOK, Placed, NoDanglingList, CallSize, Goto, At, dataVars, CanCall, SizeFrom
<1>5. EmptyHeld'
  BY DEF IndInv, TypeOK, EmptyHeld, CallSize, Goto, At, dataVars, CanCall, SizeFrom
<1>6. Chained' /\ Counted' /\ OneListPerKey'
  BY Kept DEF IndInv, TypeOK, CallSize, Goto, At, dataVars, CanCall, SizeFrom
<1> QED
  BY <1>1, <1>2, <1>3, <1>4, <1>5, <1>6 DEF IndInv

LEMMA LockStep ==
    ASSUME IndInv, NEW t \in Threads, Lock(t)
    PROVE  IndInv'
<1>1. TypeOK'
  BY DEF IndInv, TypeOK, Labels, Lock, Goto, At, dataVars, table_lock, Inside
<1>2. Exclusive'
  BY DEF IndInv, TypeOK, Exclusive, Holding, Lock, Goto, At, dataVars, table_lock, Inside
<1>3. Placed'
  BY DEF IndInv, TypeOK, Exclusive, Placed, Holding, Lock, Goto, At, dataVars, table_lock, Inside
<1>4. NoDanglingList'
  BY DEF IndInv, TypeOK, Placed, NoDanglingList, Lock, Goto, At, dataVars, table_lock, Inside
<1>5. EmptyHeld'
  BY DEF IndInv, TypeOK, EmptyHeld, Lock, Goto, At, dataVars, table_lock, Inside
<1>6. Chained' /\ Counted' /\ OneListPerKey'
  BY Kept DEF IndInv, TypeOK, Lock, Goto, At, dataVars, table_lock, Inside
<1> QED
  BY <1>1, <1>2, <1>3, <1>4, <1>5, <1>6 DEF IndInv

LEMMA UnlockStep ==
    ASSUME IndInv, NEW t \in Threads, Unlock(t)
    PROVE  IndInv'
<1>1. TypeOK'
  BY DEF IndInv, TypeOK, Labels, Unlock, Goto, At, dataVars
<1>2. Exclusive'
  BY DEF IndInv, TypeOK, Exclusive, Holding, Unlock, Goto, At, dataVars
<1>3. Placed'
  BY DEF IndInv, TypeOK, Exclusive, Placed, Holding, Unlock, Goto, At, dataVars
<1>4. NoDanglingList'
  BY DEF IndInv, TypeOK, Placed, NoDanglingList, Unlock, Goto, At, dataVars
<1>5. EmptyHeld'
  BY DEF IndInv, TypeOK, EmptyHeld, Unlock, Goto, At, dataVars
<1>6. Chained' /\ Counted' /\ OneListPerKey'
  BY Kept DEF IndInv, TypeOK, Unlock, Goto, At, dataVars
<1> QED
  BY <1>1, <1>2, <1>3, <1>4, <1>5, <1>6 DEF IndInv

LEMMA ReturnStep ==
    ASSUME IndInv, NEW t \in Threads, Return(t)
    PROVE  IndInv'
<1>0. calls[t] < Calls
  BY DEF IndInv, Placed, Return, Returning
<1>1. TypeOK'
  <2>1. calls' \in [Threads -> 0 .. Calls]
    <3>1. calls \in [Threads -> 0 .. Calls] /\ calls' = [calls EXCEPT ![t] = calls[t] + 1]
      BY DEF IndInv, TypeOK, Return
    <3>2. calls[t] + 1 \in 0 .. Calls
      BY <1>0, <3>1, CallsAssumption
    <3> QED
      BY <3>1, <3>2
  <2>2. /\ pc' \in [Threads -> Labels] /\ key' \in [Threads -> Keys \cup {NoKey}]
        /\ L' \in [Threads -> Nat] /\ arg' \in [Threads -> Items \cup {NoItem}]
        /\ sum' \in [Threads -> Int]
    BY DEF IndInv, TypeOK, Labels, Return, Goto, At, NULL
  <2>3. UNCHANGED <<dataVars, mutex>>
    BY DEF Return
  <2> QED
    BY <2>1, <2>2, <2>3 DEF IndInv, TypeOK, dataVars
<1>2. Exclusive'
  BY DEF IndInv, TypeOK, Exclusive, Holding, Return, Goto, At, dataVars, Returning
<1>3. Placed'
  BY DEF IndInv, TypeOK, Exclusive, Placed, Holding, Return, Goto, At, dataVars, Returning
<1>4. NoDanglingList'
  BY DEF IndInv, TypeOK, Placed, NoDanglingList, Return, Goto, At, dataVars, Returning
<1>5. EmptyHeld'
  BY DEF IndInv, TypeOK, EmptyHeld, Return, Goto, At, dataVars, Returning
<1>6. Chained' /\ Counted' /\ OneListPerKey'
  BY Kept DEF IndInv, TypeOK, Return, Goto, At, dataVars, Returning
<1> QED
  BY <1>1, <1>2, <1>3, <1>4, <1>5, <1>6 DEF IndInv

LEMMA PutFoundStep ==
    ASSUME IndInv, NEW t \in Threads, PutFound(t)
    PROVE  IndInv'
<1>0. Find(key[t]) \in DOMAIN list
  <2>1. PICK n, s : ListChain(n, s)
    BY DEF IndInv, Chained
  <2>2. Find(key[t]) # NULL
    BY DEF PutFound
  <2> QED
    BY <2>1, <2>2, FindFacts, ListLinks
<1>1. TypeOK'
  BY <1>0 DEF IndInv, TypeOK, Labels, PutFound, Goto, At, dataVars, Pushing
<1>2. Exclusive'
  BY DEF IndInv, TypeOK, Exclusive, Holding, PutFound, Goto, At, dataVars, Pushing
<1>3. Placed'
  BY DEF IndInv, TypeOK, Exclusive, Placed, Holding, PutFound, Goto, At, dataVars, Pushing
<1>4. NoDanglingList'
  BY <1>0 DEF IndInv, TypeOK, Placed, NoDanglingList, PutFound, Goto, At, dataVars, Pushing
<1>5. EmptyHeld'
  BY DEF IndInv, TypeOK, EmptyHeld, PutFound, Goto, At, dataVars, Pushing
<1>6. Chained' /\ Counted' /\ OneListPerKey'
  BY Kept DEF IndInv, TypeOK, PutFound, Goto, At, dataVars, Pushing
<1> QED
  BY <1>1, <1>2, <1>3, <1>4, <1>5, <1>6 DEF IndInv

LEMMA GetTurnStep ==
    ASSUME IndInv, NEW t \in Threads, GetTurn(t)
    PROVE  IndInv'
<1>0. T.mostL # NULL => T.mostL \in DOMAIN list
  BY ListLinks
<1>1. TypeOK'
  BY DEF IndInv, TypeOK, Labels, GetTurn, Goto, At, dataVars, Restart
<1>2. Exclusive'
  BY DEF IndInv, TypeOK, Exclusive, Holding, GetTurn, Goto, At, dataVars, Restart
<1>3. Placed'
  BY DEF IndInv, TypeOK, Exclusive, Placed, Holding, GetTurn, Goto, At, dataVars, Restart
<1>4. NoDanglingList'
  BY <1>0 DEF IndInv, TypeOK, Placed, NoDanglingList, GetTurn, Goto, At, dataVars, Restart
<1>5. EmptyHeld'
  BY DEF IndInv, TypeOK, EmptyHeld, GetTurn, Goto, At, dataVars, Restart
<1>6. Chained' /\ Counted' /\ OneListPerKey'
  BY Kept DEF IndInv, TypeOK, GetTurn, Goto, At, dataVars, Restart
<1> QED
  BY <1>1, <1>2, <1>3, <1>4, <1>5, <1>6 DEF IndInv

LEMMA SizeAddStep ==
    ASSUME IndInv, NEW t \in Threads, SizeAdd(t)
    PROVE  IndInv'
<1>0. list[L[t]].size \in Int
  BY DEF IndInv, TypeOK, NoDanglingList, SizeAdd
<1>1. TypeOK'
  BY <1>0 DEF IndInv, TypeOK, Labels, SizeAdd, Goto, At, dataVars
<1>2. Exclusive'
  BY DEF IndInv, TypeOK, Exclusive, Holding, SizeAdd, Goto, At, dataVars
<1>3. Placed'
  BY DEF IndInv, TypeOK, Exclusive, Placed, Holding, SizeAdd, Goto, At, dataVars
<1>4. NoDanglingList'
  BY DEF IndInv, TypeOK, Placed, NoDanglingList, SizeAdd, Goto, At, dataVars
<1>5. EmptyHeld'
  BY DEF IndInv, TypeOK, EmptyHeld, SizeAdd, Goto, At, dataVars
<1>6. Chained' /\ Counted' /\ OneListPerKey'
  BY Kept DEF IndInv, TypeOK, SizeAdd, Goto, At, dataVars
<1> QED
  BY <1>1, <1>2, <1>3, <1>4, <1>5, <1>6 DEF IndInv

LEMMA SizeNextStep ==
    ASSUME IndInv, NEW t \in Threads, SizeNext(t)
    PROVE  IndInv'
<1>0. list[L[t]].R \in Nat /\ (list[L[t]].R # NULL => list[L[t]].R \in DOMAIN list)
  <2>1. L[t] \in DOMAIN list
    BY DEF IndInv, NoDanglingList, Placed, SizeNext
  <2> QED
    BY <2>1, ListLinks DEF IndInv, TypeOK
<1>1. TypeOK'
  BY <1>0 DEF IndInv, TypeOK, Labels, SizeNext, Goto, At, dataVars
<1>2. Exclusive'
  BY DEF IndInv, TypeOK, Exclusive, Holding, SizeNext, Goto, At, dataVars
<1>3. Placed'
  BY DEF IndInv, TypeOK, Exclusive, Placed, Holding, SizeNext, Goto, At, dataVars
<1>4. NoDanglingList'
  BY <1>0 DEF IndInv, TypeOK, Placed, NoDanglingList, SizeNext, Goto, At, dataVars
<1>5. EmptyHeld'
  BY DEF IndInv, TypeOK, EmptyHeld, SizeNext, Goto, At, dataVars
<1>6. Chained' /\ Counted' /\ OneListPerKey'
  BY Kept DEF IndInv, TypeOK, SizeNext, Goto, At, dataVars
<1> QED
  BY <1>1, <1>2, <1>3, <1>4, <1>5, <1>6 DEF IndInv

------------------------------------------------------------------------------
(* The steps that change the table. *)

(* Only the chain of d changes, into q: f and the headers hd become g and hf. *)
OneChanged(f, D, hd, ch, d, g, hf, q) ==
    /\ d \in D /\ Chain(g, hf[d], hf[d].size, q)
    /\ \A c \in D \ {d} : /\ hf[c].size = hd[c].size
                          /\ hf[c].mostL = hd[c].mostL /\ hf[c].mostR = hd[c].mostR
    /\ \A c \in D \ {d} : \A i \in 1 .. hd[c].size :
           /\ ch[c][i] \in DOMAIN g
           /\ g[ch[c][i]].L = f[ch[c][i]].L /\ g[ch[c][i]].R = f[ch[c][i]].R
           /\ \A j \in 1 .. hf[d].size : q[j] # ch[c][i]
    /\ \A y \in DOMAIN g : \/ \E i \in 1 .. hf[d].size : q[i] = y
                           \/ y \in DOMAIN f /\ \A j \in 1 .. hd[d].size : ch[d][j] # y

LEMMA OneChain ==
    ASSUME NEW f, NEW D, NEW hd, NEW ch, NEW d, NEW g, NEW hf, NEW q,
           OnChains(f, D, hd, ch), OneChanged(f, D, hd, ch, d, g, hf, q)
    PROVE  \E cg : OnChains(g, D, hf, cg)
<1> USE DEF OneChanged
<1> DEFINE cg == [c \in D |-> IF c = d THEN q ELSE ch[c]]
<1>1. /\ \A c \in D : Chain(f, hd[c], hd[c].size, ch[c])
      /\ \A c, e \in D : \A i \in 1 .. hd[c].size, j \in 1 .. hd[e].size :
             ch[c][i] = ch[e][j] => c = e
      /\ \A y \in DOMAIN f : \E c \in D : \E i \in 1 .. hd[c].size : ch[c][i] = y
  BY DEF OnChains
<1>2. cg[d] = q /\ \A c \in D \ {d} : cg[c] = ch[c]
  OBVIOUS
<1> HIDE DEF cg
<1>3. ASSUME NEW c \in D
      PROVE  Chain(g, hf[c], hf[c].size, cg[c])
  <2>1. CASE c = d
    BY <1>2, <2>1
  <2>2. CASE c # d
    <3>1. Chain(f, hd[c], hd[c].size, ch[c])
      BY <1>1
    <3>2. \A i \in 1 .. hd[c].size : /\ ch[c][i] \in DOMAIN g
                                     /\ g[ch[c][i]].L = f[ch[c][i]].L
                                     /\ g[ch[c][i]].R = f[ch[c][i]].R
      BY <2>2
    <3>3. Chain(g, hf[c], hd[c].size, ch[c])
      BY <2>2, <3>1, <3>2, KeepChain
    <3> QED
      BY <1>2, <2>2, <3>3
  <2> QED
    BY <2>1, <2>2
<1>4. ASSUME NEW c \in D, NEW e \in D, NEW i \in 1 .. hf[c].size, NEW j \in 1 .. hf[e].size,
             cg[c][i] = cg[e][j]
      PROVE  c = e
  <2>1. CASE c = d
    BY <1>2, <1>4, <2>1
  <2>2. CASE e = d
    BY <1>2, <1>4, <2>2
  <2>3. CASE c # d /\ e # d
    <3>1. i \in 1 .. hd[c].size /\ j \in 1 .. hd[e].size /\ ch[c][i] = ch[e][j]
      BY <1>2, <1>4, <2>3
    <3> QED
      BY <1>1, <3>1
  <2> QED
    BY <2>1, <2>2, <2>3
<1>5. ASSUME NEW y \in DOMAIN g
      PROVE  \E c \in D : \E i \in 1 .. hf[c].size : cg[c][i] = y
  <2>1. CASE \E i \in 1 .. hf[d].size : q[i] = y
    BY <1>2, <2>1
  <2>2. CASE y \in DOMAIN f /\ \A j \in 1 .. hd[d].size : ch[d][j] # y
    <3>0. PICK c \in D : \E i \in 1 .. hd[c].size : ch[c][i] = y
      BY <1>1, <2>2
    <3>1. PICK i \in 1 .. hd[c].size : ch[c][i] = y
      BY <3>0
    <3>2. c # d
      BY <2>2, <3>1
    <3>3. i \in 1 .. hf[c].size /\ cg[c][i] = y
      BY <1>2, <3>1, <3>2
    <3> QED
      BY <3>3
  <2> QED
    BY <2>1, <2>2
<1>6. OnChains(g, D, hf, cg)
  BY <1>3, <1>4, <1>5 DEF OnChains
<1> QED
  BY <1>6

LEMMA Size ==
    ASSUME NEW m \in Nat, NEW S, S \subseteq 1 .. m
    PROVE  /\ Cardinality(S) \in Nat
           /\ \A x : x \notin S => Cardinality(S \cup {x}) = Cardinality(S) + 1
           /\ \A x \in S : Cardinality(S \ {x}) = Cardinality(S) - 1
<1>1. IsFiniteSet(S)
  <2>1. IsFiniteSet(1 .. m)
    BY FS_Interval
  <2> QED
    BY <2>1, FS_Subset
<1> QED
  BY <1>1, FS_CardinalityType, FS_AddElement, FS_RemoveElement

(* List x with record r has come to the right end of the table. *)
ListMade(t, x, r) ==
    /\ x = nList + 1 /\ x \in Nat /\ x \notin DOMAIN list /\ x # NULL
    /\ key[t] \in Keys /\ pc[t] \in {"find", "findBack"}
    /\ r = [key |-> Clip[key[t]], size |-> 0, L |-> NULL, R |-> NULL,
            mostL |-> NULL, mostR |-> NULL]
    /\ nList' = x /\ L' = [L EXCEPT ![t] = x] /\ memUsage' = memUsage + ListSize
    /\ pc' = [pc EXCEPT ![t] = IF pc[t] = "find" THEN "push" ELSE "pushBack"]
    /\ UNCHANGED <<node, nNode, mutex, calls, key, arg, sum>>
    /\ T.mostR # NULL => T.mostR \in DOMAIN list /\ list[T.mostR].R = NULL
    /\ DOMAIN list' = DOMAIN list \cup {x} /\ list' \in [DOMAIN list' -> ListR]
    /\ list'[x].L = T.mostR /\ list'[x].R = NULL
    /\ list'[x].key = r.key /\ list'[x].size = r.size
    /\ list'[x].mostL = r.mostL /\ list'[x].mostR = r.mostR
    /\ \A y \in DOMAIN list :
          /\ list'[y].L = IF y = NULL THEN x ELSE list[y].L
          /\ list'[y].R = IF y = T.mostR THEN x ELSE list[y].R
          /\ list'[y].key = list[y].key /\ list'[y].size = list[y].size
          /\ list'[y].mostL = list[y].mostL /\ list'[y].mostR = list[y].mostR
    /\ T' \in [size : Int, mostL : Nat, mostR : Nat, cur : Nat]
    /\ T'.size = T.size + 1 /\ T'.mostR = x /\ T'.cur = T.cur
    /\ T'.mostL = IF T.mostR = NULL THEN x ELSE T.mostL

LEMMA NewList ==
    ASSUME IndInv, NEW t \in Threads, PutNewList(t)
    PROVE  \E x, r : ListMade(t, x, r)
<1>0. PICK x, r : /\ x = nList + 1
                  /\ r = [key |-> Clip[key[t]], size |-> 0, L |-> NULL, R |-> NULL,
                         mostL |-> NULL, mostR |-> NULL]
  OBVIOUS
<1>1. /\ nList \in Nat /\ DOMAIN list \subseteq 1 .. nList /\ list \in [DOMAIN list -> ListR]
      /\ T \in [size : Int, mostL : Nat, mostR : Nat, cur : Nat]
      /\ pc \in [Threads -> Labels] /\ L \in [Threads -> Nat] /\ pc[t] \in {"find", "findBack"}
      /\ key[t] \in Keys /\ memUsage \in Int
  BY DEF IndInv, TypeOK, Placed, PutNewList, Pushing, ListR
<1>2. x \in Nat /\ x \notin DOMAIN list /\ x # NULL /\ r \in ListR
  BY <1>0, <1>1 DEF ListR, NULL, Names
<1>3. /\ nList' = x /\ list' = After(list, T.mostR, x, r) /\ L' = [L EXCEPT ![t] = x]
      /\ T' = PushedR(T, list, x) /\ memUsage' = memUsage + ListSize
      /\ pc' = [pc EXCEPT ![t] = IF pc[t] = "find" THEN "push" ELSE "pushBack"]
      /\ UNCHANGED <<node, nNode, mutex, calls, key, arg, sum>>
  <2>1. Pushing[pc[t]] = IF pc[t] = "find" THEN "push" ELSE "pushBack"
    BY <1>1 DEF Pushing
  <2> HIDE DEF Pushing
  <2>2. /\ nList' = x /\ list' = After(list, T.mostR, x, r)
        /\ T' = PushedR(T, list, x) /\ memUsage' = memUsage + ListSize
    BY <1>0, Zenon DEF PutNewList
  <2>3. L' = [L EXCEPT ![t] = x] /\ pc' = [pc EXCEPT ![t] = IF pc[t] = "find" THEN "push" ELSE "pushBack"]
    BY <1>0, <2>1, Zenon DEF PutNewList, Goto, At
  <2>4. UNCHANGED <<node, nNode, mutex, calls, key, arg, sum>>
    BY DEF PutNewList
  <2> QED
    BY <2>2, <2>3, <2>4
<1>4. T.mostR # NULL => T.mostR \in DOMAIN list /\ list[T.mostR].R = NULL
  BY ListLinks
<1>5. /\ DOMAIN list' = DOMAIN list \cup {x} /\ list' \in [DOMAIN list' -> ListR]
      /\ list'[x].L = T.mostR /\ list'[x].R = NULL
      /\ list'[x].key = r.key /\ list'[x].size = r.size
      /\ list'[x].mostL = r.mostL /\ list'[x].mostR = r.mostR
      /\ \A y \in DOMAIN list :
            /\ list'[y].L = IF y = NULL THEN x ELSE list[y].L
            /\ list'[y].R = IF y = T.mostR THEN x ELSE list[y].R
            /\ list'[y].key = list[y].key /\ list'[y].size = list[y].size
            /\ list'[y].mostL = list[y].mostL /\ list'[y].mostR = list[y].mostR
  <2>0. PICK f, p, g, q : f = list /\ p = T.mostR /\ g = list' /\ q = NULL
    OBVIOUS
  <2>1. /\ f \in [DOMAIN f -> ListR] /\ p \in Nat /\ (p # NULL => p \in DOMAIN f)
        /\ x \in Nat /\ x \notin DOMAIN f /\ r \in ListR
        /\ g = After(f, p, x, r) /\ q = IF p = NULL THEN NULL ELSE f[p].R
    BY <1>1, <1>2, <1>3, <1>4, <2>0
  <2>2. /\ DOMAIN g = DOMAIN f \cup {x} /\ g \in [DOMAIN g -> ListR]
        /\ g[x].L = p /\ g[x].R = q
        /\ g[x].key = r.key /\ g[x].size = r.size /\ g[x].mostL = r.mostL /\ g[x].mostR = r.mostR
        /\ \A y \in DOMAIN f :
              /\ g[y].L = IF y = q THEN x ELSE f[y].L
              /\ g[y].R = IF y = p THEN x ELSE f[y].R
              /\ g[y].key = f[y].key /\ g[y].size = f[y].size
              /\ g[y].mostL = f[y].mostL /\ g[y].mostR = f[y].mostR
    <3>1. ListAfter(f, p, x, r, g, q)
      BY <2>1, AfterList
    <3> QED
      BY <3>1 DEF ListAfter
  <2> QED
    BY <2>0, <2>2
<1>6. /\ T' \in [size : Int, mostL : Nat, mostR : Nat, cur : Nat]
      /\ T'.size = T.size + 1 /\ T'.mostR = x /\ T'.cur = T.cur
      /\ T'.mostL = IF T.mostR = NULL THEN x ELSE T.mostL
  <2>1. T' = [T EXCEPT !.mostR = x, !.mostL = IF T.mostR = NULL THEN x ELSE @, !.size = @ + 1]
    BY <1>3 DEF PushedR
  <2>2. T \in [size : Int, mostL : Nat, mostR : Nat, cur : Nat] /\ x \in Nat
    BY <1>1, <1>2
  <2>3. PICK m, z : m = (IF T.mostR = NULL THEN x ELSE T.mostL) /\ z = T.size + 1
    OBVIOUS
  <2>4. m \in Nat /\ z \in Int
    BY <2>2, <2>3
  <2>5. T' = [T EXCEPT !.mostR = x, !.mostL = m, !.size = z]
    BY <2>1, <2>3, Zenon
  <2>6. /\ T' \in [size : Int, mostL : Nat, mostR : Nat, cur : Nat]
        /\ T'.size = z /\ T'.mostR = x /\ T'.cur = T.cur /\ T'.mostL = m
    BY <2>2, <2>4, <2>5
  <2> QED
    BY <2>3, <2>6
<1>7. ListMade(t, x, r)
  BY <1>0, <1>1, <1>2, <1>3, <1>4, <1>5, <1>6 DEF ListMade
<1> QED
  BY <1>7

LEMMA PutNewListStep ==
    ASSUME IndInv, NEW t \in Threads, PutNewList(t)
    PROVE  IndInv'
<1>0. PICK x, r : ListMade(t, x, r)
  BY NewList
<1>1. /\ nList \in Nat /\ DOMAIN list \subseteq 1 .. nList /\ list \in [DOMAIN list -> ListR]
      /\ T \in [size : Int, mostL : Nat, mostR : Nat, cur : Nat]
      /\ pc \in [Threads -> Labels] /\ L \in [Threads -> Nat] /\ memUsage \in Int
      /\ key[t] \in Keys /\ pc[t] \in {"find", "findBack"}
  BY <1>0 DEF IndInv, TypeOK, ListR, ListMade
<1>2. /\ x = nList + 1 /\ x \in Nat /\ x \notin DOMAIN list /\ x # NULL
      /\ r = [key |-> Clip[key[t]], size |-> 0, L |-> NULL, R |-> NULL,
              mostL |-> NULL, mostR |-> NULL]
  BY <1>0 DEF ListMade
<1>3. /\ nList' = x /\ L' = [L EXCEPT ![t] = x] /\ memUsage' = memUsage + ListSize
      /\ pc' = [pc EXCEPT ![t] = IF pc[t] = "find" THEN "push" ELSE "pushBack"]
      /\ UNCHANGED <<node, nNode, mutex, calls, key, arg, sum>>
  BY <1>0 DEF ListMade
<1>5. /\ DOMAIN list' = DOMAIN list \cup {x} /\ list' \in [DOMAIN list' -> ListR]
      /\ list'[x].L = T.mostR /\ list'[x].R = NULL
      /\ list'[x].key = r.key /\ list'[x].size = r.size
      /\ list'[x].mostL = r.mostL /\ list'[x].mostR = r.mostR
      /\ \A y \in DOMAIN list :
            /\ list'[y].L = IF y = NULL THEN x ELSE list[y].L
            /\ list'[y].R = IF y = T.mostR THEN x ELSE list[y].R
            /\ list'[y].key = list[y].key /\ list'[y].size = list[y].size
            /\ list'[y].mostL = list[y].mostL /\ list'[y].mostR = list[y].mostR
  BY <1>0 DEF ListMade
<1>6. /\ T' \in [size : Int, mostL : Nat, mostR : Nat, cur : Nat]
      /\ T'.size = T.size + 1 /\ T'.mostR = x /\ T'.cur = T.cur
      /\ T'.mostL = IF T.mostR = NULL THEN x ELSE T.mostL
  BY <1>0 DEF ListMade
<1>7. NULL \notin DOMAIN list
  BY ListLinks
<1>8. PICK n, s : ListChain(n, s)
  BY DEF IndInv, Chained
<1>9. \E m, q : ListChain(m, q)'
  <2>0. PICK q : q = PutR(n, s, x)
    OBVIOUS
  <2>1. Chain(list, T, n, s)
    BY <1>8 DEF ListChain
  <2>2. T.mostL = NULL <=> T.mostR = NULL
    <3>1. n # 0 => s[1] \in DOMAIN list /\ s[n] \in DOMAIN list
      BY <2>1 DEF Chain
    <3> QED
      BY <1>7, <2>1, <3>1 DEF Chain
  <2>3. Chain(list', T', n + 1, q)
    <3>1. /\ x # NULL /\ x \notin DOMAIN list /\ DOMAIN list' = DOMAIN list \cup {x}
          /\ list'[x].L = T.mostR /\ list'[x].R = NULL
      BY <1>2, <1>5
    <3>2. \A y \in DOMAIN list : /\ list'[y].L = list[y].L
                                  /\ list'[y].R = IF y = T.mostR THEN x ELSE list[y].R
      BY <1>5, <1>7
    <3> QED
      BY <1>6, <1>7, <2>0, <2>1, <3>1, <3>2, PushRChain
  <2>4. n \in Nat /\ \A l \in DOMAIN list : \E i \in 1 .. n : s[i] = l
    BY <1>8 DEF ListChain, Chain
  <2>5. q[n + 1] = x /\ n + 1 \in 1 .. n + 1 /\ \A i \in 1 .. n : q[i] = s[i] /\ i \in 1 .. n + 1
    BY <2>0, <2>4 DEF PutR
  <2>6. \A l \in DOMAIN list' : \E i \in 1 .. n + 1 : q[i] = l
    BY <1>5, <2>4, <2>5
  <2>7. ListChain(n + 1, q)'
    BY <2>3, <2>6 DEF ListChain
  <2> QED
    BY <2>7
<1>10. \E cg : NodeChains(cg)'
  <2>1. PICK ch : OnChains(node, DOMAIN list, list, ch)
    BY DEF IndInv, Chained, NodeChains
  <2>2. /\ \A l \in DOMAIN list : Chain(node, list[l], list[l].size, ch[l])
        /\ \A l, m \in DOMAIN list : \A i \in 1 .. list[l].size, j \in 1 .. list[m].size :
               ch[l][i] = ch[m][j] => l = m
        /\ \A y \in DOMAIN node : \E l \in DOMAIN list : \E i \in 1 .. list[l].size : ch[l][i] = y
    BY <2>1 DEF OnChains
  <2>0. PICK none, cg : /\ none = [i \in 1 .. 0 |-> x]
                        /\ cg = [l \in DOMAIN list' |-> IF l = x THEN none ELSE ch[l]]
    OBVIOUS
  <2>3. cg[x] = none /\ \A l \in DOMAIN list : cg[l] = ch[l]
    BY <1>2, <1>5, <2>0
  <2>4. list'[x].size = 0 /\ list'[x].mostL = NULL /\ list'[x].mostR = NULL
    BY <1>2, <1>5
  <2>5. Chain(node, list'[x], 0, none)
    BY <2>0, <2>4 DEF Chain
  <2>6. ASSUME NEW l \in DOMAIN list'
        PROVE  Chain(node, list'[l], list'[l].size, cg[l])
    <3>1. CASE l = x
      BY <2>3, <2>4, <2>5, <3>1
    <3>2. CASE l \in DOMAIN list
      <4>1. Chain(node, list[l], list[l].size, ch[l])
        BY <2>2, <3>2
      <4>2. \A i \in 1 .. list[l].size : ch[l][i] \in DOMAIN node
        BY <4>1 DEF Chain
      <4>3. Chain(node, list'[l], list[l].size, ch[l])
        BY <1>5, <3>2, <4>1, <4>2, KeepChain
      <4> QED
        BY <1>5, <2>3, <3>2, <4>3
    <3> QED
      BY <1>5, <3>1, <3>2
  <2>7. \A l, m \in DOMAIN list' : \A i \in 1 .. list'[l].size, j \in 1 .. list'[m].size :
            cg[l][i] = cg[m][j] => l = m
    <3> SUFFICES ASSUME NEW l \in DOMAIN list', NEW m \in DOMAIN list',
                        NEW i \in 1 .. list'[l].size, NEW j \in 1 .. list'[m].size,
                        cg[l][i] = cg[m][j]
                 PROVE  l = m
      OBVIOUS
    <3>1. l # x /\ m # x
      BY <2>4
    <3>2. l \in DOMAIN list /\ m \in DOMAIN list
      BY <1>5, <3>1
    <3>3. i \in 1 .. list[l].size /\ j \in 1 .. list[m].size /\ ch[l][i] = ch[m][j]
      BY <1>5, <2>3, <3>2
    <3> QED
      BY <2>2, <3>2, <3>3
  <2>8. \A y \in DOMAIN node : \E l \in DOMAIN list' : \E i \in 1 .. list'[l].size : cg[l][i] = y
    <3> SUFFICES ASSUME NEW y \in DOMAIN node
                 PROVE  \E l \in DOMAIN list' : \E i \in 1 .. list'[l].size : cg[l][i] = y
      OBVIOUS
    <3>0. PICK l \in DOMAIN list : \E i \in 1 .. list[l].size : ch[l][i] = y
      BY <2>2
    <3>1. PICK i \in 1 .. list[l].size : ch[l][i] = y
      BY <3>0
    <3>2. l \in DOMAIN list' /\ i \in 1 .. list'[l].size /\ cg[l][i] = y
      BY <1>5, <2>3, <3>1
    <3> QED
      BY <3>2
  <2>9. OnChains(node, DOMAIN list', list', cg)
    BY <2>6, <2>7, <2>8 DEF OnChains
  <2>10. NodeChains(cg)'
    BY <1>3, <2>9 DEF NodeChains
  <2> QED
    BY <2>10
<1>11. Chained'
  BY <1>9, <1>10 DEF Chained
<1>12. TypeOK'
  <2>1. DOMAIN list' \subseteq 1 .. nList'
    BY <1>2, <1>1, <1>3, <1>5
  <2>2. memUsage' \in Int
    BY <1>1, <1>3 DEF ListSize
  <2>3. pc' \in [Threads -> Labels] /\ L' \in [Threads -> Nat]
    BY <1>1, <1>2, <1>3 DEF Labels
  <2> QED
    BY <1>2, <1>3, <1>5, <1>6, <2>1, <2>2, <2>3 DEF IndInv, TypeOK, ListR
<1>13. Exclusive'
  BY <1>1, <1>3 DEF IndInv, Exclusive, Holding
<1>14. Placed'
  BY <1>1, <1>2, <1>3, <1>6 DEF IndInv, Placed
<1>15. NoDanglingList'
  BY <1>1, <1>3, <1>5, <1>6 DEF IndInv, NoDanglingList
<1>16. EmptyHeld'
  <2> SUFFICES ASSUME NEW l \in DOMAIN list', list'[l].mostL = NULL
               PROVE  \E u \in Threads : L'[u] = l /\ pc'[u] \in {"push", "pushBack", "drop"}
    BY DEF EmptyHeld
  <2>1. CASE l = x
    <3>1. L'[t] = x /\ pc'[t] \in {"push", "pushBack"}
      BY <1>1, <1>3
    <3> QED
      BY <2>1, <3>1
  <2>2. CASE l \in DOMAIN list
    <3>1. PICK u \in Threads : L[u] = l /\ pc[u] \in {"push", "pushBack", "drop"}
      BY <1>5, <2>2 DEF IndInv, EmptyHeld
    <3>2. L'[u] = l /\ pc'[u] \in {"push", "pushBack", "drop"}
      BY <1>1, <1>3, <3>1
    <3> QED
      BY <3>2
  <2> QED
    BY <1>5, <2>1, <2>2
<1>17. Counted'
  <2>1. Cardinality(DOMAIN list') = Cardinality(DOMAIN list) + 1 /\ Cardinality(DOMAIN list) \in Nat
    BY <1>1, <1>2, <1>5, Size
  <2>2. Cardinality(DOMAIN node) \in Nat
    BY Size DEF IndInv, TypeOK
  <2>3. memUsage = TableSize + ListSize * Cardinality(DOMAIN list) + NodeSize * Cardinality(DOMAIN node)
    BY DEF IndInv, Counted
  <2> QED
    BY <1>3, <2>1, <2>2, <2>3 DEF Counted, TableSize, ListSize, NodeSize
<1>18. OneListPerKey'
  <2> DEFINE k == key[t]
  <2>1. Find(k) = NULL
    BY DEF PutNewList
  <2>2. \A l \in DOMAIN list : list[l].key # k
    BY <1>7, <1>8, <2>1, FindFacts
  <2>3. list'[x].key = Clip[k] /\ k \in Keys
    BY <1>2, <1>1, <1>5
  <2>4. \A c \in Keys : Whole(c) /\ Clip[k] = c => c = k
    BY <2>3 DEF Whole
  <2>5. \A l, m \in DOMAIN list : list[l].key = list[m].key /\ list[l].key \in {c \in Keys : Whole(c)} => l = m
    BY DEF IndInv, OneListPerKey
  <2> SUFFICES ASSUME NEW l \in DOMAIN list', NEW m \in DOMAIN list', list'[l].key = list'[m].key,
                      list'[l].key \in Keys, Whole(list'[l].key)
               PROVE  l = m
    BY DEF OneListPerKey
  <2> HIDE DEF k
  <2>6. CASE l = x /\ m # x
    BY <1>5, <2>2, <2>3, <2>4, <2>6
  <2>7. CASE l # x /\ m = x
    BY <1>5, <2>2, <2>3, <2>4, <2>7
  <2>8. CASE l # x /\ m # x
    BY <1>5, <2>5, <2>8
  <2> QED
    BY <2>6, <2>7, <2>8
<1> QED
  BY <1>11, <1>12, <1>13, <1>14, <1>15, <1>16, <1>17, <1>18 DEF IndInv

LEMMA ListPushedR ==
    ASSUME NEW h \in ListR, NEW f, NEW x \in Nat, NEW e, e = PushedR(h, f, x)
    PROVE  /\ e \in ListR /\ e.key = h.key /\ e.L = h.L /\ e.R = h.R
           /\ e.size = h.size + 1 /\ e.mostR = x
           /\ e.mostL = IF h.mostR = NULL THEN x ELSE h.mostL
<1>1. PICK m, z : m = (IF h.mostR = NULL THEN x ELSE h.mostL) /\ z = h.size + 1
  OBVIOUS
<1>2. h \in ListR /\ m \in Nat /\ z \in Int
  BY <1>1 DEF ListR
<1>3. e = [h EXCEPT !.mostR = x, !.mostL = m, !.size = z]
  BY <1>1, Zenon DEF PushedR
<1>4. /\ e \in ListR /\ e.key = h.key /\ e.L = h.L /\ e.R = h.R
      /\ e.size = z /\ e.mostR = x /\ e.mostL = m
  BY <1>2, <1>3 DEF ListR
<1> QED
  BY <1>1, <1>4

LEMMA ListPushedL ==
    ASSUME NEW h \in ListR, NEW f, NEW x \in Nat, NEW e, e = PushedL(h, f, x)
    PROVE  /\ e \in ListR /\ e.key = h.key /\ e.L = h.L /\ e.R = h.R
           /\ e.size = h.size + 1 /\ e.mostL = x
           /\ e.mostR = IF h.mostL = NULL THEN x ELSE h.mostR
<1>1. PICK m, z : m = (IF h.mostL = NULL THEN x ELSE h.mostR) /\ z = h.size + 1
  OBVIOUS
<1>2. h \in ListR /\ m \in Nat /\ z \in Int
  BY <1>1 DEF ListR
<1>3. e = [h EXCEPT !.mostL = x, !.mostR = m, !.size = z]
  BY <1>1, Zenon DEF PushedL
<1>4. /\ e \in ListR /\ e.key = h.key /\ e.L = h.L /\ e.R = h.R
      /\ e.size = z /\ e.mostL = x /\ e.mostR = m
  BY <1>2, <1>3 DEF ListR
<1> QED
  BY <1>1, <1>4

LEMMA ListPopped ==
    ASSUME NEW h \in ListR, NEW f, NEW x, f[x].L \in Nat, f[x].R \in Nat, NEW e, e = Popped(h, f, x)
    PROVE  /\ e \in ListR /\ e.key = h.key /\ e.L = h.L /\ e.R = h.R
           /\ e.size = h.size - 1
           /\ e.mostL = IF f[x].L = NULL THEN f[x].R ELSE h.mostL
           /\ e.mostR = IF f[x].R = NULL THEN f[x].L ELSE h.mostR
<1>1. PICK a, b, z : /\ a = (IF f[x].L = NULL THEN f[x].R ELSE h.mostL)
                     /\ b = (IF f[x].R = NULL THEN f[x].L ELSE h.mostR)
                     /\ z = h.size - 1
  OBVIOUS
<1>2. h \in ListR /\ a \in Nat /\ b \in Nat /\ z \in Int
  BY <1>1 DEF ListR
<1>3. e = [h EXCEPT !.mostL = a, !.mostR = b, !.size = z]
  BY <1>1, Zenon DEF Popped
<1>4. /\ e \in ListR /\ e.key = h.key /\ e.L = h.L /\ e.R = h.R
      /\ e.size = z /\ e.mostL = a /\ e.mostR = b
  BY <1>2, <1>3 DEF ListR
<1> QED
  BY <1>1, <1>4

(* Thread t puts node x into list l, which was h with the chain s and      *)
(* becomes e with the chain q.                                             *)
NodePut(t, l, x, h, s, e, q) ==
    /\ q = IF pc[t] = "push" THEN PutR(h.size, s, x) ELSE PutL(h.size, s, x)
    /\ node'[x].arg = <<t, calls[t]>> /\ \A y \in DOMAIN node : node'[y].arg = node[y].arg
    /\ l \in DOMAIN list /\ x \in Nat /\ x \notin DOMAIN node
    /\ list' = [list EXCEPT ![l] = e] /\ e \in ListR
    /\ e.key = h.key /\ e.L = h.L /\ e.R = h.R /\ e.size = h.size + 1 /\ e.mostL # NULL
    /\ DOMAIN node' = DOMAIN node \cup {x} /\ node' \in [DOMAIN node' -> NodeR]
    /\ Chain(node', e, h.size + 1, q)
    /\ \E i \in 1 .. h.size + 1 : q[i] = x
    /\ \A i \in 1 .. h.size + 1 : q[i] = x \/ \E j \in 1 .. h.size : q[i] = s[j]
    /\ \A j \in 1 .. h.size : \E i \in 1 .. h.size + 1 : q[i] = s[j]
    /\ \A y \in DOMAIN node : (\A j \in 1 .. h.size : s[j] # y) =>
           node'[y].L = node[y].L /\ node'[y].R = node[y].R

LEMMA PutNodeLinks ==
    ASSUME IndInv, NEW t \in Threads, PutNode(t), NEW ch, NodeChains(ch),
           NEW l, l = L[t], NEW x, x = nNode + 1, NEW h, h = list[l]
    PROVE  \E e, q : NodePut(t, l, x, h, ch[l], e, q)
<1>1. /\ pc[t] \in {"push", "pushBack"} /\ l \in DOMAIN list
  BY DEF PutNode, IndInv, Placed, NoDanglingList
<1>2. /\ nNode \in Nat /\ DOMAIN node \subseteq 1 .. nNode /\ node \in [DOMAIN node -> NodeR]
      /\ list \in [DOMAIN list -> ListR] /\ calls[t] \in 0 .. Calls
  BY DEF IndInv, TypeOK, NodeR, ListR
<1>3. x \in Nat /\ x \notin DOMAIN node /\ x # NULL /\ h \in ListR
  BY <1>1, <1>2 DEF NULL
<1>4. NULL \notin DOMAIN node
  BY ListLinks
<1>5. PICK r, s, n : r = NewNode(t) /\ s = ch[l] /\ n = h.size
  OBVIOUS
<1>6. r \in NodeR /\ r.L = NULL /\ r.R = NULL /\ r.arg = <<t, calls[t]>>
  BY <1>2, <1>5 DEF NewNode, NodeR, Items, NULL
<1>7. Chain(node, h, n, s)
  BY <1>1, <1>5 DEF NodeChains, OnChains
<1>8. /\ n \in Nat /\ \A i \in 1 .. n : s[i] \in DOMAIN node
      /\ h.mostL = IF n = 0 THEN NULL ELSE s[1]
      /\ h.mostR = IF n = 0 THEN NULL ELSE s[n]
      /\ \A i \in 1 .. n : /\ node[s[i]].L = IF i = 1 THEN NULL ELSE s[i - 1]
                           /\ node[s[i]].R = IF i = n THEN NULL ELSE s[i + 1]
  BY <1>7 DEF Chain
<1>9. n # 0 => 1 \in 1 .. n /\ n \in 1 .. n
  BY <1>8
<1>10. /\ h.mostL # NULL => h.mostL \in DOMAIN node /\ node[h.mostL].L = NULL /\ \E j \in 1 .. n : s[j] = h.mostL
       /\ h.mostR # NULL => h.mostR \in DOMAIN node /\ node[h.mostR].R = NULL /\ \E j \in 1 .. n : s[j] = h.mostR
       /\ h.mostL = NULL <=> h.mostR = NULL
       /\ h.mostL \in Nat /\ h.mostR \in Nat
  BY <1>3, <1>4, <1>8, <1>9 DEF ListR
<1>11. CASE pc[t] = "push"
  <2>1. PICK e, g : e = PushedR(h, node, x) /\ g = After(node, h.mostR, x, r)
    OBVIOUS
  <2>2. node' = g /\ list' = [list EXCEPT ![l] = e]
    BY <1>5, <1>11, <2>1, Zenon DEF PutNode
  <2>3. /\ e \in ListR /\ e.key = h.key /\ e.L = h.L /\ e.R = h.R
        /\ e.size = h.size + 1 /\ e.mostR = x
        /\ e.mostL = IF h.mostR = NULL THEN x ELSE h.mostL
    BY <1>3, <2>1, ListPushedR
  <2>4. PICK f, p, q : f = node /\ p = h.mostR /\ q = NULL
    OBVIOUS
  <2>5. NodeAfter(f, p, x, r, g, q)
    <3>1. /\ f \in [DOMAIN f -> NodeR] /\ p \in Nat /\ (p # NULL => p \in DOMAIN f)
          /\ x \in Nat /\ x \notin DOMAIN f /\ r \in NodeR
          /\ g = After(f, p, x, r) /\ q = IF p = NULL THEN NULL ELSE f[p].R
      BY <1>2, <1>3, <1>6, <1>10, <2>1, <2>4
    <3> QED
      BY <1>3, <3>1, AfterNode
  <2>6. /\ DOMAIN g = DOMAIN node \cup {x} /\ g \in [DOMAIN g -> NodeR]
        /\ g[x].L = h.mostR /\ g[x].R = NULL
        /\ \A y \in DOMAIN node : /\ g[y].L = node[y].L
                                  /\ g[y].R = IF y = h.mostR THEN x ELSE node[y].R
        /\ g[x].arg = <<t, calls[t]>> /\ \A y \in DOMAIN node : g[y].arg = node[y].arg
    BY <1>4, <1>6, <2>4, <2>5 DEF NodeAfter
  <2>7. PICK c : c = PutR(n, s, x)
    OBVIOUS
  <2>8. Chain(g, e, n + 1, c)
    BY <1>3, <1>4, <1>7, <2>3, <2>6, <2>7, PushRChain
  <2>9. c[n + 1] = x /\ n + 1 \in 1 .. n + 1 /\ \A i \in 1 .. n : c[i] = s[i] /\ i \in 1 .. n + 1
    BY <1>8, <2>7 DEF PutR
  <2>10. \A i \in 1 .. n + 1 : c[i] = x \/ \E j \in 1 .. n : c[i] = s[j]
    <3>1. \A i \in 1 .. n + 1 : i = n + 1 \/ i \in 1 .. n
      BY <1>8
    <3> QED
      BY <2>9, <3>1
  <2>11. \A y \in DOMAIN node : (\A j \in 1 .. n : s[j] # y) =>
            g[y].L = node[y].L /\ g[y].R = node[y].R
    BY <1>4, <1>10, <2>6
  <2>12. e.mostL # NULL
    BY <1>3, <1>10, <2>3
  <2>13. NodePut(t, l, x, h, s, e, c)
    <3>4. c = IF pc[t] = "push" THEN PutR(h.size, s, x) ELSE PutL(h.size, s, x)
      BY <1>5, <1>11, <2>7
    <3>1. \E i \in 1 .. n + 1 : c[i] = x
      BY <2>9
    <3>2. \A j \in 1 .. n : \E i \in 1 .. n + 1 : c[i] = s[j]
      BY <2>9
    <3>5. /\ l \in DOMAIN list /\ x \in Nat /\ x \notin DOMAIN node
          /\ list' = [list EXCEPT ![l] = e] /\ e \in ListR
          /\ e.key = h.key /\ e.L = h.L /\ e.R = h.R /\ e.size = h.size + 1 /\ e.mostL # NULL
      BY <1>1, <1>3, <2>2, <2>3, <2>12
    <3>6. /\ node'[x].arg = <<t, calls[t]>> /\ \A y \in DOMAIN node : node'[y].arg = node[y].arg
          /\ DOMAIN node' = DOMAIN node \cup {x} /\ node' \in [DOMAIN node' -> NodeR]
      BY <2>2, <2>6
    <3>7. /\ Chain(node', e, h.size + 1, c)
          /\ \E i \in 1 .. h.size + 1 : c[i] = x
          /\ \A i \in 1 .. h.size + 1 : c[i] = x \/ \E j \in 1 .. h.size : c[i] = s[j]
          /\ \A j \in 1 .. h.size : \E i \in 1 .. h.size + 1 : c[i] = s[j]
      BY <1>5, <2>2, <2>8, <2>10, <3>1, <3>2
    <3>8. \A y \in DOMAIN node : (\A j \in 1 .. h.size : s[j] # y) =>
             node'[y].L = node[y].L /\ node'[y].R = node[y].R
      BY <1>5, <2>2, <2>11
    <3> QED
      BY <3>4, <3>5, <3>6, <3>7, <3>8, Zenon DEF NodePut
  <2> QED
    BY <1>5, <2>13
<1>12. CASE pc[t] = "pushBack"
  <2>1. PICK e, g : e = PushedL(h, node, x) /\ g = Before(node, h.mostL, x, r)
    OBVIOUS
  <2>2. node' = g /\ list' = [list EXCEPT ![l] = e]
    <3>1. pc[t] # "push"
      BY <1>12
    <3> QED
      BY <1>5, <2>1, <3>1, Zenon DEF PutNode
  <2>3. /\ e \in ListR /\ e.key = h.key /\ e.L = h.L /\ e.R = h.R
        /\ e.size = h.size + 1 /\ e.mostL = x
        /\ e.mostR = IF h.mostL = NULL THEN x ELSE h.mostR
    BY <1>3, <2>1, ListPushedL
  <2>4. PICK f, p, q : f = node /\ p = h.mostL /\ q = NULL
    OBVIOUS
  <2>5. NodeBefore(f, p, x, r, g, q)
    <3>1. /\ f \in [DOMAIN f -> NodeR] /\ p \in Nat /\ (p # NULL => p \in DOMAIN f)
          /\ x \in Nat /\ x \notin DOMAIN f /\ r \in NodeR
          /\ g = Before(f, p, x, r) /\ q = IF p = NULL THEN NULL ELSE f[p].L
      BY <1>2, <1>3, <1>6, <1>10, <2>1, <2>4
    <3> QED
      BY <1>3, <3>1, BeforeNode
  <2>6. /\ DOMAIN g = DOMAIN node \cup {x} /\ g \in [DOMAIN g -> NodeR]
        /\ g[x].L = NULL /\ g[x].R = h.mostL
        /\ \A y \in DOMAIN node : /\ g[y].R = node[y].R
                                  /\ g[y].L = IF y = h.mostL THEN x ELSE node[y].L
        /\ g[x].arg = <<t, calls[t]>> /\ \A y \in DOMAIN node : g[y].arg = node[y].arg
    BY <1>4, <1>6, <2>4, <2>5 DEF NodeBefore
  <2>7. PICK c : c = PutL(n, s, x)
    OBVIOUS
  <2>8. Chain(g, e, n + 1, c)
    BY <1>3, <1>4, <1>7, <2>3, <2>6, <2>7, PushLChain
  <2>9. /\ c[1] = x /\ 1 \in 1 .. n + 1
        /\ \A i \in 1 .. n + 1 : i # 1 => c[i] = s[i - 1] /\ i - 1 \in 1 .. n
        /\ \A i \in 1 .. n : i + 1 \in 1 .. n + 1 /\ c[i + 1] = s[i]
    BY <1>8, <2>7 DEF PutL
  <2>10. \A i \in 1 .. n + 1 : c[i] = x \/ \E j \in 1 .. n : c[i] = s[j]
    BY <2>9
  <2>11. \A y \in DOMAIN node : (\A j \in 1 .. n : s[j] # y) =>
            g[y].L = node[y].L /\ g[y].R = node[y].R
    BY <1>4, <1>10, <2>6
  <2>12. \A j \in 1 .. n : \E i \in 1 .. n + 1 : c[i] = s[j]
    BY <2>9
  <2>13. e.mostL # NULL
    BY <1>3, <2>3
  <2>14. NodePut(t, l, x, h, s, e, c)
    <3>2. c = IF pc[t] = "push" THEN PutR(h.size, s, x) ELSE PutL(h.size, s, x)
      BY <1>5, <1>12, <2>7
    <3>1. \E i \in 1 .. n + 1 : c[i] = x
      BY <2>9
    <3>5. /\ l \in DOMAIN list /\ x \in Nat /\ x \notin DOMAIN node
          /\ list' = [list EXCEPT ![l] = e] /\ e \in ListR
          /\ e.key = h.key /\ e.L = h.L /\ e.R = h.R /\ e.size = h.size + 1 /\ e.mostL # NULL
      BY <1>1, <1>3, <2>2, <2>3, <2>13
    <3>6. /\ node'[x].arg = <<t, calls[t]>> /\ \A y \in DOMAIN node : node'[y].arg = node[y].arg
          /\ DOMAIN node' = DOMAIN node \cup {x} /\ node' \in [DOMAIN node' -> NodeR]
      BY <2>2, <2>6
    <3>7. /\ Chain(node', e, h.size + 1, c)
          /\ \E i \in 1 .. h.size + 1 : c[i] = x
          /\ \A i \in 1 .. h.size + 1 : c[i] = x \/ \E j \in 1 .. h.size : c[i] = s[j]
          /\ \A j \in 1 .. h.size : \E i \in 1 .. h.size + 1 : c[i] = s[j]
      BY <1>5, <2>2, <2>8, <2>10, <3>1, <2>12
    <3>8. \A y \in DOMAIN node : (\A j \in 1 .. h.size : s[j] # y) =>
             node'[y].L = node[y].L /\ node'[y].R = node[y].R
      BY <1>5, <2>2, <2>11
    <3> QED
      BY <3>2, <3>5, <3>6, <3>7, <3>8, Zenon DEF NodePut
  <2> QED
    BY <1>5, <2>14
<1> QED
  BY <1>1, <1>11, <1>12

(* A step that changes the record e and the chain q of one list only. *)
ListChanged(ch, l, e, q) ==
    /\ l \in DOMAIN list /\ list' = [list EXCEPT ![l] = e]
    /\ e.key = list[l].key /\ e.L = list[l].L /\ e.R = list[l].R
    /\ T'.size = T.size /\ T'.mostL = T.mostL /\ T'.mostR = T.mostR
    /\ Chain(node', e, e.size, q)
    /\ \A y \in DOMAIN node : (\A j \in 1 .. list[l].size : ch[l][j] # y) =>
           /\ y \in DOMAIN node' /\ node'[y].L = node[y].L /\ node'[y].R = node[y].R
           /\ \A i \in 1 .. e.size : q[i] # y
    /\ \A y \in DOMAIN node' : \/ \E i \in 1 .. e.size : q[i] = y
                               \/ y \in DOMAIN node /\ \A j \in 1 .. list[l].size : ch[l][j] # y

LEMMA OneList ==
    ASSUME IndInv, NEW ch, NodeChains(ch), NEW l, NEW e, NEW q, ListChanged(ch, l, e, q)
    PROVE  Chained' /\ OneListPerKey'
<1> USE DEF ListChanged
<1>1. /\ DOMAIN list' = DOMAIN list /\ list'[l] = e
      /\ \A m \in DOMAIN list \ {l} : list'[m] = list[m]
  OBVIOUS
<1>2. \E n, s : ListChain(n, s)'
  <2>1. PICK n, s : ListChain(n, s)
    BY DEF IndInv, Chained
  <2>2. Chain(list, T, n, s)
    BY <2>1 DEF ListChain
  <2>3. \A i \in 1 .. n : s[i] \in DOMAIN list
    BY <2>2 DEF Chain
  <2>4. \A i \in 1 .. n : /\ s[i] \in DOMAIN list'
                          /\ list'[s[i]].L = list[s[i]].L /\ list'[s[i]].R = list[s[i]].R
    BY <1>1, <2>3
  <2>5. Chain(list', T', n, s)
    BY <2>2, <2>4, KeepChain
  <2>6. ListChain(n, s)'
    BY <1>1, <2>1, <2>5 DEF ListChain
  <2> QED
    BY <2>6
<1>3. \E cg : NodeChains(cg)'
  <2>1. OnChains(node, DOMAIN list, list, ch)
    BY DEF NodeChains
  <2>2. /\ \A m \in DOMAIN list : Chain(node, list[m], list[m].size, ch[m])
        /\ \A m, k \in DOMAIN list : \A i \in 1 .. list[m].size, j \in 1 .. list[k].size :
               ch[m][i] = ch[k][j] => m = k
    BY <2>1 DEF OnChains
  <2>3. ASSUME NEW m \in DOMAIN list \ {l}, NEW i \in 1 .. list[m].size
        PROVE  /\ ch[m][i] \in DOMAIN node'
               /\ node'[ch[m][i]].L = node[ch[m][i]].L /\ node'[ch[m][i]].R = node[ch[m][i]].R
               /\ \A j \in 1 .. e.size : q[j] # ch[m][i]
    <3>1. Chain(node, list[m], list[m].size, ch[m])
      BY <2>2
    <3>2. ch[m][i] \in DOMAIN node
      BY <3>1 DEF Chain
    <3>3. \A j \in 1 .. list[l].size : ch[l][j] # ch[m][i]
      BY <2>2
    <3> QED
      BY <3>2, <3>3
  <2>4. PICK f, D, hd, g, hf : f = node /\ D = DOMAIN list /\ hd = list /\ g = node' /\ hf = list'
    OBVIOUS
  <2>5. /\ OnChains(f, D, hd, ch) /\ l \in D /\ Chain(g, hf[l], hf[l].size, q)
        /\ \A c \in D \ {l} : /\ hf[c].size = hd[c].size
                              /\ hf[c].mostL = hd[c].mostL /\ hf[c].mostR = hd[c].mostR
    BY <1>1, <2>1, <2>4
  <2>6. \A c \in D \ {l} : \A i \in 1 .. hd[c].size :
            /\ ch[c][i] \in DOMAIN g
            /\ g[ch[c][i]].L = f[ch[c][i]].L /\ g[ch[c][i]].R = f[ch[c][i]].R
            /\ \A j \in 1 .. hf[l].size : q[j] # ch[c][i]
    BY <1>1, <2>3, <2>4
  <2>7. \A y \in DOMAIN g : \/ \E i \in 1 .. hf[l].size : q[i] = y
                            \/ y \in DOMAIN f /\ \A j \in 1 .. hd[l].size : ch[l][j] # y
    <3> SUFFICES ASSUME NEW y \in DOMAIN node', ~ \E i \in 1 .. e.size : q[i] = y
                 PROVE  y \in DOMAIN node /\ \A j \in 1 .. list[l].size : ch[l][j] # y
      BY <1>1, <2>4
    <3> QED
      OBVIOUS
  <2>8. \E cg : OnChains(g, D, hf, cg)
    <3>1. OneChanged(f, D, hd, ch, l, g, hf, q)
      BY <2>5, <2>6, <2>7 DEF OneChanged
    <3> QED
      BY <2>5, <3>1, OneChain
  <2>9. PICK cg : OnChains(node', DOMAIN list', list', cg)
    BY <1>1, <2>4, <2>8
  <2>10. NodeChains(cg)'
    BY <2>9 DEF NodeChains
  <2> QED
    BY <2>10
<1>4. OneListPerKey'
  <2>1. \A m \in DOMAIN list : list'[m].key = list[m].key
    BY <1>1
  <2> QED
    BY <1>1, <2>1 DEF IndInv, OneListPerKey
<1> QED
  BY <1>2, <1>3, <1>4 DEF Chained

LEMMA PutNodeStep ==
    ASSUME IndInv, NEW t \in Threads, PutNode(t)
    PROVE  IndInv'
<1>1. PICK ch : NodeChains(ch)
  BY DEF IndInv, Chained
<1>2. PICK l, x, h : l = L[t] /\ x = nNode + 1 /\ h = list[l]
  OBVIOUS
<1>3. PICK e, q : NodePut(t, l, x, h, ch[l], e, q)
  BY <1>1, <1>2, PutNodeLinks
<1>4. /\ l \in DOMAIN list /\ x \in Nat /\ x \notin DOMAIN node
      /\ list' = [list EXCEPT ![l] = e] /\ e \in ListR
      /\ e.key = h.key /\ e.L = h.L /\ e.R = h.R /\ e.size = h.size + 1 /\ e.mostL # NULL
      /\ DOMAIN node' = DOMAIN node \cup {x} /\ node' \in [DOMAIN node' -> NodeR]
      /\ Chain(node', e, h.size + 1, q)
      /\ \E i \in 1 .. h.size + 1 : q[i] = x
      /\ \A i \in 1 .. h.size + 1 : q[i] = x \/ \E j \in 1 .. h.size : q[i] = ch[l][j]
      /\ \A j \in 1 .. h.size : \E i \in 1 .. h.size + 1 : q[i] = ch[l][j]
      /\ \A y \in DOMAIN node : (\A j \in 1 .. h.size : ch[l][j] # y) =>
             node'[y].L = node[y].L /\ node'[y].R = node[y].R
  BY <1>3 DEF NodePut
<1>5. /\ nNode' = x /\ memUsage' = memUsage + NodeSize /\ pc' = [pc EXCEPT ![t] = "unlock"]
      /\ UNCHANGED <<nList, T, mutex, calls, key, L, arg, sum>> /\ pc[t] \in {"push", "pushBack"}
  BY <1>2 DEF PutNode, Goto
<1>6. /\ list \in [DOMAIN list -> ListR] /\ DOMAIN node \subseteq 1 .. nNode /\ nNode \in Nat
      /\ pc \in [Threads -> Labels] /\ memUsage \in Int
  BY DEF IndInv, TypeOK, ListR
<1>7. /\ DOMAIN list' = DOMAIN list /\ list'[l] = e /\ list' \in [DOMAIN list -> ListR]
      /\ \A m \in DOMAIN list \ {l} : list'[m] = list[m]
  BY <1>4, <1>6
<1>8. Chained' /\ OneListPerKey'
  <2>1. Chain(node', e, e.size, q)
    BY <1>4
  <2>2. \A y \in DOMAIN node : (\A j \in 1 .. list[l].size : ch[l][j] # y) =>
            /\ y \in DOMAIN node' /\ node'[y].L = node[y].L /\ node'[y].R = node[y].R
            /\ \A i \in 1 .. e.size : q[i] # y
    <3> SUFFICES ASSUME NEW y \in DOMAIN node, \A j \in 1 .. h.size : ch[l][j] # y
                 PROVE  /\ y \in DOMAIN node' /\ node'[y].L = node[y].L /\ node'[y].R = node[y].R
                        /\ \A i \in 1 .. e.size : q[i] # y
      BY <1>2
    <3>1. y # x
      BY <1>4
    <3>2. \A i \in 1 .. h.size + 1 : q[i] # y
      BY <1>4, <3>1
    <3> QED
      BY <1>4, <3>2
  <2>3. \A y \in DOMAIN node' : \/ \E i \in 1 .. e.size : q[i] = y
                                \/ y \in DOMAIN node /\ \A j \in 1 .. list[l].size : ch[l][j] # y
    <3> SUFFICES ASSUME NEW y \in DOMAIN node'
                 PROVE  \/ \E i \in 1 .. h.size + 1 : q[i] = y
                        \/ y \in DOMAIN node /\ \A j \in 1 .. h.size : ch[l][j] # y
      BY <1>2, <1>4
    <3> QED
      BY <1>4
  <2>4. ListChanged(ch, l, e, q)
    BY <1>2, <1>4, <1>5, <2>1, <2>2, <2>3 DEF ListChanged
  <2> QED
    BY <1>1, <2>4, OneList
<1>9. TypeOK'
  <2>1. DOMAIN node' \subseteq 1 .. nNode'
    BY <1>2, <1>4, <1>5, <1>6
  <2>2. memUsage' \in Int /\ pc' \in [Threads -> Labels]
    BY <1>5, <1>6 DEF NodeSize, Labels
  <2> QED
    BY <1>4, <1>5, <1>7, <2>1, <2>2 DEF IndInv, TypeOK, ListR, NodeR
<1>10. Exclusive'
  BY <1>5, <1>6 DEF IndInv, Exclusive, Holding
<1>11. Placed'
  BY <1>5, <1>6 DEF IndInv, Placed
<1>12. NoDanglingList'
  BY <1>5, <1>6, <1>7 DEF IndInv, NoDanglingList
<1>13. EmptyHeld'
  <2> SUFFICES ASSUME NEW m \in DOMAIN list', list'[m].mostL = NULL
               PROVE  \E u \in Threads : L'[u] = m /\ pc'[u] \in {"push", "pushBack", "drop"}
    BY DEF EmptyHeld
  <2>1. m # l
    BY <1>4, <1>7
  <2>2. PICK u \in Threads : L[u] = m /\ pc[u] \in {"push", "pushBack", "drop"}
    BY <1>7, <2>1 DEF IndInv, EmptyHeld
  <2>3. L'[u] = m /\ pc'[u] \in {"push", "pushBack", "drop"}
    BY <1>2, <1>5, <1>6, <2>1, <2>2
  <2> QED
    BY <2>3
<1>14. Counted'
  <2>1. Cardinality(DOMAIN node') = Cardinality(DOMAIN node) + 1 /\ Cardinality(DOMAIN node) \in Nat
    BY <1>4, <1>6, Size
  <2>2. Cardinality(DOMAIN list) \in Nat
    BY Size DEF IndInv, TypeOK
  <2>3. memUsage = TableSize + ListSize * Cardinality(DOMAIN list) + NodeSize * Cardinality(DOMAIN node)
    BY DEF IndInv, Counted
  <2> QED
    BY <1>5, <1>7, <2>1, <2>2, <2>3 DEF Counted, TableSize, ListSize, NodeSize
<1> QED
  BY <1>8, <1>9, <1>10, <1>11, <1>12, <1>13, <1>14 DEF IndInv

(* The first node x of the cursor's list l goes: the list was h with the   *)
(* chain s and becomes e with the chain q.                                 *)
NodeTaken(l, x, h, n, s, e, q) ==
    /\ l = T.cur /\ l \in DOMAIN list /\ h = list[l] /\ h \in ListR /\ x = h.mostL
    /\ n = h.size /\ n \in Nat /\ n # 0 /\ x = s[1] /\ \A i \in 1 .. n : s[i] \in DOMAIN node
    /\ x \in DOMAIN node /\ node[x] \in NodeR
    /\ node[x].L = NULL /\ node[x].R = IF n = 1 THEN NULL ELSE s[2]
    /\ list' = [list EXCEPT ![l] = e] /\ e \in ListR
    /\ e.key = h.key /\ e.L = h.L /\ e.R = h.R /\ e.size = n - 1
    /\ e.mostL = (IF n = 1 THEN NULL ELSE s[2])
    /\ DOMAIN node' = DOMAIN node \ {x} /\ node' \in [DOMAIN node' -> NodeR]
    /\ \A y \in DOMAIN node \ {x} :
          /\ node'[y].R = IF y = node[x].L THEN node[x].R ELSE node[y].R
          /\ node'[y].L = IF y = node[x].R THEN node[x].L ELSE node[y].L
          /\ node'[y].arg = node[y].arg
    /\ Chain(node', e, n - 1, q) /\ q = Drop(n, s, 1)

LEMMA TakeNode ==
    ASSUME IndInv, NEW t \in Threads, GetTake(t), NEW ch, NodeChains(ch)
    PROVE  \E l, x, h, n, e, q : NodeTaken(l, x, h, n, ch[l], e, q)
<1>2. PICK l, x, h, e : l = T.cur /\ h = list[l] /\ x = h.mostL /\ e = Popped(h, node, x)
  OBVIOUS
<1>3. /\ pc[t] = "take" /\ l # NULL /\ x # NULL
      /\ list' = [list EXCEPT ![l] = e] /\ node' = Without(node, x)
  BY <1>2 DEF GetTake
<1>4. /\ list \in [DOMAIN list -> ListR] /\ node \in [DOMAIN node -> NodeR]
      /\ DOMAIN node \subseteq 1 .. nNode /\ nNode \in Nat
  BY DEF IndInv, TypeOK, ListR, NodeR
<1>5. l \in DOMAIN list /\ h \in ListR
  BY <1>2, <1>3, <1>4 DEF IndInv, NoDanglingList
<1>6. NULL \notin DOMAIN node
  BY ListLinks
<1>7. PICK s, n : s = ch[l] /\ n = h.size
  OBVIOUS
<1>8. Chain(node, h, n, s)
  BY <1>2, <1>5, <1>7 DEF NodeChains, OnChains
<1>9. /\ n \in Nat /\ \A i \in 1 .. n : s[i] \in DOMAIN node
      /\ \A i, j \in 1 .. n : s[i] = s[j] => i = j
      /\ h.mostL = IF n = 0 THEN NULL ELSE s[1]
      /\ \A i \in 1 .. n : /\ node[s[i]].L = IF i = 1 THEN NULL ELSE s[i - 1]
                           /\ node[s[i]].R = IF i = n THEN NULL ELSE s[i + 1]
  BY <1>8 DEF Chain
<1>10. /\ n # 0 /\ x = s[1] /\ 1 \in 1 .. n /\ x \in DOMAIN node /\ node[x].L = NULL
       /\ node[x].R = IF n = 1 THEN NULL ELSE s[2]
       /\ n # 1 => 2 \in 1 .. n
  <2>1. n # 0 /\ x = s[1]
    BY <1>2, <1>3, <1>9
  <2>2. 1 \in 1 .. n
    BY <1>9, <2>1
  <2> QED
    BY <1>9, <2>1, <2>2
<1>11. node[x] \in NodeR /\ node[x].L \in Nat /\ node[x].R \in Nat /\ node[x].arg \in Items
  BY <1>4, <1>10 DEF NodeR
<1>12. /\ e \in ListR /\ e.key = h.key /\ e.L = h.L /\ e.R = h.R
       /\ e.size = h.size - 1
       /\ e.mostL = IF node[x].L = NULL THEN node[x].R ELSE h.mostL
       /\ e.mostR = IF node[x].R = NULL THEN node[x].L ELSE h.mostR
  BY <1>2, <1>5, <1>11, ListPopped
<1>13. /\ DOMAIN node' = DOMAIN node \ {x} /\ node' \in [DOMAIN node' -> NodeR]
       /\ \A y \in DOMAIN node \ {x} :
             /\ node'[y].R = IF y = node[x].L THEN node[x].R ELSE node[y].R
             /\ node'[y].L = IF y = node[x].R THEN node[x].L ELSE node[y].L
             /\ node'[y].arg = node[y].arg
  <2>1. PICK f, g : f = node /\ g = node'
    OBVIOUS
  <2>2. f \in [DOMAIN f -> NodeR] /\ x \in DOMAIN f /\ g = Without(f, x)
    BY <1>3, <1>4, <1>10, <2>1
  <2>3. NodeWithout(f, x, g)
    BY <2>2, WithoutNode
  <2> QED
    BY <2>1, <2>3 DEF NodeWithout
<1>14. PICK q : q = Drop(n, s, 1)
  OBVIOUS
<1>15. Chain(node', e, n - 1, q)
  <2>1. PICK f, g, p : f = node /\ g = node' /\ p = 1
    OBVIOUS
  <2>2. /\ Chain(f, h, n, s) /\ NULL \notin DOMAIN f /\ p \in 1 .. n /\ x = s[p]
        /\ DOMAIN g = DOMAIN f \ {x}
        /\ e.size = h.size - 1
        /\ e.mostL = IF f[x].L = NULL THEN f[x].R ELSE h.mostL
        /\ e.mostR = IF f[x].R = NULL THEN f[x].L ELSE h.mostR
        /\ q = Drop(n, s, p)
    BY <1>6, <1>8, <1>10, <1>12, <1>13, <1>14, <2>1
  <2>3. \A y \in DOMAIN f \ {x} : /\ g[y].R = IF y = f[x].L THEN f[x].R ELSE f[y].R
                                  /\ g[y].L = IF y = f[x].R THEN f[x].L ELSE f[y].L
    BY <1>13, <2>1
  <2>4. Chain(g, e, n - 1, Drop(n, s, p))
    BY <2>2, <2>3, DropChain
  <2> QED
    BY <2>1, <2>2, <2>4
<1>16. e.mostL = IF n = 1 THEN NULL ELSE s[2]
  BY <1>10, <1>12
<1>17. NodeTaken(l, x, h, n, s, e, q)
  BY <1>2, <1>3, <1>5, <1>7, <1>9, <1>10, <1>11, <1>12, <1>13, <1>14, <1>15, <1>16 DEF NodeTaken
<1> QED
  BY <1>7, <1>17

LEMMA GetTakeStep ==
    ASSUME IndInv, NEW t \in Threads, GetTake(t)
    PROVE  IndInv'
<1>1. PICK ch : NodeChains(ch)
  BY DEF IndInv, Chained
<1>2. PICK l, x, h, n, e, q : NodeTaken(l, x, h, n, ch[l], e, q)
  BY <1>1, TakeNode
<1>7. PICK s : s = ch[l]
  OBVIOUS
<1>5. /\ l = T.cur /\ l \in DOMAIN list /\ h = list[l] /\ h \in ListR /\ x = h.mostL
      /\ n = h.size /\ n \in Nat /\ n # 0 /\ x = s[1] /\ \A i \in 1 .. n : s[i] \in DOMAIN node
      /\ x \in DOMAIN node /\ node[x] \in NodeR
      /\ node[x].L = NULL /\ node[x].R = IF n = 1 THEN NULL ELSE s[2]
  BY <1>2, <1>7 DEF NodeTaken
<1>3. /\ pc[t] = "take" /\ l # NULL
      /\ arg' = [arg EXCEPT ![t] = node[x].arg]
      /\ memUsage' = memUsage - NodeSize /\ T' = [T EXCEPT !.cur = h.R]
      /\ L' = [L EXCEPT ![t] = l] /\ pc' = [pc EXCEPT ![t] = "drop"]
      /\ UNCHANGED <<nList, nNode, mutex, calls, key, sum>>
  BY <1>5 DEF GetTake, Successor, At, Goto
<1>4. /\ list \in [DOMAIN list -> ListR] /\ node \in [DOMAIN node -> NodeR]
      /\ DOMAIN node \subseteq 1 .. nNode /\ nNode \in Nat
      /\ pc \in [Threads -> Labels] /\ L \in [Threads -> Nat] /\ memUsage \in Int
      /\ T \in [size : Int, mostL : Nat, mostR : Nat, cur : Nat]
      /\ arg \in [Threads -> Items \cup {NoItem}]
  BY DEF IndInv, TypeOK, ListR, NodeR
<1>6. NULL \notin DOMAIN node /\ NULL \notin DOMAIN list /\ h.R # l /\ (h.R # NULL => h.R \in DOMAIN list)
  BY <1>5, ListLinks
<1>10. 1 \in 1 .. n /\ (n # 1 => 2 \in 1 .. n) /\ node[x].arg \in Items
  BY <1>5 DEF NodeR
<1>12. /\ list' = [list EXCEPT ![l] = e] /\ e \in ListR
       /\ e.key = h.key /\ e.L = h.L /\ e.R = h.R /\ e.size = n - 1
       /\ Chain(node', e, n - 1, q) /\ q = Drop(n, s, 1)
  BY <1>2, <1>7 DEF NodeTaken
<1>13. /\ DOMAIN node' = DOMAIN node \ {x} /\ node' \in [DOMAIN node' -> NodeR]
       /\ \A y \in DOMAIN node \ {x} :
             /\ node'[y].R = IF y = node[x].L THEN node[x].R ELSE node[y].R
             /\ node'[y].L = IF y = node[x].R THEN node[x].L ELSE node[y].L
  BY <1>2 DEF NodeTaken
<1>16. /\ DOMAIN list' = DOMAIN list /\ list'[l] = e /\ list' \in [DOMAIN list -> ListR]
       /\ \A m \in DOMAIN list \ {l} : list'[m] = list[m]
  BY <1>4, <1>5, <1>12
<1>17. /\ T' \in [size : Int, mostL : Nat, mostR : Nat, cur : Nat] /\ T'.cur = h.R
       /\ T'.size = T.size /\ T'.mostL = T.mostL /\ T'.mostR = T.mostR
  <2>1. h.R \in Nat
    BY <1>5 DEF ListR
  <2> QED
    BY <1>3, <1>4, <2>1
<1>18. \A i \in 1 .. n - 1 : q[i] = s[i + 1] /\ i + 1 \in 1 .. n
  BY <1>5, <1>12 DEF Drop
<1>19. Chained' /\ OneListPerKey'
  <2>1. Chain(node', e, e.size, q) /\ e.size = n - 1
    BY <1>12
  <2>2. \A y \in DOMAIN node : (\A j \in 1 .. list[l].size : ch[l][j] # y) =>
            /\ y \in DOMAIN node' /\ node'[y].L = node[y].L /\ node'[y].R = node[y].R
            /\ \A i \in 1 .. e.size : q[i] # y
    <3> SUFFICES ASSUME NEW y \in DOMAIN node, \A j \in 1 .. n : s[j] # y
                 PROVE  /\ y \in DOMAIN node' /\ node'[y].L = node[y].L /\ node'[y].R = node[y].R
                        /\ \A i \in 1 .. n - 1 : q[i] # y
      BY <1>5, <1>7, <2>1
    <3>1. y # x /\ y # node[x].R /\ y # node[x].L
      BY <1>5, <1>6, <1>10
    <3> QED
      BY <1>13, <1>18, <3>1
  <2>3. \A y \in DOMAIN node' : \/ \E i \in 1 .. e.size : q[i] = y
                                \/ y \in DOMAIN node /\ \A j \in 1 .. list[l].size : ch[l][j] # y
    <3> SUFFICES ASSUME NEW y \in DOMAIN node', NEW j \in 1 .. n, s[j] = y
                 PROVE  \E i \in 1 .. n - 1 : q[i] = y
      BY <1>5, <1>7, <1>13, <2>1
    <3>1. j # 1
      BY <1>5, <1>13
    <3>2. j - 1 \in 1 .. n - 1 /\ j - 1 + 1 = j
      BY <1>5, <3>1
    <3>3. q[j - 1] = y
      BY <1>18, <3>2
    <3> QED
      BY <3>2, <3>3
  <2>4. ListChanged(ch, l, e, q)
    BY <1>5, <1>7, <1>12, <1>17, <2>1, <2>2, <2>3 DEF ListChanged
  <2> QED
    BY <1>1, <2>4, OneList
<1>20. TypeOK'
  <2>1. DOMAIN node' \subseteq 1 .. nNode'
    BY <1>3, <1>4, <1>13
  <2>2. memUsage' \in Int /\ pc' \in [Threads -> Labels] /\ arg' \in [Threads -> Items \cup {NoItem}]
    BY <1>3, <1>4, <1>10 DEF NodeSize, Labels
  <2>3. L' \in [Threads -> Nat]
    <3>1. l \in Nat
      BY <1>4, <1>5
    <3> QED
      BY <1>3, <1>4, <3>1
  <2> QED
    BY <1>3, <1>13, <1>16, <1>17, <2>1, <2>2, <2>3 DEF IndInv, TypeOK, ListR, NodeR
<1>21. Exclusive'
  BY <1>3, <1>4 DEF IndInv, Exclusive, Holding
<1>22. Placed'
  <2>1. \A u \in Threads : u # t => pc[u] # "drop"
    BY <1>3 DEF IndInv, Exclusive, Holding
  <2> QED
    BY <1>3, <1>4, <1>6, <1>17, <2>1 DEF IndInv, Placed
<1>23. NoDanglingList'
  BY <1>3, <1>4, <1>5, <1>6, <1>16, <1>17 DEF IndInv, NoDanglingList
<1>24. EmptyHeld'
  <2> SUFFICES ASSUME NEW m \in DOMAIN list', list'[m].mostL = NULL
               PROVE  \E u \in Threads : L'[u] = m /\ pc'[u] \in {"push", "pushBack", "drop"}
    BY DEF EmptyHeld
  <2>1. CASE m = l
    <3>1. L'[t] = l /\ pc'[t] = "drop"
      BY <1>3, <1>4
    <3> QED
      BY <2>1, <3>1
  <2>2. CASE m # l
    <3>1. PICK u \in Threads : L[u] = m /\ pc[u] \in {"push", "pushBack", "drop"}
      BY <1>16, <2>2 DEF IndInv, EmptyHeld
    <3>2. L'[u] = m /\ pc'[u] \in {"push", "pushBack", "drop"}
      BY <1>3, <1>4, <3>1
    <3> QED
      BY <3>2
  <2> QED
    BY <2>1, <2>2
<1>25. Counted'
  <2>1. Cardinality(DOMAIN node') = Cardinality(DOMAIN node) - 1 /\ Cardinality(DOMAIN node) \in Nat
    BY <1>4, <1>5, <1>13, Size
  <2>2. Cardinality(DOMAIN list) \in Nat
    BY Size DEF IndInv, TypeOK
  <2>3. memUsage = TableSize + ListSize * Cardinality(DOMAIN list) + NodeSize * Cardinality(DOMAIN node)
    BY DEF IndInv, Counted
  <2> QED
    BY <1>3, <1>16, <2>1, <2>2, <2>3 DEF Counted, TableSize, ListSize, NodeSize
<1> QED
  BY <1>19, <1>20, <1>21, <1>22, <1>23, <1>24, <1>25 DEF IndInv

(* The list l that is emptied leaves the table. *)
(* List l goes: the others and T as they are after it. *)
ListGone(l) ==
    /\ DOMAIN list' = DOMAIN list \ {l} /\ list' \in [DOMAIN list' -> ListR]
    /\ \A y \in DOMAIN list \ {l} :
          /\ list'[y].R = IF y = list[l].L THEN list[l].R ELSE list[y].R
          /\ list'[y].L = IF y = list[l].R THEN list[l].L ELSE list[y].L
          /\ list'[y].key = list[y].key /\ list'[y].size = list[y].size
          /\ list'[y].mostL = list[y].mostL /\ list'[y].mostR = list[y].mostR
    /\ T' \in [size : Int, mostL : Nat, mostR : Nat, cur : Nat] /\ T'.cur = T.cur
    /\ T'.size = T.size - 1
    /\ T'.mostL = IF list[l].L = NULL THEN list[l].R ELSE T.mostL
    /\ T'.mostR = IF list[l].R = NULL THEN list[l].L ELSE T.mostR

LEMMA GoneList ==
    ASSUME IndInv, NEW l \in DOMAIN list,
           T' = Popped(T, list, l), list' = Without(list, l)
    PROVE  ListGone(l)
<1>1. /\ list \in [DOMAIN list -> ListR]
      /\ T \in [size : Int, mostL : Nat, mostR : Nat, cur : Nat]
  BY DEF IndInv, TypeOK, ListR
<1>2. /\ DOMAIN list' = DOMAIN list \ {l} /\ list' \in [DOMAIN list' -> ListR]
      /\ \A y \in DOMAIN list \ {l} :
            /\ list'[y].R = IF y = list[l].L THEN list[l].R ELSE list[y].R
            /\ list'[y].L = IF y = list[l].R THEN list[l].L ELSE list[y].L
            /\ list'[y].key = list[y].key /\ list'[y].size = list[y].size
            /\ list'[y].mostL = list[y].mostL /\ list'[y].mostR = list[y].mostR
  <2>1. PICK f, g : f = list /\ g = list'
    OBVIOUS
  <2>2. f \in [DOMAIN f -> ListR] /\ l \in DOMAIN f /\ g = Without(f, l)
    BY <1>1, <2>1
  <2>3. ListWithout(f, l, g)
    BY <2>2, WithoutList
  <2> QED
    BY <2>1, <2>3 DEF ListWithout
<1>3. /\ T' \in [size : Int, mostL : Nat, mostR : Nat, cur : Nat] /\ T'.cur = T.cur
      /\ T'.size = T.size - 1
      /\ T'.mostL = IF list[l].L = NULL THEN list[l].R ELSE T.mostL
      /\ T'.mostR = IF list[l].R = NULL THEN list[l].L ELSE T.mostR
  <2>1. PICK a, b, z : /\ a = (IF list[l].L = NULL THEN list[l].R ELSE T.mostL)
                       /\ b = (IF list[l].R = NULL THEN list[l].L ELSE T.mostR)
                       /\ z = T.size - 1
    OBVIOUS
  <2>2. list[l].L \in Nat /\ list[l].R \in Nat
    BY <1>1 DEF ListR
  <2>3. a \in Nat /\ b \in Nat /\ z \in Int
    BY <1>1, <2>1, <2>2
  <2>4. T' = [T EXCEPT !.mostL = a, !.mostR = b, !.size = z]
    BY <2>1, Zenon DEF Popped
  <2>5. /\ T' \in [size : Int, mostL : Nat, mostR : Nat, cur : Nat]
        /\ T'.size = z /\ T'.mostL = a /\ T'.mostR = b /\ T'.cur = T.cur
    BY <1>1, <2>3, <2>4
  <2> QED
    BY <2>1, <2>5
<1> QED
  BY <1>2, <1>3 DEF ListGone

LEMMA GoneChain ==
    ASSUME IndInv, NEW l \in DOMAIN list, ListGone(l),
           NEW n, NEW s, ListChain(n, s), NEW p \in 1 .. n, s[p] = l
    PROVE  ListChain(n - 1, Drop(n, s, p))'
<1>1. NULL \notin DOMAIN list
  BY ListLinks
<1>2. /\ DOMAIN list' = DOMAIN list \ {l}
      /\ \A y \in DOMAIN list \ {l} : /\ list'[y].R = IF y = list[l].L THEN list[l].R ELSE list[y].R
                                      /\ list'[y].L = IF y = list[l].R THEN list[l].L ELSE list[y].L
      /\ T'.size = T.size - 1
      /\ T'.mostL = IF list[l].L = NULL THEN list[l].R ELSE T.mostL
      /\ T'.mostR = IF list[l].R = NULL THEN list[l].L ELSE T.mostR
  BY DEF ListGone
<1>3. Chain(list, T, n, s) /\ \A m \in DOMAIN list : \E i \in 1 .. n : s[i] = m
  BY DEF ListChain
<1>4. PICK q : q = Drop(n, s, p)
  OBVIOUS
<1>5. Chain(list', T', n - 1, q)
  <2>1. PICK f, g, h, e : f = list /\ g = list' /\ h = T /\ e = T'
    OBVIOUS
  <2>2. /\ Chain(f, h, n, s) /\ NULL \notin DOMAIN f /\ l = s[p]
        /\ DOMAIN g = DOMAIN f \ {l}
        /\ e.size = h.size - 1
        /\ e.mostL = IF f[l].L = NULL THEN f[l].R ELSE h.mostL
        /\ e.mostR = IF f[l].R = NULL THEN f[l].L ELSE h.mostR
    BY <1>1, <1>2, <1>3, <2>1
  <2>3. \A y \in DOMAIN f \ {l} : /\ g[y].R = IF y = f[l].L THEN f[l].R ELSE f[y].R
                                  /\ g[y].L = IF y = f[l].R THEN f[l].L ELSE f[y].L
    BY <1>2, <2>1
  <2>4. Chain(g, e, n - 1, Drop(n, s, p))
    BY <2>2, <2>3, DropChain
  <2> QED
    BY <1>4, <2>1, <2>4
<1>6. n \in Nat
  BY <1>3 DEF Chain
<1>7. ASSUME NEW m \in DOMAIN list' PROVE \E i \in 1 .. n - 1 : q[i] = m
  <2>1. PICK j \in 1 .. n : s[j] = m
    BY <1>2, <1>3
  <2>2. j # p
    BY <1>2, <2>1
  <2>3. PICK i : i = IF j < p THEN j ELSE j - 1
    OBVIOUS
  <2>4. i \in 1 .. n - 1 /\ q[i] = m
    BY <1>4, <1>6, <2>1, <2>2, <2>3 DEF Drop
  <2> QED
    BY <2>4
<1>8. ListChain(n - 1, q)'
  BY <1>5, <1>7 DEF ListChain
<1> QED
  BY <1>4, <1>8

LEMMA DropLinks ==
    ASSUME IndInv, NEW l \in DOMAIN list, list[l].mostL = NULL,
           T' = Popped(T, list, l), list' = Without(list, l), UNCHANGED node
    PROVE  /\ Chained' /\ OneListPerKey'
           /\ T' \in [size : Int, mostL : Nat, mostR : Nat, cur : Nat] /\ T'.cur = T.cur
           /\ DOMAIN list' = DOMAIN list \ {l} /\ list' \in [DOMAIN list' -> ListR]
           /\ \A m \in DOMAIN list \ {l} : list'[m].mostL = list[m].mostL
<1>1. NULL \notin DOMAIN list /\ NULL \notin DOMAIN node
  BY ListLinks
<1>2. ListGone(l)
  BY GoneList
<1>3. /\ DOMAIN list' = DOMAIN list \ {l} /\ list' \in [DOMAIN list' -> ListR]
      /\ \A y \in DOMAIN list \ {l} :
            /\ list'[y].key = list[y].key /\ list'[y].size = list[y].size
            /\ list'[y].mostL = list[y].mostL /\ list'[y].mostR = list[y].mostR
  BY <1>2 DEF ListGone
<1>4. T' \in [size : Int, mostL : Nat, mostR : Nat, cur : Nat] /\ T'.cur = T.cur
  BY <1>2 DEF ListGone
<1>5. \E n, s : ListChain(n, s)'
  <2>1. PICK n, s : ListChain(n, s)
    BY DEF IndInv, Chained
  <2>2. PICK p \in 1 .. n : s[p] = l
    BY <2>1 DEF ListChain
  <2> QED
    BY <1>2, <2>1, <2>2, GoneChain
<1>6. \E ch : NodeChains(ch)'
  <2>1. PICK ch : NodeChains(ch)
    BY DEF IndInv, Chained
  <2>2. /\ \A m \in DOMAIN list : Chain(node, list[m], list[m].size, ch[m])
        /\ \A m, k \in DOMAIN list : \A i \in 1 .. list[m].size, j \in 1 .. list[k].size :
               ch[m][i] = ch[k][j] => m = k
        /\ \A y \in DOMAIN node : \E m \in DOMAIN list : \E i \in 1 .. list[m].size : ch[m][i] = y
    BY <2>1 DEF NodeChains, OnChains
  <2>3. list[l].size = 0
    <3>1. PICK n, s : n = list[l].size /\ s = ch[l]
      OBVIOUS
    <3>2. Chain(node, list[l], n, s)
      BY <2>2, <3>1
    <3>3. /\ n \in Nat /\ s \in [1 .. n -> DOMAIN node]
          /\ list[l].mostL = IF n = 0 THEN NULL ELSE s[1]
      BY <3>2 DEF Chain
    <3>4. n # 0 => 1 \in 1 .. n
      BY <3>3
    <3> QED
      BY <1>1, <3>1, <3>3, <3>4
  <2>4. ASSUME NEW m \in DOMAIN list' PROVE Chain(node, list'[m], list'[m].size, ch[m])
    <3>1. m \in DOMAIN list \ {l}
      BY <1>3
    <3>2. Chain(node, list[m], list[m].size, ch[m])
      BY <2>2, <3>1
    <3>3. \A i \in 1 .. list[m].size : ch[m][i] \in DOMAIN node
      BY <3>2 DEF Chain
    <3>4. Chain(node, list'[m], list[m].size, ch[m])
      BY <1>3, <3>1, <3>2, <3>3, KeepChain
    <3> QED
      BY <1>3, <3>1, <3>4
  <2>5. \A m, k \in DOMAIN list' : \A i \in 1 .. list'[m].size, j \in 1 .. list'[k].size :
            ch[m][i] = ch[k][j] => m = k
    BY <1>3, <2>2
  <2>6. ASSUME NEW y \in DOMAIN node
        PROVE  \E m \in DOMAIN list' : \E i \in 1 .. list'[m].size : ch[m][i] = y
    <3>1. PICK m \in DOMAIN list : \E i \in 1 .. list[m].size : ch[m][i] = y
      BY <2>2
    <3>2. m # l
      BY <2>3, <3>1
    <3> QED
      BY <1>3, <3>1, <3>2
  <2>7. OnChains(node, DOMAIN list', list', ch)
    BY <2>4, <2>5, <2>6 DEF OnChains
  <2>8. NodeChains(ch)'
    BY <2>7 DEF NodeChains
  <2> QED
    BY <2>8
<1>7. OneListPerKey'
  <2>1. \A m \in DOMAIN list' : m \in DOMAIN list /\ list'[m].key = list[m].key
    BY <1>3
  <2> QED
    BY <2>1 DEF IndInv, OneListPerKey
<1> QED
  BY <1>3, <1>4, <1>5, <1>6, <1>7 DEF Chained

LEMMA GetDropStep ==
    ASSUME IndInv, NEW t \in Threads, GetDrop(t)
    PROVE  IndInv'
<1>1. PICK l : l = L[t]
  OBVIOUS
<1>2. /\ pc[t] = "drop" /\ L' = [L EXCEPT ![t] = NULL] /\ pc' = [pc EXCEPT ![t] = "unlock"]
      /\ UNCHANGED <<node, nList, nNode, mutex, calls, key, arg, sum>>
  BY DEF GetDrop, At, Goto
<1>3. /\ pc \in [Threads -> Labels] /\ L \in [Threads -> Nat] /\ memUsage \in Int
      /\ DOMAIN list \subseteq 1 .. nList /\ nList \in Nat
  BY DEF IndInv, TypeOK
<1>4. l \in DOMAIN list /\ t \in Getters /\ T.cur # l
  BY <1>1, <1>2 DEF IndInv, Placed, NoDanglingList
<1>5. \A u \in Threads : u # t => pc[u] \notin Holding
  BY <1>2 DEF IndInv, Exclusive, Holding
<1>6. \A u \in Threads : u # t => pc[u] \notin {"size", "sizeNext"}
  BY <1>4, CountersAssumption DEF IndInv, Placed
<1>7. pc' \in [Threads -> Labels] /\ L' \in [Threads -> Nat]
  BY <1>2, <1>3 DEF Labels, NULL
<1>8. Exclusive'
  BY <1>2, <1>3 DEF IndInv, Exclusive, Holding
<1>9. CASE Emptied(l)
  <2>1. T' = Popped(T, list, l) /\ list' = Without(list, l) /\ memUsage' = memUsage - ListSize
    BY <1>1, <1>9, Zenon DEF GetDrop, list_del
  <2>2. list[l].mostL = NULL
    BY <1>9 DEF Emptied
  <2>3. /\ Chained' /\ OneListPerKey'
        /\ T' \in [size : Int, mostL : Nat, mostR : Nat, cur : Nat] /\ T'.cur = T.cur
        /\ DOMAIN list' = DOMAIN list \ {l} /\ list' \in [DOMAIN list' -> ListR]
        /\ \A m \in DOMAIN list \ {l} : list'[m].mostL = list[m].mostL
    BY <1>2, <1>4, <2>1, <2>2, DropLinks
  <2>4. TypeOK'
    <3>1. DOMAIN list' \subseteq 1 .. nList' /\ memUsage' \in Int
      BY <1>2, <1>3, <2>1, <2>3 DEF ListSize
    <3> QED
      BY <1>2, <1>7, <2>3, <3>1 DEF IndInv, TypeOK, ListR
  <2>5. Placed'
    BY <1>2, <1>3, <2>3 DEF IndInv, Placed
  <2>6. NoDanglingList'
    <3>1. T'.cur # NULL => T'.cur \in DOMAIN list'
      BY <1>4, <2>3 DEF IndInv, NoDanglingList
    <3>2. \A u \in Threads : pc'[u] \notin {"size", "sizeNext", "push", "pushBack", "drop"}
      BY <1>2, <1>3, <1>5, <1>6 DEF Holding
    <3> QED
      BY <3>1, <3>2 DEF NoDanglingList
  <2>7. EmptyHeld'
    <3> SUFFICES ASSUME NEW m \in DOMAIN list', list'[m].mostL = NULL PROVE FALSE
      BY DEF EmptyHeld
    <3>1. m \in DOMAIN list /\ m # l /\ list[m].mostL = NULL
      BY <2>3
    <3>2. PICK u \in Threads : L[u] = m /\ pc[u] \in {"push", "pushBack", "drop"}
      BY <3>1 DEF IndInv, EmptyHeld
    <3> QED
      BY <1>1, <1>5, <3>1, <3>2 DEF Holding
  <2>8. Counted'
    <3>1. Cardinality(DOMAIN list') = Cardinality(DOMAIN list) - 1 /\ Cardinality(DOMAIN list) \in Nat
      BY <1>3, <1>4, <2>3, Size
    <3>2. Cardinality(DOMAIN node) \in Nat
      BY Size DEF IndInv, TypeOK
    <3>3. memUsage = TableSize + ListSize * Cardinality(DOMAIN list) + NodeSize * Cardinality(DOMAIN node)
      BY DEF IndInv, Counted
    <3> QED
      BY <1>2, <2>1, <3>1, <3>2, <3>3 DEF Counted, TableSize, ListSize, NodeSize
  <2> QED
    BY <1>8, <2>3, <2>4, <2>5, <2>6, <2>7, <2>8 DEF IndInv
<1>10. CASE ~ Emptied(l)
  <2>1. UNCHANGED <<T, list, memUsage>>
    BY <1>1, <1>10 DEF GetDrop
  <2>2. list[l].mostL # NULL
    BY <1>10 DEF Emptied
  <2>3. Chained' /\ Counted' /\ OneListPerKey'
    BY <1>2, <2>1, Kept
  <2>4. TypeOK'
    BY <1>2, <1>7, <2>1 DEF IndInv, TypeOK
  <2>5. Placed'
    BY <1>2, <1>3, <2>1 DEF IndInv, Placed
  <2>6. NoDanglingList'
    BY <1>2, <1>3, <2>1 DEF IndInv, NoDanglingList
  <2>7. EmptyHeld'
    <3> SUFFICES ASSUME NEW m \in DOMAIN list, list[m].mostL = NULL PROVE FALSE
      BY <2>1 DEF EmptyHeld
    <3>1. PICK u \in Threads : L[u] = m /\ pc[u] \in {"push", "pushBack", "drop"}
      BY DEF IndInv, EmptyHeld
    <3> QED
      BY <1>1, <1>5, <2>2, <3>1 DEF Holding
  <2> QED
    BY <1>8, <2>3, <2>4, <2>5, <2>6, <2>7 DEF IndInv
<1> QED
  BY <1>9, <1>10

------------------------------------------------------------------------------
(* The theorems. *)

LEMMA Initially == Init => IndInv
<1> SUFFICES ASSUME Init PROVE IndInv
  OBVIOUS
<1>1. DOMAIN list = {} /\ DOMAIN node = {}
  BY DEF Init
<1>2. TypeOK
  <2>1. list \in [{} -> ListR] /\ node \in [{} -> NodeR]
    BY DEF Init
  <2>2. calls \in [Threads -> 0 .. Calls]
    BY CallsAssumption DEF Init
  <2> QED
    BY <1>1, <2>1, <2>2 DEF Init, TypeOK, Labels, ListR, NodeR, NULL, TableSize
<1>3. Exclusive /\ Placed /\ NoDanglingList /\ EmptyHeld /\ OneListPerKey
  BY <1>1 DEF Init, Exclusive, Placed, NoDanglingList, EmptyHeld, OneListPerKey, Holding, NULL
<1>4. Chained
  <2>1. PICK none : none = [i \in 1 .. 0 |-> NULL]
    OBVIOUS
  <2>2. ListChain(0, none)
    BY <1>1, <2>1 DEF Init, ListChain, Chain
  <2>3. NodeChains(none)
    BY <1>1 DEF NodeChains, OnChains
  <2> QED
    BY <2>2, <2>3 DEF Chained
<1>5. Counted
  <2>1. Cardinality(DOMAIN list) = 0 /\ Cardinality(DOMAIN node) = 0
    BY <1>1, FS_EmptySet
  <2> QED
    BY <2>1 DEF Init, Counted, TableSize, ListSize, NodeSize
<1> QED
  BY <1>2, <1>3, <1>4, <1>5 DEF IndInv

LEMMA Stutters == IndInv /\ UNCHANGED vars => IndInv'
<1> SUFFICES ASSUME IndInv, UNCHANGED vars PROVE IndInv'
  OBVIOUS
<1>1. /\ UNCHANGED <<list, node, nList, nNode, T, memUsage>>
      /\ UNCHANGED <<mutex, pc, calls, key, L, arg, sum>>
  BY DEF vars
<1>2. Chained' /\ Counted' /\ OneListPerKey'
  BY <1>1, Kept
<1>3. TypeOK'
  BY <1>1 DEF IndInv, TypeOK
<1>4. Exclusive' /\ Placed' /\ NoDanglingList' /\ EmptyHeld'
  BY <1>1 DEF IndInv, Exclusive, Placed, NoDanglingList, EmptyHeld
<1> QED
  BY <1>2, <1>3, <1>4 DEF IndInv

LEMMA InvariantStep ==
    ASSUME IndInv, [Next]_vars
    PROVE  IndInv'
<1>1. ASSUME NEW t \in Threads, Thread(t) PROVE IndInv'
  <2>1. ASSUME NEW k \in Keys, CallPut(t, k) PROVE IndInv'
    BY <2>1, CallPutStep
  <2>2. CASE CallGet(t)
    BY <2>2, CallGetStep
  <2>3. CASE CallSize(t)
    BY <2>3, CallSizeStep
  <2>4. CASE Lock(t)
    BY <2>4, LockStep
  <2>5. CASE Unlock(t)
    BY <2>5, UnlockStep
  <2>6. CASE Return(t)
    BY <2>6, ReturnStep
  <2>7. CASE PutFound(t)
    BY <2>7, PutFoundStep
  <2>8. CASE PutNewList(t)
    BY <2>8, PutNewListStep
  <2>9. CASE PutNode(t)
    BY <2>9, PutNodeStep
  <2>10. CASE GetTurn(t)
    BY <2>10, GetTurnStep
  <2>11. CASE GetTake(t)
    BY <2>11, GetTakeStep
  <2>12. CASE GetDrop(t)
    BY <2>12, GetDropStep
  <2>13. CASE SizeAdd(t)
    BY <2>13, SizeAddStep
  <2>14. CASE SizeNext(t)
    BY <2>14, SizeNextStep
  <2> QED
    BY <1>1, <2>1, <2>2, <2>3, <2>4, <2>5, <2>6, <2>7, <2>8, <2>9, <2>10, <2>11, <2>12, <2>13, <2>14
       DEF Thread
<1>2. CASE Ended \/ UNCHANGED vars
  BY <1>2, Stutters DEF Ended
<1> QED
  BY <1>1, <1>2 DEF Next

(* The invariant holds of table.c for any number of threads and calls. *)
THEOREM TableSound == Spec => []IndInv
<1>1. IndInv /\ [Next]_vars => IndInv'
  BY InvariantStep
<1> QED
  BY <1>1, Initially, PTL DEF Spec

(* Between any two steps of any number of threads the lists and the nodes  *)
(* are linked both ways, with exact sizes, none is out of reach or freed   *)
(* while someone points to it, and the counter of vutil.c is what is       *)
(* linked (table.c:31-128, 133-233, 278-283, 336-349).                     *)
THEOREM AllLinkedCorrect == Spec => []AllLinked
  BY TableSound, Linked, PTL

(* A whole key has one list at most (table.c:301-306). *)
THEOREM OneListPerKeyCorrect == Spec => []OneListPerKey
<1>1. IndInv => OneListPerKey
  BY DEF IndInv
<1> QED
  BY <1>1, TableSound, PTL

------------------------------------------------------------------------------
(* The order of the lists, and what a step does to it. *)

(* The lists are linked in the order of their numbers: a new one is last. *)
Ascending ==
    /\ \A l, m \in DOMAIN list : l < m => list[l].R # NULL /\ list[l].R <= m
    /\ \A l \in DOMAIN list : list[l].R # NULL => l < list[l].R
    /\ \A l \in DOMAIN list : T.mostL # NULL /\ T.mostL <= l

LEMMA Neighbours ==
    ASSUME IndInv
    PROVE  /\ \A l, y \in DOMAIN list : list[l].L = y <=> list[y].R = l
           /\ \A l \in DOMAIN list : list[l].L = NULL <=> l = T.mostL
           /\ \A l \in DOMAIN list : list[l].L # NULL => list[l].L \in DOMAIN list
           /\ T.mostR = NULL <=> DOMAIN list = {}
<1>1. PICK n, s : ListChain(n, s)
  BY DEF IndInv, Chained
<1>2. NULL \notin DOMAIN list
  BY ListLinks
<1>3. /\ n \in Nat /\ \A i \in 1 .. n : s[i] \in DOMAIN list
      /\ \A i, j \in 1 .. n : s[i] = s[j] => i = j
      /\ T.mostL = IF n = 0 THEN NULL ELSE s[1]
      /\ T.mostR = IF n = 0 THEN NULL ELSE s[n]
      /\ \A i \in 1 .. n : /\ list[s[i]].L = IF i = 1 THEN NULL ELSE s[i - 1]
                           /\ list[s[i]].R = IF i = n THEN NULL ELSE s[i + 1]
      /\ \A l \in DOMAIN list : \E i \in 1 .. n : s[i] = l
  BY <1>1 DEF ListChain, Chain
<1>4. /\ n # 0 => 1 \in 1 .. n /\ n \in 1 .. n
      /\ \A i \in 1 .. n : /\ i # 1 => i - 1 \in 1 .. n
                           /\ i # n => i + 1 \in 1 .. n
  BY <1>3
<1>5. ASSUME NEW l \in DOMAIN list, NEW y \in DOMAIN list
      PROVE  list[l].L = y <=> list[y].R = l
  <2>1. PICK i \in 1 .. n : s[i] = l
    BY <1>3
  <2>2. PICK j \in 1 .. n : s[j] = y
    BY <1>3
  <2>3. list[l].L = y <=> i # 1 /\ i - 1 = j
    BY <1>2, <1>3, <1>4, <2>1, <2>2
  <2>4. list[y].R = l <=> j # n /\ j + 1 = i
    BY <1>2, <1>3, <1>4, <2>1, <2>2
  <2> QED
    BY <1>3, <2>3, <2>4
<1>6. ASSUME NEW l \in DOMAIN list
      PROVE  (list[l].L = NULL <=> l = T.mostL) /\ (list[l].L # NULL => list[l].L \in DOMAIN list)
  <2>1. PICK i \in 1 .. n : s[i] = l
    BY <1>3
  <2>2. n # 0 /\ (l = T.mostL <=> i = 1)
    BY <1>3, <1>4, <2>1
  <2> QED
    BY <1>2, <1>3, <1>4, <2>1, <2>2
<1>7. T.mostR = NULL <=> DOMAIN list = {}
  <2>1. n = 0 => DOMAIN list = {}
    <3>1. \A l \in DOMAIN list : \E i \in 1 .. n : s[i] = l
      BY <1>3
    <3>2. n = 0 => 1 .. n = {}
      OBVIOUS
    <3> QED
      BY <3>1, <3>2
  <2>2. n # 0 => T.mostR = s[n] /\ s[n] \in DOMAIN list
    BY <1>3, <1>4
  <2> QED
    BY <1>2, <1>3, <2>1, <2>2
<1> QED
  BY <1>5, <1>6, <1>7

(* What a get or a put of a node leaves of the lists. *)
LinksKept ==
    /\ DOMAIN list' = DOMAIN list /\ nList' = nList /\ T'.mostL = T.mostL
    /\ \A l \in DOMAIN list : list'[l].R = list[l].R

LEMMA TakeLinks ==
    ASSUME IndInv, NEW t \in Threads, GetTake(t)
    PROVE  LinksKept /\ T.cur \in DOMAIN list /\ T'.cur = list[T.cur].R
<1>1. PICK l, x, h, e : l = T.cur /\ h = list[l] /\ x = h.mostL /\ e = Popped(h, node, x)
  OBVIOUS
<1>2. /\ l # NULL /\ x # NULL /\ list' = [list EXCEPT ![l] = e] /\ T' = [T EXCEPT !.cur = h.R]
      /\ nList' = nList
  BY <1>1 DEF GetTake, Successor
<1>3. /\ list \in [DOMAIN list -> ListR] /\ node \in [DOMAIN node -> NodeR]
      /\ T \in [size : Int, mostL : Nat, mostR : Nat, cur : Nat]
  BY DEF IndInv, TypeOK, ListR, NodeR
<1>4. l \in DOMAIN list /\ h \in ListR
  BY <1>1, <1>2, <1>3 DEF IndInv, NoDanglingList
<1>5. x \in DOMAIN node
  BY <1>1, <1>2, <1>4, Linked DEF AllLinked, LinkedFrom
<1>6. node[x].L \in Nat /\ node[x].R \in Nat
  BY <1>3, <1>5 DEF NodeR
<1>7. e.R = h.R
  BY <1>1, <1>4, <1>6, ListPopped
<1> QED
  BY <1>1, <1>2, <1>3, <1>4, <1>7 DEF LinksKept

LEMMA PutLinks ==
    ASSUME IndInv, NEW t \in Threads, PutNode(t)
    PROVE  LinksKept /\ T'.cur = T.cur
<1>1. PICK ch : NodeChains(ch)
  BY DEF IndInv, Chained
<1>2. PICK l, x, h : l = L[t] /\ x = nNode + 1 /\ h = list[l]
  OBVIOUS
<1>3. PICK e, q : NodePut(t, l, x, h, ch[l], e, q)
  BY <1>1, <1>2, PutNodeLinks
<1>4. l \in DOMAIN list /\ list' = [list EXCEPT ![l] = e] /\ e.R = h.R
  BY <1>3 DEF NodePut
<1>5. UNCHANGED <<T, nList>>
  BY DEF PutNode
<1> QED
  BY <1>2, <1>4, <1>5 DEF LinksKept

(* List l has left the table. *)
ListDropped(l) ==
    /\ l \in DOMAIN list /\ DOMAIN list' = DOMAIN list \ {l}
    /\ T'.cur = T.cur /\ nList' = nList
    /\ T'.mostL = IF list[l].L = NULL THEN list[l].R ELSE T.mostL
    /\ \A y \in DOMAIN list \ {l} :
          /\ list'[y].R = IF y = list[l].L THEN list[l].R ELSE list[y].R
          /\ list'[y].mostL = list[y].mostL

LEMMA DropShape ==
    ASSUME IndInv, NEW t \in Threads, GetDrop(t), Emptied(L[t])
    PROVE  ListDropped(L[t])
<1>1. PICK l : l = L[t]
  OBVIOUS
<1>2. T' = Popped(T, list, l) /\ list' = Without(list, l) /\ pc[t] = "drop" /\ UNCHANGED <<node, nList>>
  <2>1. T' = Popped(T, list, l) /\ list' = Without(list, l)
    BY <1>1, Zenon DEF GetDrop
  <2> QED
    BY <2>1 DEF GetDrop
<1>3. l \in DOMAIN list /\ list[l].mostL = NULL
  BY <1>1, <1>2 DEF IndInv, Placed, NoDanglingList, Emptied
<1>4. /\ T'.cur = T.cur /\ DOMAIN list' = DOMAIN list \ {l}
      /\ \A m \in DOMAIN list \ {l} : list'[m].mostL = list[m].mostL
  BY <1>2, <1>3, DropLinks
<1>5. list \in [DOMAIN list -> ListR] /\ T \in [size : Int, mostL : Nat, mostR : Nat, cur : Nat]
  BY DEF IndInv, TypeOK, ListR
<1>6. \A y \in DOMAIN list \ {l} : list'[y].R = IF y = list[l].L THEN list[l].R ELSE list[y].R
  <2>1. PICK f, g : f = list /\ g = list'
    OBVIOUS
  <2>2. f \in [DOMAIN f -> ListR] /\ l \in DOMAIN f /\ g = Without(f, l)
    BY <1>2, <1>3, <1>5, <2>1
  <2>3. ListWithout(f, l, g)
    BY <2>2, WithoutList
  <2> QED
    BY <2>1, <2>3 DEF ListWithout
<1>7. T'.mostL = IF list[l].L = NULL THEN list[l].R ELSE T.mostL
  <2>1. PICK a, b, z : /\ a = (IF list[l].L = NULL THEN list[l].R ELSE T.mostL)
                       /\ b = (IF list[l].R = NULL THEN list[l].L ELSE T.mostR)
                       /\ z = T.size - 1
    OBVIOUS
  <2>2. T' = [T EXCEPT !.mostL = a, !.mostR = b, !.size = z]
    BY <1>2, <2>1, Zenon DEF Popped
  <2>3. T'.mostL = a
    BY <1>5, <2>2
  <2> QED
    BY <2>1, <2>3
<1> QED
  BY <1>1, <1>2, <1>3, <1>4, <1>6, <1>7 DEF ListDropped

(* What a step does to the lists: they stay, one is made, or one leaves. *)
LEMMA ListSteps ==
    ASSUME IndInv, [Next]_vars
    PROVE  \/ LinksKept
           \/ \E t \in Threads : PutNewList(t) /\ \E x, r : ListMade(t, x, r)
           \/ \E t \in Threads : GetDrop(t) /\ ListDropped(L[t])
<1>1. CASE UNCHANGED vars
  BY <1>1 DEF vars, LinksKept
<1>2. CASE Ended
  BY <1>2 DEF Ended, vars, LinksKept
<1>3. ASSUME NEW t \in Threads, Thread(t)
      PROVE  \/ LinksKept
             \/ PutNewList(t) /\ \E x, r : ListMade(t, x, r)
             \/ GetDrop(t) /\ ListDropped(L[t])
  <2>1. CASE \/ \E k \in Keys : CallPut(t, k)
             \/ CallGet(t) \/ CallSize(t) \/ Lock(t) \/ Unlock(t) \/ Return(t)
             \/ PutFound(t) \/ SizeAdd(t) \/ SizeNext(t)
    <3>1. UNCHANGED <<list, T, nList>>
      BY <2>1 DEF CallPut, CallGet, CallSize, Lock, Unlock, Return, PutFound, SizeAdd, SizeNext, dataVars
    <3> QED
      BY <3>1 DEF LinksKept
  <2>2. CASE PutNewList(t)
    BY <2>2, NewList
  <2>3. CASE PutNode(t)
    BY <2>3, PutLinks
  <2>4. CASE GetTurn(t)
    <3>1. T \in [size : Int, mostL : Nat, mostR : Nat, cur : Nat]
      BY DEF IndInv, TypeOK
    <3> QED
      BY <2>4, <3>1 DEF GetTurn, LinksKept
  <2>5. CASE GetTake(t)
    BY <2>5, TakeLinks
  <2>6. CASE GetDrop(t)
    <3>1. CASE Emptied(L[t])
      BY <2>6, <3>1, DropShape
    <3>2. CASE ~ Emptied(L[t])
      <4>1. UNCHANGED <<T, list, nList>>
        BY <2>6, <3>2 DEF GetDrop
      <4> QED
        BY <4>1 DEF LinksKept
    <3> QED
      BY <3>1, <3>2
  <2> QED
    BY <1>3, <2>1, <2>2, <2>3, <2>4, <2>5, <2>6 DEF Thread
<1> QED
  BY <1>1, <1>2, <1>3 DEF Next

LEMMA AscendingStep ==
    ASSUME IndInv, Ascending, [Next]_vars
    PROVE  Ascending'
<1>1. /\ \A l, m \in DOMAIN list : l < m => list[l].R # NULL /\ list[l].R <= m
      /\ \A l \in DOMAIN list : list[l].R # NULL => l < list[l].R
      /\ \A l \in DOMAIN list : T.mostL # NULL /\ T.mostL <= l
  BY DEF Ascending
<1>2. /\ DOMAIN list \subseteq 1 .. nList /\ nList \in Nat
      /\ \A l \in DOMAIN list : l \in Nat /\ list[l].R \in Nat
      /\ NULL \notin DOMAIN list
  BY DEF IndInv, TypeOK, NULL
<1>3. CASE LinksKept
  BY <1>1, <1>3 DEF LinksKept, Ascending
<1>4. ASSUME NEW t \in Threads, NEW x, NEW r, ListMade(t, x, r)
      PROVE  Ascending'
  <2>1. /\ x = nList + 1 /\ x # NULL /\ x \notin DOMAIN list
        /\ DOMAIN list' = DOMAIN list \cup {x} /\ list'[x].R = NULL
        /\ \A y \in DOMAIN list : list'[y].R = IF y = T.mostR THEN x ELSE list[y].R
        /\ T'.mostL = IF T.mostR = NULL THEN x ELSE T.mostL
        /\ T.mostR # NULL => T.mostR \in DOMAIN list /\ list[T.mostR].R = NULL
    BY <1>4 DEF ListMade
  <2>2. \A l \in DOMAIN list : l < x /\ list[l].R < x
    <3>1. \A l \in DOMAIN list : list[l].R # NULL => list[l].R \in DOMAIN list
      BY ListLinks
    <3> QED
      BY <1>2, <2>1, <3>1 DEF NULL
  <2>3. \A l \in DOMAIN list : l <= T.mostR /\ T.mostR # NULL /\ T.mostR \in DOMAIN list
    BY <1>1, <1>2, <2>1, Neighbours
  <2>4. \A l, m \in DOMAIN list' : l < m => list'[l].R # NULL /\ list'[l].R <= m
    <3> SUFFICES ASSUME NEW l \in DOMAIN list', NEW m \in DOMAIN list', l < m
                 PROVE  list'[l].R # NULL /\ list'[l].R <= m
      OBVIOUS
    <3>1. l \in DOMAIN list
      BY <1>2, <2>1, <2>2
    <3>2. CASE m \in DOMAIN list
      <4>1. l # T.mostR
        BY <1>2, <2>3, <3>1, <3>2
      <4> QED
        BY <1>1, <2>1, <3>1, <3>2, <4>1
    <3>3. CASE m = x
      <4>1. CASE l = T.mostR
        BY <1>2, <2>1, <3>1, <3>3, <4>1
      <4>2. CASE l # T.mostR
        <5>1. l < T.mostR
          BY <1>2, <2>3, <3>1, <4>2
        <5>2. list[l].R # NULL
          BY <1>1, <2>3, <3>1, <5>1
        <5> QED
          BY <1>2, <2>1, <2>2, <3>1, <3>3, <4>2, <5>2
      <4> QED
        BY <4>1, <4>2
    <3> QED
      BY <2>1, <3>2, <3>3
  <2>5. \A l \in DOMAIN list' : list'[l].R # NULL => l < list'[l].R
    BY <1>1, <2>1, <2>2
  <2>6. \A l \in DOMAIN list' : T'.mostL # NULL /\ T'.mostL <= l
    <3> SUFFICES ASSUME NEW l \in DOMAIN list' PROVE T'.mostL # NULL /\ T'.mostL <= l
      OBVIOUS
    <3>1. CASE T.mostR = NULL
      BY <1>2, <2>1, <2>3, <3>1
    <3>2. CASE T.mostR # NULL
      <4>1. T.mostL # NULL /\ T.mostL <= T.mostR /\ T.mostL \in DOMAIN list
        BY <1>1, <2>1, <3>2, ListLinks
      <4> QED
        BY <1>1, <1>2, <2>1, <2>2, <3>2, <4>1
    <3> QED
      BY <3>1, <3>2
  <2> QED
    BY <2>4, <2>5, <2>6 DEF Ascending
<1>5. ASSUME NEW o, ListDropped(o)
      PROVE  Ascending'
  <2>1. /\ o \in DOMAIN list /\ DOMAIN list' = DOMAIN list \ {o}
        /\ T'.mostL = IF list[o].L = NULL THEN list[o].R ELSE T.mostL
        /\ \A y \in DOMAIN list \ {o} :
              list'[y].R = IF y = list[o].L THEN list[o].R ELSE list[y].R
    BY <1>5 DEF ListDropped
  <2>2. \A y \in DOMAIN list : y = list[o].L <=> list[y].R = o
    BY <2>1, Neighbours
  <2>3. ASSUME NEW l \in DOMAIN list', NEW m \in DOMAIN list', l < m
        PROVE  list'[l].R # NULL /\ list'[l].R <= m
    <3>1. list[l].R # NULL /\ list[l].R <= m /\ l \in DOMAIN list /\ m \in DOMAIN list /\ m # o
      BY <1>1, <2>1, <2>3
    <3>2. CASE list[l].R = o
      <4>1. o < m
        BY <1>2, <2>1, <3>1, <3>2
      <4> QED
        BY <1>1, <2>1, <2>2, <2>3, <3>1, <3>2, <4>1
    <3> QED
      BY <2>1, <2>2, <2>3, <3>1, <3>2
  <2>4. ASSUME NEW l \in DOMAIN list', list'[l].R # NULL
        PROVE  l < list'[l].R
    <3>1. CASE list[l].R = o
      <4>1. l < o /\ list'[l].R = list[o].R /\ o < list[o].R
        BY <1>1, <1>2, <2>1, <2>2, <2>4, <3>1
      <4> QED
        BY <1>2, <2>1, <4>1
    <3>2. CASE list[l].R # o
      BY <1>1, <2>1, <2>2, <2>4, <3>2
    <3> QED
      BY <3>1, <3>2
  <2>5. ASSUME NEW l \in DOMAIN list'
        PROVE  T'.mostL # NULL /\ T'.mostL <= l
    <3>1. CASE list[o].L = NULL
      <4>1. o = T.mostL
        BY <2>1, <3>1, Neighbours
      <4>2. o < l
        BY <1>1, <1>2, <2>1, <4>1
      <4> QED
        BY <1>1, <2>1, <3>1, <4>2
    <3>2. CASE list[o].L # NULL
      BY <1>1, <2>1, <3>2
    <3> QED
      BY <3>1, <3>2
  <2> QED
    BY <2>3, <2>4, <2>5 DEF Ascending
<1> QED
  BY <1>3, <1>4, <1>5, ListSteps
------------------------------------------------------------------------------
(* Whose turn it is. *)

LEMMA Moves ==
    ASSUME IndInv, [Next]_vars
    PROVE  \/ \E t \in Threads : GetTurn(t) /\ Missed /\ Served = {}
           \/ \E t \in Threads : GetTake(t) /\ ~ Missed /\ Served = {T.cur}
           \/ ~ Missed /\ Served = {} /\ T'.cur = T.cur
<1>0. pc \in [Threads -> Labels] /\ T \in [size : Int, mostL : Nat, mostR : Nat, cur : Nat]
  BY DEF IndInv, TypeOK
<1>1. ASSUME \A u \in Threads : pc[u] = "take" => pc'[u] = "take", T'.cur = T.cur
      PROVE  ~ Missed /\ Served = {} /\ T'.cur = T.cur
  BY <1>1 DEF Missed, Served
<1>2. CASE UNCHANGED vars
  BY <1>1, <1>2 DEF vars
<1>3. CASE Ended
  BY <1>1, <1>3 DEF Ended, vars
<1>4. ASSUME NEW t \in Threads, Thread(t)
      PROVE  \/ GetTurn(t) /\ Missed /\ Served = {}
             \/ GetTake(t) /\ ~ Missed /\ Served = {T.cur}
             \/ ~ Missed /\ Served = {} /\ T'.cur = T.cur
  <2>1. CASE \/ \E k \in Keys : CallPut(t, k)
             \/ CallGet(t) \/ CallSize(t) \/ Lock(t) \/ Unlock(t) \/ Return(t)
             \/ PutFound(t) \/ SizeAdd(t) \/ SizeNext(t)
    <3>1. T' = T
      BY <2>1 DEF CallPut, CallGet, CallSize, Lock, Unlock, Return, PutFound, SizeAdd, SizeNext, dataVars
    <3>2. pc[t] # "take"
      BY <2>1 DEF CallPut, CallGet, CallSize, Lock, Unlock, Return, PutFound, SizeAdd, SizeNext,
                  CanCall, Inside, Returning, Pushing
    <3>3. \A u \in Threads \ {t} : pc'[u] = pc[u]
      BY <1>0, <2>1 DEF CallPut, CallGet, CallSize, Lock, Unlock, Return, PutFound, SizeAdd, SizeNext, Goto
    <3> QED
      BY <1>1, <3>1, <3>2, <3>3
  <2>2. CASE PutNewList(t)
    <3>1. PICK x, r : ListMade(t, x, r)
      BY <2>2, NewList
    <3> QED
      BY <1>0, <1>1, <3>1 DEF ListMade
  <2>3. CASE PutNode(t)
    <3>1. pc[t] # "take" /\ pc' = [pc EXCEPT ![t] = "unlock"] /\ T' = T
      BY <2>3 DEF PutNode, Goto
    <3> QED
      BY <1>0, <1>1, <3>1
  <2>4. CASE GetTurn(t)
    <3>1. pc[t] = "take" /\ pc' = [pc EXCEPT ![t] = "unlock"]
      BY <2>4 DEF GetTurn, Goto
    <3> QED
      BY <1>0, <2>4, <3>1 DEF Missed, Served
  <2>5. CASE GetTake(t)
    <3>1. pc[t] = "take" /\ pc' = [pc EXCEPT ![t] = "drop"]
      BY <2>5 DEF GetTake, Goto
    <3> QED
      BY <1>0, <2>5, <3>1 DEF Missed, Served
  <2>6. CASE GetDrop(t)
    <3>1. pc[t] # "take" /\ pc' = [pc EXCEPT ![t] = "unlock"]
      BY <2>6 DEF GetDrop, Goto
    <3>2. T'.cur = T.cur
      BY <2>6, DropShape DEF GetDrop, ListDropped
    <3> QED
      BY <1>0, <1>1, <3>1, <3>2
  <2> QED
    BY <1>4, <2>1, <2>2, <2>3, <2>4, <2>5, <2>6 DEF Thread
<1> QED
  BY <1>2, <1>3, <1>4 DEF Next

(* After a get that missed the cursor is back at a list. *)
MissedOnce == misses \in {0, 1} /\ (misses = 1 => T.cur # NULL)

LEMMA MissedOnceStep ==
    ASSUME IndInv, Ascending, MissedOnce, [Next]_vars, Observe
    PROVE  MissedOnce'
<1>1. misses' = IF Missed /\ node # [n \in {} |-> NULL] THEN misses + 1
                ELSE IF Served # {} \/ Missed THEN 0
                ELSE misses
  BY DEF Observe
<1>2. ASSUME NEW t \in Threads, GetTurn(t), Missed
      PROVE  MissedOnce'
  <2>1. T.cur = NULL /\ T'.cur = T.mostL
    BY <1>2 DEF GetTurn, Restart, IndInv, TypeOK
  <2>2. misses = 0
    BY <2>1 DEF MissedOnce
  <2>3. CASE node = [n \in {} |-> NULL]
    BY <1>1, <1>2, <2>3 DEF MissedOnce
  <2>4. CASE node # [n \in {} |-> NULL]
    <3>1. DOMAIN node # {}
      <4>1. node = [y \in DOMAIN node |-> node[y]]
        BY DEF IndInv, TypeOK
      <4> QED
        BY <2>4, <4>1
    <3>2. DOMAIN list # {}
      BY <3>1 DEF IndInv, Chained, NodeChains, OnChains
    <3>3. T.mostL # NULL
      BY <3>2 DEF Ascending
    <3> QED
      BY <1>1, <1>2, <2>1, <2>2, <2>4, <3>3 DEF MissedOnce
  <2> QED
    BY <2>3, <2>4
<1>3. CASE ~ Missed /\ Served # {}
  BY <1>1, <1>3 DEF MissedOnce
<1>4. CASE ~ Missed /\ Served = {} /\ T'.cur = T.cur
  BY <1>1, <1>4 DEF MissedOnce
<1> QED
  BY <1>2, <1>3, <1>4, Moves

(* The cursor will come to list m before it starts again; so list l is     *)
(* served before list s.                                                   *)
Ahead(m) == T.cur # NULL /\ T.cur <= m
Sooner(l, s) == IF Ahead(l) <=> Ahead(s) THEN l < s ELSE Ahead(l)

(* A list waits longer than those that were served while it waited. *)
PassedSooner ==
    /\ passed \in [DOMAIN list -> SUBSET (1 .. nList)]
    /\ \A l, s \in DOMAIN list : s \in passed[l] => Sooner(l, s)

LEMMA PassedSoonerStep ==
    ASSUME IndInv, Ascending, PassedSooner, [Next]_vars, Observe
    PROVE  PassedSooner'
<1>1. /\ DOMAIN list \subseteq 1 .. nList /\ nList \in Nat
      /\ \A l \in DOMAIN list : l \in Nat /\ list[l].R \in Nat
      /\ NULL \notin DOMAIN list
      /\ T \in [size : Int, mostL : Nat, mostR : Nat, cur : Nat]
      /\ T.cur # NULL => T.cur \in DOMAIN list
  BY DEF IndInv, TypeOK, NULL, NoDanglingList
<1>2. /\ DOMAIN passed = DOMAIN list /\ \A l \in DOMAIN list : passed[l] \subseteq 1 .. nList
      /\ \A l, s \in DOMAIN list : s \in passed[l] => Sooner(l, s)
  BY DEF PassedSooner
<1>3. /\ passed' = [l \in DOMAIN list' |-> passed'[l]]
      /\ \A l \in DOMAIN list' : passed'[l] = IF l \in Served \/ l \notin DOMAIN passed THEN {}
                                              ELSE passed[l] \cup Served
  BY DEF Observe
<1>4. /\ nList' \in Nat /\ nList' >= nList
      /\ \A l \in DOMAIN list' : l \in DOMAIN list \/ l > nList
  <2>1. CASE LinksKept
    BY <1>1, <2>1 DEF LinksKept
  <2>2. CASE \E t \in Threads : PutNewList(t) /\ \E x, r : ListMade(t, x, r)
    <3>1. PICK x : x = nList + 1 /\ nList' = x /\ DOMAIN list' = DOMAIN list \cup {x}
      BY <2>2 DEF ListMade
    <3> QED
      BY <1>1, <3>1
  <2>3. CASE \E t \in Threads : GetDrop(t) /\ ListDropped(L[t])
    BY <1>1, <2>3 DEF ListDropped
  <2> QED
    BY <2>1, <2>2, <2>3, ListSteps
<1>5. Served \subseteq DOMAIN list
  <2>1. ASSUME NEW t \in Threads, GetTake(t), Served = {T.cur}
        PROVE  Served \subseteq DOMAIN list
    BY <2>1, TakeLinks
  <2> QED
    BY <2>1, Moves
<1>6. passed' \in [DOMAIN list' -> SUBSET (1 .. nList')]
  <2>1. \A l \in DOMAIN list' : passed'[l] \subseteq 1 .. nList
    BY <1>1, <1>2, <1>3, <1>5
  <2>2. 1 .. nList \subseteq 1 .. nList'
    BY <1>1, <1>4
  <2> QED
    BY <1>3, <2>1, <2>2
<1>7. ASSUME NEW l \in DOMAIN list', NEW s \in DOMAIN list', s \in passed'[l]
      PROVE  /\ l \in DOMAIN list /\ l \notin Served /\ s \in passed[l] \cup Served
             /\ s \in DOMAIN list
  BY <1>1, <1>2, <1>3, <1>4, <1>5, <1>7
<1>8. CASE Served = {} /\ T'.cur = T.cur
  <2>1. \A l, s \in DOMAIN list' : s \in passed'[l] => Sooner(l, s)
    BY <1>2, <1>7, <1>8
  <2>2. \A l, s : Sooner(l, s)' <=> Sooner(l, s)
    BY <1>8 DEF Sooner, Ahead
  <2> QED
    BY <1>6, <2>1, <2>2 DEF PassedSooner
<1>9. ASSUME NEW t \in Threads, GetTurn(t), Served = {}
      PROVE  PassedSooner'
  <2>1. T.cur = NULL /\ T'.cur = T.mostL
    BY <1>1, <1>9 DEF GetTurn, Restart
  <2>2. \A l \in DOMAIN list : ~ Ahead(l) /\ Ahead(l)'
    BY <2>1 DEF Ahead, Ascending
  <2>3. \A l, s \in DOMAIN list : Sooner(l, s) => Sooner(l, s)'
    BY <2>2 DEF Sooner
  <2> QED
    BY <1>2, <1>6, <1>7, <1>9, <2>3 DEF PassedSooner
<1>10. ASSUME NEW t \in Threads, GetTake(t), Served = {T.cur}
       PROVE  PassedSooner'
  <2>1. T.cur \in DOMAIN list /\ T'.cur = list[T.cur].R /\ T.cur # NULL
    BY <1>1, <1>10, TakeLinks
  <2>2. \A m \in DOMAIN list : (Ahead(m) <=> T.cur <= m) /\ (Ahead(m)' <=> T.cur < m)
    BY <1>1, <2>1 DEF Ahead, Ascending
  <2>3. ASSUME NEW l \in DOMAIN list', NEW s \in DOMAIN list', s \in passed'[l]
        PROVE  Sooner(l, s)'
    <3>1. /\ l \in DOMAIN list /\ l # T.cur /\ s \in DOMAIN list
          /\ s \in passed[l] \/ s = T.cur
      BY <1>7, <1>10, <2>3
    <3>2. CASE s = T.cur
      BY <1>1, <2>1, <2>2, <3>1, <3>2 DEF Sooner
    <3>3. CASE s # T.cur
      <4>1. Sooner(l, s)
        BY <1>2, <3>1, <3>3
      <4>2. (Ahead(l) <=> Ahead(l)') /\ (Ahead(s) <=> Ahead(s)')
        BY <1>1, <2>1, <2>2, <3>1, <3>3
      <4> QED
        BY <4>1, <4>2 DEF Sooner
    <3> QED
      BY <3>2, <3>3
  <2> QED
    BY <1>6, <2>3 DEF PassedSooner
<1> QED
  BY <1>8, <1>9, <1>10, Moves

LEMMA NotTwice ==
    ASSUME IndInv, Ascending, PassedSooner, [Next]_vars
    PROVE  \A l \in DOMAIN list, s \in Served : l \notin Served => s \notin passed[l]
<1> SUFFICES ASSUME NEW l \in DOMAIN list, NEW s \in Served, l \notin Served, s \in passed[l]
             PROVE  FALSE
  OBVIOUS
<1>1. PICK t \in Threads : GetTake(t) /\ Served = {T.cur}
  BY Moves
<1>2. s = T.cur /\ s \in DOMAIN list /\ l # s
  BY <1>1, TakeLinks
<1>3. Sooner(l, s)
  BY <1>2 DEF PassedSooner
<1>4. l \in Nat /\ s \in Nat /\ s # NULL
  BY <1>2 DEF IndInv, TypeOK, NULL
<1> QED
  BY <1>2, <1>3, <1>4 DEF Sooner, Ahead
------------------------------------------------------------------------------
(* What table_size has counted. *)

OwnedIn(f, h) == Elements(Right(f, h.mostL))
Owned(l) == OwnedIn(node, list[l])

LEMMA OwnedIs ==
    ASSUME NEW f, NULL \notin DOMAIN f, NEW D, NEW hd, NEW ch, OnChains(f, D, hd, ch),
           NEW h, NEW n, NEW s, Chain(f, h, n, s)
    PROVE  OwnedIn(f, h) = {s[i] : i \in 1 .. n}
<1>1. PICK w : Rights(f, w)
  BY SuffixesExist
<1> QED
  BY <1>1, ChainLinked DEF OwnedIn

Members(n, s) == {s[i] : i \in 1 .. n}

LEMMA MembersSize ==
    ASSUME NEW n \in Nat, NEW s, \A i, j \in 1 .. n : s[i] = s[j] => i = j
    PROVE  IsFiniteSet(Members(n, s)) /\ Cardinality(Members(n, s)) = n
<1> DEFINE S == Members(n, s)
           F == [i \in 1 .. n |-> s[i]]
<1>1. IsFiniteSet(1 .. n) /\ Cardinality(1 .. n) = n
  BY FS_Interval
<1>2. F \in [1 .. n -> S] /\ \A i \in 1 .. n : F[i] = s[i]
  BY DEF Members
<1>3. \A x \in S : \E i \in 1 .. n : x = s[i]
  BY DEF Members
<1> HIDE DEF S, F
<1>4. F \in Bijection(1 .. n, S)
  BY <1>2, <1>3 DEF Bijection, Injection, Surjection, IsInjective
<1>5. IsFiniteSet(S) /\ Cardinality(S) = n
  BY <1>1, <1>4, FS_Bijection DEF ExistsBijection
<1> QED
  BY <1>5 DEF S

LEMMA OwnedFacts ==
    ASSUME IndInv
    PROVE  /\ \A l \in DOMAIN list :
                 /\ Owned(l) \subseteq DOMAIN node
                 /\ IsFiniteSet(Owned(l)) /\ Cardinality(Owned(l)) = list[l].size
           /\ \A l, m \in DOMAIN list : Owned(l) \cap Owned(m) # {} => l = m
           /\ \A y \in DOMAIN node : \E l \in DOMAIN list : y \in Owned(l)
           /\ IsFiniteSet(DOMAIN node)
<1>1. PICK ch : NodeChains(ch)
  BY DEF IndInv, Chained
<1>2. /\ \A l \in DOMAIN list : Chain(node, list[l], list[l].size, ch[l])
      /\ \A l, m \in DOMAIN list : \A i \in 1 .. list[l].size, j \in 1 .. list[m].size :
             ch[l][i] = ch[m][j] => l = m
      /\ \A y \in DOMAIN node : \E l \in DOMAIN list : \E i \in 1 .. list[l].size : ch[l][i] = y
  BY <1>1 DEF NodeChains, OnChains
<1>3. \A l \in DOMAIN list : Owned(l) = {ch[l][i] : i \in 1 .. list[l].size}
  <2>1. OnChains(node, DOMAIN list, list, ch) /\ NULL \notin DOMAIN node
    BY <1>1, ListLinks DEF NodeChains
  <2> SUFFICES ASSUME NEW l \in DOMAIN list
               PROVE  Owned(l) = {ch[l][i] : i \in 1 .. list[l].size}
    OBVIOUS
  <2>2. Chain(node, list[l], list[l].size, ch[l])
    BY <1>2
  <2>3. OwnedIn(node, list[l]) = {ch[l][i] : i \in 1 .. list[l].size}
    BY <2>1, <2>2, OwnedIs
  <2> QED
    BY <2>3 DEF Owned
<1>4. ASSUME NEW l \in DOMAIN list
      PROVE  /\ Owned(l) \subseteq DOMAIN node
             /\ IsFiniteSet(Owned(l)) /\ Cardinality(Owned(l)) = list[l].size
  <2>1. PICK n, s : n = list[l].size /\ s = ch[l]
    OBVIOUS
  <2>2. /\ n \in Nat /\ s \in [1 .. n -> DOMAIN node]
        /\ \A i, j \in 1 .. n : s[i] = s[j] => i = j
    <3>1. Chain(node, list[l], n, s)
      BY <1>2, <2>1
    <3> QED
      BY <3>1 DEF Chain
  <2>3. Owned(l) = {s[i] : i \in 1 .. n}
    BY <1>3, <2>1
  <2>4. IsFiniteSet(Members(n, s)) /\ Cardinality(Members(n, s)) = n
    BY <2>2, MembersSize
  <2>5. Owned(l) = Members(n, s)
    BY <2>3 DEF Members
  <2> QED
    <3>1. Owned(l) \subseteq DOMAIN node
      BY <2>2, <2>3
    <3>2. IsFiniteSet(Owned(l)) /\ Cardinality(Owned(l)) = n
      BY <2>4, <2>5
    <3> QED
      BY <2>1, <3>1, <3>2
<1>5. ASSUME NEW l \in DOMAIN list, NEW m \in DOMAIN list, NEW y \in Owned(l), y \in Owned(m)
      PROVE  l = m
  <2>1. PICK i \in 1 .. list[l].size : y = ch[l][i]
    BY <1>3
  <2>2. PICK j \in 1 .. list[m].size : y = ch[m][j]
    BY <1>3, <1>5
  <2>3. ch[l][i] = ch[m][j]
    BY <2>1, <2>2
  <2> HIDE <2>1, <2>2
  <2> QED
    BY <1>2, <2>3
<1>6. ASSUME NEW y \in DOMAIN node
      PROVE  \E l \in DOMAIN list : y \in Owned(l)
  <2>1. PICK l \in DOMAIN list : \E i \in 1 .. list[l].size : ch[l][i] = y
    BY <1>2
  <2> QED
    BY <1>3, <2>1
<1>7. IsFiniteSet(DOMAIN node)
  <2>1. DOMAIN node \subseteq 1 .. nNode /\ nNode \in Nat
    BY DEF IndInv, TypeOK
  <2>2. IsFiniteSet(1 .. nNode)
    BY <2>1, FS_Interval
  <2> QED
    BY <2>1, <2>2, FS_Subset
<1> QED
  BY <1>4, <1>5, <1>6, <1>7

(* No list and no node goes, and each list keeps its nodes. *)
Grown ==
    /\ DOMAIN list \subseteq DOMAIN list' /\ DOMAIN node \subseteq DOMAIN node'
    /\ \A l \in DOMAIN list : /\ Owned(l) \subseteq Owned(l)'
                              /\ Owned(l)' \subseteq Owned(l) \cup (DOMAIN node' \ DOMAIN node)
    /\ \A l \in DOMAIN list' \ DOMAIN list : Owned(l)' = {}

LEMMA GrownByList ==
    ASSUME IndInv, IndInv', NEW u \in Threads, PutNewList(u)
    PROVE  Grown
<1>1. PICK x, r : ListMade(u, x, r)
  BY NewList
<1>2. /\ UNCHANGED node /\ DOMAIN list' = DOMAIN list \cup {x} /\ list'[x].mostL = NULL
      /\ \A l \in DOMAIN list : list'[l].mostL = list[l].mostL
  BY <1>1 DEF ListMade
<1>3. \A l \in DOMAIN list : Owned(l)' = Owned(l)
  BY <1>2 DEF Owned, OwnedIn
<1>4. Owned(x)' = {}
  <2>1. PICK cg : NodeChains(cg)'
    BY DEF IndInv, Chained
  <2>2. OnChains(node', DOMAIN list', list', cg) /\ NULL \notin DOMAIN node'
    BY <1>2, <2>1, ListLinks DEF NodeChains
  <2>3. Chain(node', list'[x], list'[x].size, cg[x]) /\ list'[x].size = 0
    BY <1>1, <1>2, <2>2 DEF OnChains, ListMade
  <2>4. OwnedIn(node', list'[x]) = {cg[x][i] : i \in 1 .. list'[x].size}
    BY <2>2, <2>3, OwnedIs
  <2>5. OwnedIn(node', list'[x]) = {}
    BY <2>3, <2>4
  <2> QED
    BY <2>5 DEF Owned
<1> QED
  BY <1>2, <1>3, <1>4 DEF Grown

LEMMA GrownByNode ==
    ASSUME IndInv, IndInv', NEW u \in Threads, PutNode(u)
    PROVE  Grown
<1>1. PICK ch : NodeChains(ch)
  BY DEF IndInv, Chained
<1>2. PICK l, x, h : l = L[u] /\ x = nNode + 1 /\ h = list[l]
  OBVIOUS
<1>3. PICK e, q : NodePut(u, l, x, h, ch[l], e, q)
  BY <1>1, <1>2, PutNodeLinks
<1>4. /\ l \in DOMAIN list /\ x \notin DOMAIN node
      /\ list' = [list EXCEPT ![l] = e]
      /\ DOMAIN node' = DOMAIN node \cup {x}
      /\ Chain(node', e, h.size + 1, q)
      /\ \A i \in 1 .. h.size + 1 : q[i] = x \/ \E j \in 1 .. h.size : q[i] = ch[l][j]
      /\ \A j \in 1 .. h.size : \E i \in 1 .. h.size + 1 : q[i] = ch[l][j]
      /\ \A y \in DOMAIN node : (\A j \in 1 .. h.size : ch[l][j] # y) =>
             node'[y].L = node[y].L /\ node'[y].R = node[y].R
  BY <1>3 DEF NodePut
<1>5. /\ DOMAIN list' = DOMAIN list /\ list'[l] = e
      /\ \A m \in DOMAIN list \ {l} : list'[m] = list[m]
  BY <1>4
<1>6. OnChains(node, DOMAIN list, list, ch) /\ NULL \notin DOMAIN node
  BY <1>1, ListLinks DEF NodeChains
<1>7. PICK cg : OnChains(node', DOMAIN list', list', cg)
  BY DEF IndInv, Chained, NodeChains
<1>8. NULL \notin DOMAIN node'
  BY DEF IndInv, TypeOK, NULL
<1>9. /\ \A m \in DOMAIN list : Chain(node, list[m], list[m].size, ch[m])
      /\ \A m, k \in DOMAIN list : \A i \in 1 .. list[m].size, j \in 1 .. list[k].size :
             ch[m][i] = ch[k][j] => m = k
  BY <1>6 DEF OnChains
<1>10. \A m \in DOMAIN list : Owned(m) = {ch[m][i] : i \in 1 .. list[m].size}
  BY <1>6, <1>9, OwnedIs DEF Owned
<1>11. Owned(l)' = {q[i] : i \in 1 .. h.size + 1}
  <2>1. OwnedIn(node', e) = {q[i] : i \in 1 .. h.size + 1}
    BY <1>4, <1>7, <1>8, OwnedIs
  <2> QED
    BY <1>5, <2>1 DEF Owned
<1>12. ASSUME NEW m \in DOMAIN list, m # l
       PROVE  Owned(m)' = Owned(m)
  <2>1. Chain(node, list[m], list[m].size, ch[m])
    BY <1>9
  <2>2. \A i \in 1 .. list[m].size : ch[m][i] \in DOMAIN node
    BY <2>1 DEF Chain
  <2>3. \A i \in 1 .. list[m].size : \A j \in 1 .. h.size : ch[l][j] # ch[m][i]
    BY <1>2, <1>4, <1>9, <1>12
  <2>4. \A i \in 1 .. list[m].size : /\ ch[m][i] \in DOMAIN node'
                                     /\ node'[ch[m][i]].L = node[ch[m][i]].L
                                     /\ node'[ch[m][i]].R = node[ch[m][i]].R
    BY <1>4, <2>2, <2>3
  <2>5. Chain(node', list[m], list[m].size, ch[m])
    BY <2>1, <2>4, KeepChain
  <2>6. OwnedIn(node', list[m]) = {ch[m][i] : i \in 1 .. list[m].size}
    BY <1>7, <1>8, <2>5, OwnedIs
  <2> QED
    BY <1>5, <1>10, <1>12, <2>6 DEF Owned
<1>13. Owned(l) = {ch[l][i] : i \in 1 .. h.size}
  BY <1>2, <1>4, <1>10
<1>14. Owned(l) \subseteq Owned(l)' /\ Owned(l)' \subseteq Owned(l) \cup {x}
  <2>1. Owned(l) \subseteq Owned(l)'
    BY <1>4, <1>11, <1>13
  <2>2. Owned(l)' \subseteq Owned(l) \cup {x}
    BY <1>4, <1>11, <1>13
  <2> QED
    BY <2>1, <2>2
<1> QED
  BY <1>4, <1>5, <1>12, <1>14 DEF Grown

LEMMA Growth ==
    ASSUME IndInv, IndInv', NEW u \in Threads, Thread(u), pc[u] \notin {"take", "drop"}
    PROVE  Grown
<1>1. CASE PutNewList(u)
  BY <1>1, GrownByList
<1>2. CASE PutNode(u)
  BY <1>2, GrownByNode
<1>3. CASE \/ \E k \in Keys : CallPut(u, k)
           \/ CallGet(u) \/ CallSize(u) \/ Lock(u) \/ Unlock(u) \/ Return(u)
           \/ PutFound(u) \/ SizeAdd(u) \/ SizeNext(u)
  <2>1. UNCHANGED <<list, node>>
    BY <1>3 DEF CallPut, CallGet, CallSize, Lock, Unlock, Return, PutFound, SizeAdd, SizeNext, dataVars
  <2> QED
    BY <2>1 DEF Grown, Owned
<1>4. ~ (GetTurn(u) \/ GetTake(u) \/ GetDrop(u))
  BY DEF GetTurn, GetTake, GetDrop
<1> QED
  BY <1>1, <1>2, <1>3, <1>4 DEF Thread

(* The lists that table_size has counted, and their nodes. *)
Done(t) == {k \in DOMAIN list : \/ L[t] = NULL \/ k < L[t]
                                \/ pc[t] = "sizeNext" /\ k = L[t]}
Behind(t) == UNION {Owned(k) : k \in Done(t)}

(* The sum so far is no more than the nodes behind it, and what there was  *)
(* when the call began is in the sum or still ahead.                       *)
SumBetween(t) ==
    IF pc[t] \in {"size", "sizeNext"}
    THEN /\ sum[t] <= Cardinality(Behind(t))
         /\ least[t] <= sum[t] + Cardinality(DOMAIN node \ Behind(t))
    ELSE sum[t] = 0

SumsBetween == least \in [Threads -> Nat] /\ \A t \in Threads : SumBetween(t)

LEMMA BehindFinite ==
    ASSUME IndInv, NEW t
    PROVE  /\ Behind(t) \subseteq DOMAIN node
           /\ IsFiniteSet(Behind(t)) /\ Cardinality(Behind(t)) \in Nat
           /\ IsFiniteSet(DOMAIN node \ Behind(t)) /\ Cardinality(DOMAIN node \ Behind(t)) \in Nat
<1>1. Behind(t) \subseteq DOMAIN node /\ IsFiniteSet(DOMAIN node)
  BY OwnedFacts DEF Behind, Done
<1>2. IsFiniteSet(Behind(t)) /\ IsFiniteSet(DOMAIN node \ Behind(t))
  BY <1>1, FS_Subset
<1> QED
  BY <1>1, <1>2, FS_CardinalityType

(* While another thread moves. *)
LEMMA BehindGrows ==
    ASSUME IndInv, IndInv', Grown, NEW t \in Threads, least[t] \in Nat,
           pc[t] \in {"size", "sizeNext"}, SumBetween(t),
           pc'[t] = pc[t], L'[t] = L[t], sum'[t] = sum[t], least'[t] = least[t]
    PROVE  SumBetween(t)'
<1>1. Done(t) \subseteq Done(t)' /\ Done(t)' \cap DOMAIN list \subseteq Done(t)
  BY DEF Done, Grown
<1>2. Behind(t) \subseteq Behind(t)'
  <2>1. \A k \in Done(t) : Owned(k) \subseteq Owned(k)' /\ k \in Done(t)'
    BY <1>1 DEF Grown, Done
  <2> QED
    BY <2>1 DEF Behind
<1>3. Behind(t)' \subseteq Behind(t) \cup (DOMAIN node' \ DOMAIN node)
  <2> SUFFICES ASSUME NEW y, y \in Behind(t)'
               PROVE  y \in Behind(t) \cup (DOMAIN node' \ DOMAIN node)
    OBVIOUS
  <2>1. PICK k \in Done(t)' : y \in Owned(k)'
    BY DEF Behind
  <2>2. k \in DOMAIN list
    BY <2>1 DEF Grown, Done
  <2>3. y \in Owned(k) \cup (DOMAIN node' \ DOMAIN node) /\ k \in Done(t)
    BY <1>1, <2>1, <2>2 DEF Grown
  <2> QED
    BY <2>3 DEF Behind
<1>4. DOMAIN node \ Behind(t) \subseteq DOMAIN node' \ Behind(t)'
  BY <1>3 DEF Grown
<1>5. PICK A, B, C, D : /\ A = Behind(t) /\ B = Behind(t)'
                        /\ C = DOMAIN node \ Behind(t) /\ D = DOMAIN node' \ Behind(t)'
  OBVIOUS
<1>6. IsFiniteSet(B) /\ IsFiniteSet(D)
  <2>1. IsFiniteSet(DOMAIN node') /\ Behind(t)' \subseteq DOMAIN node'
    <3>1. DOMAIN node' \subseteq 1 .. nNode' /\ nNode' \in Nat
      BY DEF IndInv, TypeOK
    <3>2. IsFiniteSet(DOMAIN node')
      <4>1. IsFiniteSet(1 .. nNode')
        BY <3>1, FS_Interval
      <4> QED
        BY <3>1, <4>1, FS_Subset
    <3>3. Behind(t)' \subseteq DOMAIN node'
      BY <1>3, BehindFinite DEF Grown
    <3> QED
      BY <3>2, <3>3
  <2> QED
    BY <1>5, <2>1, FS_Subset
<1>7. Cardinality(A) <= Cardinality(B) /\ Cardinality(C) <= Cardinality(D)
  BY <1>2, <1>4, <1>5, <1>6, FS_Subset
<1>8. Cardinality(B) \in Nat /\ Cardinality(D) \in Nat /\ Cardinality(A) \in Nat /\ Cardinality(C) \in Nat
  BY <1>5, <1>6, BehindFinite, FS_CardinalityType
<1>9. sum[t] \in Int
  BY DEF IndInv, TypeOK
<1>10. sum[t] <= Cardinality(A) /\ least[t] <= sum[t] + Cardinality(C)
  BY <1>5 DEF SumBetween
<1>11. sum[t] <= Cardinality(B) /\ least[t] <= sum[t] + Cardinality(D)
  BY <1>7, <1>8, <1>9, <1>10
<1> QED
  BY <1>5, <1>11 DEF SumBetween

(* table_size adds a list. *)
LEMMA SizeAddBetween ==
    ASSUME IndInv, NEW t \in Threads, SizeAdd(t), SumBetween(t), least[t] \in Nat,
           least'[t] = least[t]
    PROVE  SumBetween(t)'
<1>1. PICK l, n : l = L[t] /\ n = list[l].size
  OBVIOUS
<1>2. /\ pc[t] = "size" /\ l # NULL
      /\ sum' = [sum EXCEPT ![t] = @ + n] /\ pc' = [pc EXCEPT ![t] = "sizeNext"]
      /\ UNCHANGED <<list, node, L>>
  BY <1>1 DEF SizeAdd, Goto, dataVars
<1>3. l \in DOMAIN list /\ sum \in [Threads -> Int] /\ pc \in [Threads -> Labels]
      /\ DOMAIN list \subseteq Nat
  BY <1>1, <1>2 DEF IndInv, NoDanglingList, TypeOK
<1>4. l \notin Done(t) /\ Done(t)' = Done(t) \cup {l}
  BY <1>1, <1>2, <1>3 DEF Done
<1>5. \A k : Owned(k)' = Owned(k)
  BY <1>2 DEF Owned
<1>6. PICK A, O, C : A = Behind(t) /\ O = Owned(l) /\ C = DOMAIN node \ A
  OBVIOUS
<1>7. Behind(t)' = A \cup O
  BY <1>4, <1>5, <1>6 DEF Behind
<1>8. /\ O \cap A = {} /\ O \subseteq DOMAIN node
      /\ IsFiniteSet(O) /\ Cardinality(O) = n /\ n \in Nat
  <2>1. O \subseteq DOMAIN node /\ IsFiniteSet(O) /\ Cardinality(O) = n
    BY <1>1, <1>3, <1>6, OwnedFacts
  <2>2. \A k \in Done(t) : O \cap Owned(k) = {}
    BY <1>3, <1>4, <1>6, OwnedFacts DEF Done
  <2>3. n \in Nat
    BY <2>1, FS_CardinalityType
  <2> QED
    BY <1>6, <2>1, <2>2, <2>3 DEF Behind
<1>9. IsFiniteSet(A) /\ IsFiniteSet(C) /\ Cardinality(A) \in Nat /\ Cardinality(C) \in Nat
  BY <1>6, BehindFinite
<1>10. Cardinality(A \cup O) = Cardinality(A) + n
  <2>1. Cardinality(A \cup O) = Cardinality(A) + Cardinality(O) - Cardinality(A \cap O)
    BY <1>8, <1>9, FS_Union
  <2>2. A \cap O = {} /\ Cardinality({}) = 0
    BY <1>8, FS_EmptySet
  <2>3. Cardinality(A \cup O) = Cardinality(A) + n - 0
    BY <1>8, <2>1, <2>2
  <2> QED
    BY <1>8, <1>9, <2>3
<1>11. Cardinality(C) = Cardinality(C \ O) + n
  <2>1. C \cap O = O
    BY <1>6, <1>8
  <2>2. Cardinality(C \ O) = Cardinality(C) - Cardinality(C \cap O)
    BY <1>9, FS_Difference
  <2>3. Cardinality(C \ O) = Cardinality(C) - n
    BY <1>8, <2>1, <2>2
  <2> QED
    BY <1>8, <1>9, <2>3
<1>12. DOMAIN node' \ Behind(t)' = C \ O
  BY <1>2, <1>6, <1>7
<1>13. n \in Nat /\ Cardinality(C \ O) \in Nat
  BY <1>8, <1>9, FS_CardinalityType, FS_Difference
<1>14. sum[t] <= Cardinality(A) /\ least[t] <= sum[t] + Cardinality(C)
  BY <1>2, <1>6 DEF SumBetween
<1>15. sum'[t] = sum[t] + n /\ pc'[t] = "sizeNext"
  BY <1>2, <1>3
<1>16. sum'[t] <= Cardinality(Behind(t)') /\ least'[t] <= sum'[t] + Cardinality(DOMAIN node' \ Behind(t)')
  <2>1. sum[t] \in Int
    BY <1>3
  <2>2. sum[t] + n <= Cardinality(A) + n /\ least[t] <= sum[t] + n + Cardinality(C \ O)
    BY <1>9, <1>11, <1>13, <1>14, <2>1
  <2> QED
    BY <1>7, <1>10, <1>12, <1>15, <2>2
<1> QED
  BY <1>15, <1>16 DEF SumBetween

(* It goes on to the next list. *)
LEMMA SizeNextBetween ==
    ASSUME IndInv, Ascending, NEW t \in Threads, SizeNext(t), SumBetween(t), least'[t] = least[t]
    PROVE  SumBetween(t)'
<1>1. PICK l : l = L[t]
  OBVIOUS
<1>2. /\ pc[t] = "sizeNext" /\ pc' = [pc EXCEPT ![t] = "size"]
      /\ L' = [L EXCEPT ![t] = list[l].R] /\ UNCHANGED <<list, node, sum>>
  BY <1>1 DEF SizeNext, At, Goto, dataVars
<1>3. /\ l \in DOMAIN list /\ l # NULL
      /\ pc \in [Threads -> Labels] /\ L \in [Threads -> Nat] /\ DOMAIN list \subseteq Nat
      /\ list[l].R \in Nat
  BY <1>1, <1>2 DEF IndInv, NoDanglingList, TypeOK, Placed
<1>4. Done(t)' = Done(t)
  <2>1. pc'[t] = "size" /\ L'[t] = list[l].R
    BY <1>2, <1>3
  <2>2. \A k \in DOMAIN list : k <= l <=> list[l].R = NULL \/ k < list[l].R
    BY <1>3 DEF Ascending
  <2>3. \A k \in DOMAIN list : k <= l <=> k < l \/ k = l
    BY <1>3
  <2> QED
    BY <1>1, <1>2, <1>3, <2>1, <2>2, <2>3 DEF Done
<1>5. Behind(t)' = Behind(t)
  BY <1>2, <1>4 DEF Behind, Owned
<1> QED
  BY <1>2, <1>3, <1>5 DEF SumBetween

(* A call begins: nothing is counted and all that is there is ahead. *)
LEMMA CallSizeBetween ==
    ASSUME IndInv, Ascending, NEW t \in Threads, CallSize(t), SumBetween(t),
           least'[t] = Cardinality(DOMAIN node)
    PROVE  SumBetween(t)'
<1>1. /\ pc[t] = "idle" /\ pc' = [pc EXCEPT ![t] = "size"]
      /\ L' = [L EXCEPT ![t] = T.mostL] /\ UNCHANGED <<list, node, sum>>
  BY DEF CallSize, CanCall, At, Goto, SizeFrom, dataVars
<1>2. /\ pc \in [Threads -> Labels] /\ L \in [Threads -> Nat] /\ DOMAIN list \subseteq Nat
      /\ T.mostL \in Nat
  BY DEF IndInv, TypeOK
<1>3. Done(t)' = {}
  BY <1>1, <1>2 DEF Done, Ascending
<1>4. Behind(t)' = {}
  BY <1>3 DEF Behind
<1>5. sum[t] = 0 /\ pc'[t] = "size"
  BY <1>1, <1>2 DEF SumBetween
<1>6. Cardinality({}) = 0 /\ DOMAIN node \ {} = DOMAIN node /\ Cardinality(DOMAIN node) \in Nat
  BY OwnedFacts, FS_EmptySet, FS_CardinalityType
<1> QED
  BY <1>1, <1>4, <1>5, <1>6 DEF SumBetween

LEMMA OthersStay ==
    ASSUME IndInv, NEW u \in Threads, Thread(u), NEW t \in Threads, t # u
    PROVE  pc'[t] = pc[t] /\ L'[t] = L[t] /\ sum'[t] = sum[t]
<1>1. pc \in [Threads -> Labels] /\ L \in [Threads -> Nat] /\ sum \in [Threads -> Int]
  BY DEF IndInv, TypeOK
<1>2. /\ pc' = [pc EXCEPT ![u] = pc'[u]]
      /\ L' = L \/ L' = [L EXCEPT ![u] = L'[u]]
      /\ sum' = sum \/ sum' = [sum EXCEPT ![u] = sum'[u]]
  BY <1>1 DEF Thread, CallPut, CallGet, CallSize, Lock, Unlock, Return, PutFound, PutNewList, PutNode,
              GetTurn, GetTake, GetDrop, SizeAdd, SizeNext, Goto, At
<1> QED
  BY <1>1, <1>2

LEMMA SumsBetweenStep ==
    ASSUME IndInv, IndInv', Ascending, SumsBetween, [Next]_vars, Observe
    PROVE  SumsBetween'
<1>0. /\ pc \in [Threads -> Labels] /\ L \in [Threads -> Nat] /\ sum \in [Threads -> Int]
      /\ Cardinality(DOMAIN node) \in Nat
  BY OwnedFacts, FS_CardinalityType DEF IndInv, TypeOK
<1>1. /\ least \in [Threads -> Nat] /\ \A t \in Threads : SumBetween(t)
      /\ least' = [t \in Threads |->
                      IF pc[t] = "idle" /\ pc'[t] = "size" THEN Cardinality(DOMAIN node)
                      ELSE least[t]]
  BY DEF SumsBetween, Observe
<1>2. least' \in [Threads -> Nat]
  BY <1>0, <1>1
<1>3. ASSUME NEW t \in Threads, UNCHANGED vars
      PROVE  SumBetween(t)'
  <2>1. UNCHANGED <<list, node, pc, L, sum>> /\ least'[t] = least[t]
    BY <1>1, <1>3 DEF vars
  <2>2. Behind(t)' = Behind(t)
    BY <2>1 DEF Behind, Done, Owned
  <2> QED
    BY <1>1, <2>1, <2>2 DEF SumBetween
<1>4. ASSUME NEW u \in Threads, Thread(u), NEW t \in Threads, t # u
      PROVE  SumBetween(t)'
  <2>1. pc'[t] = pc[t] /\ L'[t] = L[t] /\ sum'[t] = sum[t]
    BY <1>4, OthersStay
  <2>2. least'[t] = least[t]
    BY <1>1, <2>1
  <2>3. CASE pc[t] \in {"size", "sizeNext"}
    <3>1. Getters \subseteq {t}
      BY <2>3, CountersAssumption DEF IndInv, Placed
    <3>2. pc[u] \notin {"take", "drop"}
      BY <1>4, <3>1 DEF IndInv, Placed
    <3>3. Grown
      BY <1>4, <3>2, Growth
    <3> QED
      BY <1>1, <2>1, <2>2, <2>3, <3>3, BehindGrows
  <2>4. CASE pc[t] \notin {"size", "sizeNext"}
    BY <1>1, <2>1, <2>4 DEF SumBetween
  <2> QED
    BY <2>3, <2>4
<1>5. ASSUME NEW t \in Threads, Thread(t)
      PROVE  SumBetween(t)'
  <2>1. CASE SizeAdd(t)
    <3>1. least'[t] = least[t]
      BY <1>1, <2>1 DEF SizeAdd
    <3> QED
      BY <1>1, <2>1, <3>1, SizeAddBetween
  <2>2. CASE SizeNext(t)
    <3>1. least'[t] = least[t]
      BY <1>1, <2>2 DEF SizeNext
    <3> QED
      BY <1>1, <2>2, <3>1, SizeNextBetween
  <2>3. CASE CallSize(t)
    <3>1. least'[t] = Cardinality(DOMAIN node)
      BY <1>0, <1>1, <2>3 DEF CallSize, CanCall, Goto
    <3> QED
      BY <1>1, <2>3, <3>1, CallSizeBetween
  <2>4. CASE Return(t)
    BY <1>0, <2>4 DEF Return, Goto, SumBetween
  <2>5. CASE \/ \E k \in Keys : CallPut(t, k)
             \/ CallGet(t) \/ Lock(t) \/ Unlock(t) \/ PutFound(t) \/ PutNewList(t)
             \/ PutNode(t) \/ GetTurn(t) \/ GetTake(t) \/ GetDrop(t)
    <3>1. pc[t] \notin {"size", "sizeNext"} /\ UNCHANGED sum
      BY <2>5 DEF CallPut, CallGet, Lock, Unlock, PutFound, PutNewList, PutNode, GetTurn, GetTake,
                  GetDrop, CanCall, Inside, Pushing
    <3>2. pc'[t] \notin {"size", "sizeNext"}
      <4>1. CASE PutNewList(t)
        <5>1. PICK x, r : ListMade(t, x, r)
          BY <4>1, NewList
        <5> QED
          BY <1>0, <5>1 DEF ListMade
      <4>2. CASE PutFound(t)
        BY <1>0, <4>2 DEF PutFound, Pushing, Goto
      <4>3. CASE Lock(t)
        BY <1>0, <4>3 DEF Lock, Inside, Goto
      <4>4. CASE \/ \E k \in Keys : CallPut(t, k)
                 \/ CallGet(t) \/ Unlock(t)
                 \/ PutNode(t) \/ GetTurn(t) \/ GetTake(t) \/ GetDrop(t)
        BY <1>0, <4>4 DEF CallPut, CallGet, Unlock, PutNode, GetTurn, GetTake, GetDrop, Goto
      <4> QED
        BY <2>5, <4>1, <4>2, <4>3, <4>4
    <3> QED
      BY <1>1, <3>1, <3>2 DEF SumBetween
  <2> QED
    BY <1>5, <2>1, <2>2, <2>3, <2>4, <2>5 DEF Thread
<1>6. \A t \in Threads : SumBetween(t)'
  BY <1>3, <1>4, <1>5 DEF Next, Ended
<1> QED
  BY <1>2, <1>6 DEF SumsBetween

(* Every list is behind when the walk is at its end. *)
LEMMA SumAtEnd == IndInv /\ SumsBetween => SizeBetween
<1> SUFFICES ASSUME IndInv, SumsBetween, NEW t \in Threads, pc[t] = "size", L[t] = NULL
             PROVE  least[t] <= sum[t] /\ sum[t] <= Cardinality(DOMAIN node)
  BY DEF SizeBetween
<1>1. Behind(t) = DOMAIN node
  <2>1. Done(t) = DOMAIN list
    BY DEF Done
  <2>2. Behind(t) \subseteq DOMAIN node
    <3> SUFFICES ASSUME NEW k \in DOMAIN list PROVE Owned(k) \subseteq DOMAIN node
      BY <2>1, Zenon DEF Behind
    <3> QED
      BY OwnedFacts, Zenon
  <2>3. ASSUME NEW y \in DOMAIN node PROVE y \in Behind(t)
    <3>1. PICK l \in DOMAIN list : y \in Owned(l)
      BY OwnedFacts, Zenon
    <3> QED
      BY <2>1, <3>1, Zenon DEF Behind
  <2> QED
    BY <2>2, <2>3
<1>2. /\ sum[t] <= Cardinality(Behind(t))
      /\ least[t] <= sum[t] + Cardinality(DOMAIN node \ Behind(t))
  BY DEF SumsBetween, SumBetween
<1>3. DOMAIN node \ Behind(t) = {} /\ Cardinality({}) = 0
  BY <1>1, FS_EmptySet
<1>4. sum[t] \in Int /\ least[t] \in Nat
  BY DEF IndInv, TypeOK, SumsBetween
<1>5. Cardinality(DOMAIN node \ Behind(t)) = 0
  BY <1>3
<1>6. least[t] <= sum[t]
  BY <1>2, <1>4, <1>5
<1>7. sum[t] <= Cardinality(DOMAIN node)
  BY <1>1, <1>2
<1> QED
  BY <1>6, <1>7

------------------------------------------------------------------------------
(* What the users of the table rely on. *)

TurnInv == IndInv /\ Ascending /\ MissedOnce /\ PassedSooner /\ SumsBetween

LEMMA TurnInitially == InitH => TurnInv
<1> SUFFICES ASSUME InitH PROVE TurnInv
  OBVIOUS
<1>1. IndInv
  BY Initially DEF InitH
<1>2. DOMAIN list = {}
  BY DEF InitH, Init
<1>3. Ascending /\ MissedOnce
  BY <1>2 DEF Ascending, MissedOnce, InitH
<1>4. PassedSooner
  BY <1>2 DEF PassedSooner, InitH
<1>5. SumsBetween
  BY DEF InitH, Init, SumsBetween, SumBetween
<1> QED
  BY <1>1, <1>3, <1>4, <1>5 DEF TurnInv

(* Sound, for any number of threads, calls and keys. *)
THEOREM TurnsSound == SpecH => []TurnInv
<1>1. InitH => TurnInv
  BY TurnInitially
<1>2. TurnInv /\ [Next /\ Observe]_<<vars, history>> => TurnInv'
  <2> SUFFICES ASSUME TurnInv, [Next /\ Observe]_<<vars, history>> PROVE TurnInv'
    OBVIOUS
  <2>1. IndInv /\ Ascending /\ MissedOnce /\ PassedSooner /\ SumsBetween
    BY DEF TurnInv
  <2>2. CASE Next /\ Observe
    <3>1. IndInv'
      BY <2>1, <2>2, InvariantStep
    <3>2. Ascending' /\ MissedOnce' /\ PassedSooner'
      BY <2>1, <2>2, AscendingStep, MissedOnceStep, PassedSoonerStep
    <3>3. SumsBetween'
      BY <2>1, <2>2, <3>1, SumsBetweenStep
    <3> QED
      BY <3>1, <3>2, <3>3 DEF TurnInv
  <2>3. CASE UNCHANGED <<vars, history>>
    <3>1. UNCHANGED vars /\ UNCHANGED <<passed, misses, least>>
      BY <2>3 DEF history
    <3>2. IndInv'
      BY <2>1, <3>1, InvariantStep
    <3>3. UNCHANGED <<list, node, nList, T, pc, L, sum>>
      BY <3>1 DEF vars
    <3>4. Ascending' /\ MissedOnce'
      BY <2>1, <3>1, <3>3 DEF Ascending, MissedOnce
    <3>5. PassedSooner'
      BY <2>1, <3>1, <3>3 DEF PassedSooner, Sooner, Ahead
    <3>6. \A t : Behind(t)' = Behind(t)
      BY <3>3 DEF Behind, Done, Owned
    <3>7. SumsBetween'
      BY <2>1, <3>1, <3>3, <3>6 DEF SumsBetween, SumBetween
    <3> QED
      BY <3>2, <3>4, <3>5, <3>7 DEF TurnInv
  <2> QED
    BY <2>2, <2>3
<1> QED
  BY <1>1, <1>2, PTL DEF SpecH

(* Two gets in a row that return NULL mean an empty table, whatever other  *)
(* threads do between them (table.c:338-342).                              *)
THEOREM RetryFindsCorrect == SpecH => []RetryFinds
<1>1. TurnInv => RetryFinds
  BY DEF TurnInv, MissedOnce, RetryFinds
<1> QED
  BY <1>1, TurnsSound, PTL

(* No list is served twice while another waits (table.c:344-345). *)
THEOREM InTurnCorrect == SpecH => InTurn
<1>1. TurnInv /\ [Next /\ Observe]_<<vars, history>> =>
          [\A l \in DOMAIN list, s \in Served : l \notin Served => s \notin passed[l]]_<<vars, history>>
  <2> SUFFICES ASSUME TurnInv, Next
               PROVE  \A l \in DOMAIN list, s \in Served : l \notin Served => s \notin passed[l]
    OBVIOUS
  <2> QED
    BY NotTwice DEF TurnInv
<1> QED
  BY <1>1, TurnsSound, PTL DEF SpecH, InTurn

(* The unlocked count of a thread that is the only one to get is between   *)
(* the number of items when it was called and when it returns, however     *)
(* many threads put meanwhile (table.c:275-285).                           *)
THEOREM SizeBetweenCorrect == SpecH => []SizeBetween
<1>1. TurnInv => SizeBetween
  BY SumAtEnd DEF TurnInv
<1> QED
  BY <1>1, TurnsSound, PTL

------------------------------------------------------------------------------
(* The table as the queues of Turns, as functions of its parts: f is list, *)
(* g is node, h is T.                                                      *)

FilledFrom(f, x) ==
    LET s     == Right(f, x)
        empty == {j \in DOMAIN s : f[s[j]].mostL = NULL}
    IN  IF empty = {} THEN s ELSE RemoveAt(s, CHOOSE j \in empty : TRUE)

FilledIn(f, h) == FilledFrom(f, h.mostL)

ItemsFrom(g, x) ==
    LET s == Right(g, x) IN [j \in 1 .. Len(s) |-> g[s[j]].arg]

ItemsIn(g, e) == ItemsFrom(g, e.mostL)

ItemsOn(g, n, s) == [j \in 1 .. n |-> g[s[j]].arg]

QueuesOn(f, g, m, r) == [j \in 1 .. m |-> [key |-> f[r[j]].key, items |-> ItemsIn(g, f[r[j]])]]

TurnOn(m, r, c) == IF c = NULL THEN 0 ELSE CHOOSE j \in 1 .. m : r[j] = c

(* A function on 1 .. n is a sequence. *)
LEMMA OnNumbers ==
    ASSUME NEW n \in Nat, NEW U, NEW s \in [1 .. n -> U]
    PROVE  s \in Seq(U) /\ Len(s) = n /\ DOMAIN s = 1 .. n
<1>1. s \in Seq(U)
  BY SeqDef
<1> QED
  BY <1>1

(* Taking out one element leaves the others in order. *)
LEMMA WithoutOne ==
    ASSUME NEW n \in Nat, NEW U, NEW s \in [1 .. n -> U], NEW p \in 1 .. n
    PROVE  SubSeq(s, 1, p - 1) \o SubSeq(s, p + 1, Len(s)) = Drop(n, s, p)
<1>1. s \in Seq(U) /\ Len(s) = n /\ n \in Nat /\ p \in Nat /\ p >= 1 /\ p <= n
  BY OnNumbers
<1>2. /\ SubSeq(s, 1, p - 1) \in Seq(U) /\ Len(SubSeq(s, 1, p - 1)) = p - 1
      /\ \A i \in 1 .. p - 1 : SubSeq(s, 1, p - 1)[i] = s[i]
  <2>1. \A i \in 1 .. p - 1 : s[i] \in U
    BY <1>1
  <2>2. /\ SubSeq(s, 1, p - 1) \in Seq(U)
        /\ Len(SubSeq(s, 1, p - 1)) = IF 1 <= p - 1 THEN p - 1 - 1 + 1 ELSE 0
        /\ \A i \in 1 .. p - 1 - 1 + 1 : SubSeq(s, 1, p - 1)[i] = s[1 + i - 1]
    BY <1>1, <2>1, SubSeqProperties
  <2>3. p - 1 - 1 + 1 = p - 1 /\ \A i \in 1 .. p - 1 : 1 + i - 1 = i
    BY <1>1
  <2> QED
    BY <1>1, <2>2, <2>3
<1>3. /\ SubSeq(s, p + 1, n) \in Seq(U) /\ Len(SubSeq(s, p + 1, n)) = n - p
      /\ \A i \in 1 .. n - p : SubSeq(s, p + 1, n)[i] = s[p + i]
  <2>1. \A i \in p + 1 .. n : s[i] \in U
    BY <1>1
  <2>2. /\ SubSeq(s, p + 1, n) \in Seq(U)
        /\ Len(SubSeq(s, p + 1, n)) = IF p + 1 <= n THEN n - (p + 1) + 1 ELSE 0
        /\ \A i \in 1 .. n - (p + 1) + 1 : SubSeq(s, p + 1, n)[i] = s[p + 1 + i - 1]
    BY <1>1, <2>1, SubSeqProperties
  <2>3. n - (p + 1) + 1 = n - p /\ \A i \in 1 .. n - p : p + 1 + i - 1 = p + i
    BY <1>1
  <2> QED
    BY <1>1, <2>2, <2>3
<1>4. PICK a, b : a = SubSeq(s, 1, p - 1) /\ b = SubSeq(s, p + 1, n)
  OBVIOUS
<1>5. /\ a \o b \in Seq(U) /\ Len(a \o b) = p - 1 + (n - p)
      /\ \A i \in 1 .. p - 1 + (n - p) : (a \o b)[i] = IF i <= p - 1 THEN a[i] ELSE b[i - (p - 1)]
  BY <1>2, <1>3, <1>4, ConcatProperties
<1>6. p - 1 + (n - p) = n - 1
  BY <1>1
<1>7. ASSUME NEW i \in 1 .. n - 1 PROVE (a \o b)[i] = IF i < p THEN s[i] ELSE s[i + 1]
  <2>1. (a \o b)[i] = IF i <= p - 1 THEN a[i] ELSE b[i - (p - 1)]
    BY <1>5, <1>6
  <2>2. CASE i < p
    BY <1>1, <1>2, <1>4, <2>1, <2>2
  <2>3. CASE ~ (i < p)
    <3>1. i - (p - 1) \in 1 .. n - p /\ p + (i - (p - 1)) = i + 1 /\ ~ (i <= p - 1)
      BY <1>1, <2>3
    <3> QED
      BY <1>3, <1>4, <2>1, <2>3, <3>1
  <2> QED
    BY <2>2, <2>3
<1>8. DOMAIN (a \o b) = 1 .. n - 1 /\ a \o b = [i \in 1 .. n - 1 |-> (a \o b)[i]]
  <2>1. PICK c : c = a \o b
    OBVIOUS
  <2>2. c \in Seq(U) /\ Len(c) = n - 1
    BY <1>5, <1>6, <2>1
  <2>3. DOMAIN c = 1 .. n - 1 /\ c = [i \in 1 .. n - 1 |-> c[i]]
    BY <2>2, LenProperties
  <2> QED
    BY <2>1, <2>3
<1> QED
  BY <1>1, <1>4, <1>7, <1>8 DEF Drop

(* What Right returns for a whole chain. *)
LEMMA RightAll ==
    ASSUME NEW f, NULL \notin DOMAIN f, NEW h, NEW n, NEW s, Chain(f, h, n, s),
           \A y \in DOMAIN f : \E i \in 1 .. n : s[i] = y
    PROVE  Right(f, h.mostL) = s
<1>1. h.size = n
  BY DEF Chain
<1> DEFINE hd == [d \in {0} |-> h]
           cs == [d \in {0} |-> s]
<1>2. \A d \in {0} : Chain(f, hd[d], hd[d].size, cs[d])
  BY <1>1
<1>3. \A d, c \in {0} : \A i \in 1 .. hd[d].size, j \in 1 .. hd[c].size : cs[d][i] = cs[c][j] => d = c
  OBVIOUS
<1>4. \A y \in DOMAIN f : \E d \in {0} : \E i \in 1 .. hd[d].size : cs[d][i] = y
  BY <1>1
<1> HIDE DEF hd, cs
<1>5. OnChains(f, {0}, hd, cs)
  BY <1>2, <1>3, <1>4 DEF OnChains
<1>6. PICK w : Rights(f, w)
  BY <1>5, SuffixesExist
<1> QED
  BY <1>6, RightIs

(* The items of a list, read along its chain. *)
LEMMA ItemsAre ==
    ASSUME NEW g, NULL \notin DOMAIN g, NEW D, NEW hd, NEW ch, OnChains(g, D, hd, ch),
           NEW e, NEW n, NEW s, Chain(g, e, n, s)
    PROVE  ItemsIn(g, e) = ItemsOn(g, n, s)
<1>1. PICK w : Rights(g, w)
  BY SuffixesExist
<1>2. Right(g, e.mostL) = s
  BY <1>1, RightIs
<1>3. n \in Nat /\ s \in [1 .. n -> DOMAIN g]
  BY DEF Chain
<1>4. Len(s) = n
  BY <1>3, OnNumbers
<1> QED
  BY <1>2, <1>4 DEF ItemsIn, ItemsFrom, ItemsOn

(* The lists with items: all of them, or all but the p-th. *)
LEMMA AllFilled ==
    ASSUME NEW f, NULL \notin DOMAIN f, NEW h, NEW n, NEW s, Chain(f, h, n, s),
           \A y \in DOMAIN f : \E i \in 1 .. n : s[i] = y,
           \A y \in DOMAIN f : f[y].mostL # NULL
    PROVE  FilledIn(f, h) = s
<1>1. Right(f, h.mostL) = s
  BY RightAll
<1>2. n \in Nat /\ s \in [1 .. n -> DOMAIN f]
  BY DEF Chain
<1>3. {j \in DOMAIN s : f[s[j]].mostL = NULL} = {}
  BY <1>2
<1> QED
  BY <1>1, <1>3 DEF FilledIn, FilledFrom

LEMMA OneEmpty ==
    ASSUME NEW f, NULL \notin DOMAIN f, NEW h, NEW n, NEW s, Chain(f, h, n, s),
           \A y \in DOMAIN f : \E i \in 1 .. n : s[i] = y,
           NEW p \in 1 .. n, \A y \in DOMAIN f : f[y].mostL = NULL <=> y = s[p]
    PROVE  FilledIn(f, h) = Drop(n, s, p)
<1>1. Right(f, h.mostL) = s
  BY RightAll
<1>2. /\ n \in Nat /\ s \in [1 .. n -> DOMAIN f] /\ DOMAIN s = 1 .. n
      /\ \A i, j \in 1 .. n : s[i] = s[j] => i = j
  BY DEF Chain
<1> DEFINE empty == {j \in DOMAIN s : f[s[j]].mostL = NULL}
<1>3. empty = {p}
  BY <1>2
<1> HIDE DEF empty
<1>4. FilledIn(f, h) = RemoveAt(s, p)
  <2>1. FilledIn(f, h) = IF empty = {} THEN s ELSE RemoveAt(s, CHOOSE j \in empty : TRUE)
    BY <1>1 DEF FilledIn, FilledFrom, empty
  <2>2. (CHOOSE j \in empty : TRUE) = p
    BY <1>3
  <2> QED
    BY <1>3, <2>1, <2>2
<1> QED
  BY <1>2, <1>4, WithoutOne DEF RemoveAt

(* The list that is served next, by its number. *)
LEMMA TurnAt ==
    ASSUME NEW m, NEW r, NEW j \in 1 .. m, \A i \in 1 .. m : r[i] = r[j] => i = j, r[j] # NULL
    PROVE  TurnOn(m, r, r[j]) = j
  BY DEF TurnOn

(* What the variables of Turns stand for. *)
QueuesOf(f, g, h) == LET r == FilledIn(f, h) IN QueuesOn(f, g, Len(r), r)
TurnOf(f, h)      == LET r == FilledIn(f, h) IN TurnOn(Len(r), r, h.cur)

LEMMA Shown == tableQueues = QueuesOf(list, node, T) /\ tableTurn = TurnOf(list, T)
<1>1. filled = FilledIn(list, T)
  BY DEF filled, FilledIn, FilledFrom
<1>2. \A l : itemsOf(l) = ItemsIn(node, list[l])
  BY DEF itemsOf, ItemsIn, ItemsFrom
<1>3. tableQueues = QueuesOf(list, node, T)
  BY <1>1, <1>2 DEF tableQueues, QueuesOf, QueuesOn
<1>4. tableTurn = TurnOf(list, T)
  BY <1>1 DEF tableTurn, TurnOf, TurnOn
<1> QED
  BY <1>3, <1>4

LEMMA ShownNext == tableQueues' = QueuesOf(list', node', T') /\ tableTurn' = TurnOf(list', T')
<1>1. (tableQueues = QueuesOf(list, node, T) /\ tableTurn = TurnOf(list, T))'
  BY Shown, PTL
<1> QED
  BY <1>1

LEMMA OfOn ==
    ASSUME NEW f, NEW g, NEW h, NEW m \in Nat, NEW r \in [1 .. m -> DOMAIN f], FilledIn(f, h) = r
    PROVE  QueuesOf(f, g, h) = QueuesOn(f, g, m, r) /\ TurnOf(f, h) = TurnOn(m, r, h.cur)
<1>1. Len(r) = m
  BY OnNumbers
<1> QED
  BY <1>1 DEF QueuesOf, TurnOf

------------------------------------------------------------------------------
(* What the refinement needs beside IndInv: the list of the cursor has     *)
(* items, calls return what was taken only after the get that took it, and *)
(* a put that searched the list has found the first with its key, or made  *)
(* the last.                                                               *)

AllOnChain(f, h, n, s) == Chain(f, h, n, s) /\ \A y \in DOMAIN f : \E i \in 1 .. n : s[i] = y

FoundAt(f, h, n, s, i, l, k) ==
    /\ AllOnChain(f, h, n, s) /\ i \in 1 .. n /\ s[i] = l
    /\ \A j \in 1 .. i - 1 : f[s[j]].key # k
    /\ IF f[l].mostL = NULL THEN i = n /\ f[l].key = Clip[k] ELSE f[l].key = k

Found(f, h, l, k) == \E n, s, i : FoundAt(f, h, n, s, i, l, k)

CursorFilled == T.cur # NULL => list[T.cur].mostL # NULL

Callers ==
    \A t \in Threads :
        /\ pc[t] \in {"put", "putBack", "find", "findBack", "push", "pushBack"} => t \in Putters
        /\ pc[t] \in {"drop", "unlock", "return"} => t \in Putters \cup Getters
        /\ pc[t] \notin {"drop", "unlock", "return"} => arg[t] = NoItem

Searched == \A t \in Threads : pc[t] \in {"push", "pushBack"} => Found(list, T, L[t], key[t])

Serving == CursorFilled /\ Callers /\ Searched

LEMMA OnChainAll == \A n, s : ListChain(n, s) <=> AllOnChain(list, T, n, s)
BY DEF ListChain, AllOnChain

(* What every step of a thread t leaves of the others. *)
OthersKept(t) ==
    \A u \in Threads \ {t} : /\ pc'[u] = pc[u] /\ key'[u] = key[u] /\ calls'[u] = calls[u]
                             /\ arg'[u] = arg[u] /\ L'[u] = L[u]

LEMMA OthersKeptStep ==
    ASSUME IndInv, NEW t \in Threads, Thread(t)
    PROVE  OthersKept(t)
<1> USE DEF OthersKept, Goto, At
<1>0. /\ pc \in [Threads -> Labels] /\ L \in [Threads -> Nat]
      /\ key \in [Threads -> Keys \cup {NoKey}] /\ arg \in [Threads -> Items \cup {NoItem}]
      /\ calls \in [Threads -> 0 .. Calls]
  BY DEF IndInv, TypeOK
<1>1. ASSUME NEW k \in Keys, CallPut(t, k) PROVE OthersKept(t)
  BY <1>0, <1>1 DEF CallPut
<1>2. CASE CallGet(t)
  BY <1>0, <1>2 DEF CallGet
<1>3. CASE CallSize(t)
  BY <1>0, <1>3 DEF CallSize
<1>4. CASE Lock(t)
  BY <1>0, <1>4 DEF Lock
<1>5. CASE Unlock(t)
  BY <1>0, <1>5 DEF Unlock
<1>6. CASE Return(t)
  BY <1>0, <1>6 DEF Return
<1>7. CASE PutFound(t)
  BY <1>0, <1>7 DEF PutFound
<1>8. CASE PutNewList(t)
  BY <1>0, <1>8 DEF PutNewList
<1>9. CASE PutNode(t)
  BY <1>0, <1>9 DEF PutNode
<1>10. CASE GetTurn(t)
  BY <1>0, <1>10 DEF GetTurn
<1>11. CASE GetTake(t)
  BY <1>0, <1>11 DEF GetTake
<1>12. CASE GetDrop(t)
  BY <1>0, <1>12 DEF GetDrop
<1>13. CASE SizeAdd(t)
  BY <1>0, <1>13 DEF SizeAdd
<1>14. CASE SizeNext(t)
  BY <1>0, <1>14 DEF SizeNext
<1> QED
  BY <1>1, <1>2, <1>3, <1>4, <1>5, <1>6, <1>7, <1>8, <1>9, <1>10, <1>11, <1>12, <1>13, <1>14 DEF Thread

LEMMA CallersStep ==
    ASSUME IndInv, Callers, NEW t \in Threads, Thread(t)
    PROVE  Callers'
<1>0. /\ pc \in [Threads -> Labels] /\ arg \in [Threads -> Items \cup {NoItem}]
  BY DEF IndInv, TypeOK
<1>a. OthersKept(t)
  BY OthersKeptStep
<1>b. /\ pc[t] \in {"put", "putBack", "find", "findBack", "push", "pushBack"} => t \in Putters
      /\ pc[t] \in {"drop", "unlock", "return"} => t \in Putters \cup Getters
      /\ pc[t] \notin {"drop", "unlock", "return"} => arg[t] = NoItem
      /\ pc[t] \in {"get", "take", "drop"} => t \in Getters
  BY DEF Callers, IndInv, Placed
<1> DEFINE Good == /\ pc'[t] \in {"put", "putBack", "find", "findBack", "push", "pushBack"} => t \in Putters
                   /\ pc'[t] \in {"drop", "unlock", "return"} => t \in Putters \cup Getters
                   /\ pc'[t] \notin {"drop", "unlock", "return"} => arg'[t] = NoItem
<1> SUFFICES Good
  BY <1>a DEF Callers, OthersKept
<1> USE DEF Goto, At
<1>1. ASSUME NEW k \in Keys, CallPut(t, k) PROVE Good
  BY <1>0, <1>1, <1>b DEF CallPut, CanCall
<1>2. CASE CallGet(t)
  BY <1>0, <1>2, <1>b DEF CallGet, CanCall
<1>3. CASE CallSize(t)
  BY <1>0, <1>3, <1>b DEF CallSize, CanCall
<1>4. CASE Lock(t)
  BY <1>0, <1>4, <1>b DEF Lock, Inside
<1>5. CASE Unlock(t)
  BY <1>0, <1>5, <1>b DEF Unlock
<1>6. CASE Return(t)
  BY <1>0, <1>6, <1>b DEF Return
<1>7. CASE PutFound(t)
  BY <1>0, <1>7, <1>b DEF PutFound, Pushing
<1>8. CASE PutNewList(t)
  BY <1>0, <1>8, <1>b DEF PutNewList, Pushing
<1>9. CASE PutNode(t)
  BY <1>0, <1>9, <1>b DEF PutNode
<1>10. CASE GetTurn(t)
  BY <1>0, <1>10, <1>b DEF GetTurn
<1>11. CASE GetTake(t)
  BY <1>0, <1>11, <1>b DEF GetTake
<1>12. CASE GetDrop(t)
  BY <1>0, <1>12, <1>b DEF GetDrop
<1>13. CASE SizeAdd(t)
  BY <1>0, <1>13, <1>b DEF SizeAdd
<1>14. CASE SizeNext(t)
  BY <1>0, <1>14, <1>b DEF SizeNext
<1> QED
  BY <1>1, <1>2, <1>3, <1>4, <1>5, <1>6, <1>7, <1>8, <1>9, <1>10, <1>11, <1>12, <1>13, <1>14 DEF Thread

LEMMA SearchedStep ==
    ASSUME IndInv, Searched, NEW t \in Threads, OthersKept(t),
           (list' = list /\ T' = T) \/ pc[t] \in Holding,
           pc'[t] \in {"push", "pushBack"} => Found(list', T', L'[t], key'[t])
    PROVE  Searched'
<1> SUFFICES ASSUME NEW u \in Threads, u # t, pc'[u] \in {"push", "pushBack"}
             PROVE  Found(list', T', L'[u], key'[u])
  BY DEF Searched
<1>1. pc[u] \in {"push", "pushBack"} /\ L'[u] = L[u] /\ key'[u] = key[u]
  BY DEF OthersKept
<1>2. list' = list /\ T' = T
  BY <1>1 DEF IndInv, Exclusive, Holding
<1>3. Found(list, T, L[u], key[u])
  BY <1>1 DEF Searched
<1> QED
  BY <1>1, <1>2, <1>3

(* The first list that is found is the first with its key. *)
LEMMA FindFound ==
    ASSUME IndInv, NEW k, Find(k) # NULL,
           \A l \in DOMAIN list : list[l].mostL # NULL
    PROVE  Found(list, T, Find(k), k)
<1>1. PICK n, s : ListChain(n, s)
  BY DEF IndInv, Chained
<1>2. /\ Find(k) \in DOMAIN list /\ list[Find(k)].key = k
      /\ \E i \in 1 .. n : s[i] = Find(k) /\ \A h \in 1 .. i - 1 : list[s[h]].key # k
  BY <1>1, FindFacts, ListLinks
<1>3. PICK l : l = Find(k)
  OBVIOUS
<1>4. PICK i \in 1 .. n : s[i] = l /\ \A h \in 1 .. i - 1 : list[s[h]].key # k
  BY <1>2, <1>3
<1>5. FoundAt(list, T, n, s, i, l, k)
  BY <1>1, <1>2, <1>3, <1>4, OnChainAll DEF FoundAt
<1> QED
  BY <1>3, <1>5 DEF Found

(* Only the thread inside can have an empty list in its hands. *)
LEMMA NoneEmpty ==
    ASSUME IndInv, NEW t \in Threads, pc[t] \in {"find", "findBack", "take", "unlock"}
    PROVE  \A l \in DOMAIN list : list[l].mostL # NULL
<1> SUFFICES ASSUME NEW l \in DOMAIN list, list[l].mostL = NULL PROVE FALSE
  OBVIOUS
<1>1. PICK u \in Threads : L[u] = l /\ pc[u] \in {"push", "pushBack", "drop"}
  BY DEF IndInv, EmptyHeld
<1>2. u = t
  BY <1>1 DEF IndInv, Exclusive, Holding
<1> QED
  BY <1>1, <1>2

LEMMA OnlyEmpty ==
    ASSUME IndInv, NEW t \in Threads, pc[t] \in {"push", "pushBack", "drop"}
    PROVE  \A l \in DOMAIN list : list[l].mostL = NULL => l = L[t]
<1> SUFFICES ASSUME NEW l \in DOMAIN list, list[l].mostL = NULL PROVE l = L[t]
  OBVIOUS
<1>1. PICK u \in Threads : L[u] = l /\ pc[u] \in {"push", "pushBack", "drop"}
  BY DEF IndInv, EmptyHeld
<1>2. u = t
  BY <1>1 DEF IndInv, Exclusive, Holding
<1> QED
  BY <1>1, <1>2

(* A step that leaves the table alone shows the same queues and turn. *)
LEMMA SameShown ==
    ASSUME UNCHANGED <<list, node, T>>
    PROVE  tableQueues' = tableQueues /\ tableTurn' = tableTurn
BY Shown, ShownNext

------------------------------------------------------------------------------
(* The calls. *)

OpFor(t, p, k, c, a) ==
    CASE p \in {"idle", "size", "sizeNext"} -> [do |-> "none"]
      [] p \in {"put", "find", "push"} -> [do |-> "put", key |-> k, item |-> <<t, c>>]
      [] p \in {"putBack", "findBack", "pushBack"} -> [do |-> "putBack", key |-> k, item |-> <<t, c>>]
      [] p \in {"get", "take"} -> [do |-> "get"]
      [] p \in {"drop", "unlock", "return"} -> [do |-> "return", item |-> a]

LEMMA OpIs ==
    ASSUME NEW t, NEW p, NEW k, NEW c, NEW a
    PROVE  /\ p \in {"idle", "size", "sizeNext"} => OpFor(t, p, k, c, a) = [do |-> "none"]
           /\ p \in {"put", "find", "push"} =>
                OpFor(t, p, k, c, a) = [do |-> "put", key |-> k, item |-> <<t, c>>]
           /\ p \in {"putBack", "findBack", "pushBack"} =>
                OpFor(t, p, k, c, a) = [do |-> "putBack", key |-> k, item |-> <<t, c>>]
           /\ p \in {"get", "take"} => OpFor(t, p, k, c, a) = [do |-> "get"]
           /\ p \in {"drop", "unlock", "return"} => OpFor(t, p, k, c, a) = [do |-> "return", item |-> a]
BY DEF OpFor

LEMMA OpsAre ==
    /\ tableOp = [t \in Putters \cup Getters |-> OpFor(t, pc[t], key[t], calls[t], arg[t])]
    /\ tableOp' = [t \in Putters \cup Getters |-> OpFor(t, pc'[t], key'[t], calls'[t], arg'[t])]
BY DEF tableOp, OpFor

LEMMA OpStep ==
    ASSUME NEW t \in Threads, OthersKept(t),
           NEW o, o = OpFor(t, pc[t], key[t], calls[t], arg[t]),
           NEW p, p = OpFor(t, pc'[t], key'[t], calls'[t], arg'[t])
    PROVE  /\ t \in Putters \cup Getters => tableOp[t] = o /\ tableOp' = [tableOp EXCEPT ![t] = p]
           /\ t \notin Putters \cup Getters \/ p = o => tableOp' = tableOp
<1> DEFINE F(u) == OpFor(u, pc[u], key[u], calls[u], arg[u])
           G(u) == OpFor(u, pc'[u], key'[u], calls'[u], arg'[u])
<1>1. \A u \in Putters \cup Getters : u # t => G(u) = F(u)
  BY DEF OthersKept, Threads
<1>2. F(t) = o /\ G(t) = p
  OBVIOUS
<1>3. tableOp = [u \in Putters \cup Getters |-> F(u)] /\ tableOp' = [u \in Putters \cup Getters |-> G(u)]
  BY OpsAre
<1> HIDE DEF F, G
<1> QED
  BY <1>1, <1>2, <1>3

------------------------------------------------------------------------------
(* The steps that leave the lists alone. *)

TurnsNext == [Served_in_turn!Next]_(Served_in_turn!vars)

Implements == CursorFilled' /\ Searched' /\ TurnsNext

LEMMA TurnsStutter ==
    ASSUME tableQueues' = tableQueues, tableTurn' = tableTurn, tableOp' = tableOp
    PROVE  TurnsNext
BY DEF TurnsNext, Served_in_turn!vars

LEMMA QuietKeeps ==
    ASSUME IndInv, Serving, NEW t \in Threads, Thread(t), UNCHANGED <<list, node, T>>,
           pc'[t] \notin {"push", "pushBack"}
    PROVE  CursorFilled' /\ Searched' /\ tableQueues' = tableQueues /\ tableTurn' = tableTurn
<1>1. CursorFilled'
  BY DEF Serving, CursorFilled
<1>2. Searched'
  BY OthersKeptStep, SearchedStep DEF Serving
<1> QED
  BY <1>1, <1>2, SameShown

LEMMA CallPutTurns ==
    ASSUME IndInv, Serving, NEW t \in Threads, NEW k \in Keys, CallPut(t, k)
    PROVE  Implements
<1>1. /\ UNCHANGED <<list, node, T>> /\ pc[t] = "idle" /\ calls[t] \in 0 .. Calls /\ t \in Putters
      /\ pc'[t] \in {"put", "putBack"} /\ key'[t] = k /\ calls'[t] = calls[t] /\ arg'[t] = arg[t]
  BY DEF IndInv, TypeOK, CallPut, CanCall, Goto, dataVars
<1>2. Thread(t)
  BY DEF Thread
<1>3. OthersKept(t)
  BY <1>2, OthersKeptStep
<1>4. CursorFilled' /\ Searched' /\ tableQueues' = tableQueues /\ tableTurn' = tableTurn
  BY <1>1, <1>2, QuietKeeps
<1>5. PICK d, x, o, p : /\ d = pc'[t] /\ x = <<t, calls[t]>>
                        /\ o = OpFor(t, pc[t], key[t], calls[t], arg[t])
                        /\ p = OpFor(t, pc'[t], key'[t], calls'[t], arg'[t])
  OBVIOUS
<1>6. o = [do |-> "none"] /\ p = [do |-> d, key |-> k, item |-> x]
  <2>1. o = [do |-> "none"]
    BY <1>1, <1>5, OpIs
  <2>2. CASE pc'[t] = "put"
    BY <1>1, <1>5, <2>1, <2>2, OpIs
  <2>3. CASE pc'[t] = "putBack"
    BY <1>1, <1>5, <2>1, <2>3, OpIs
  <2> QED
    BY <1>1, <2>2, <2>3
<1>7. tableOp[t] = o /\ tableOp' = [tableOp EXCEPT ![t] = p]
  BY <1>1, <1>3, <1>5, OpStep
<1>8. x \in Items /\ d \in {"put", "putBack"}
  BY <1>1, <1>5 DEF Items
<1>9. Served_in_turn!CallPut(t)
  <2>1. t \in DOMAIN tableOp
    BY <1>1 DEF tableOp
  <2>2. tableOp'[t] = p
    BY <1>7, <2>1
  <2>3. /\ p \in [do : {"put", "putBack"}, key : Keys, item : Items]
        /\ tableOp[t] = [do |-> "none"]
    BY <1>6, <1>7, <1>8
  <2> QED
    BY <1>1, <1>4, <1>7, <2>2, <2>3, Zenon DEF Served_in_turn!CallPut, Served_in_turn!NoOp
<1>10. TurnsNext
  BY <1>1, <1>9 DEF TurnsNext, Served_in_turn!Next, Served_in_turn!Threads
<1> QED
  BY <1>4, <1>10 DEF Implements

LEMMA CallGetTurns ==
    ASSUME IndInv, Serving, NEW t \in Threads, CallGet(t)
    PROVE  Implements
<1>1. /\ UNCHANGED <<list, node, T>> /\ pc[t] = "idle" /\ t \in Getters /\ pc'[t] = "get"
  BY DEF IndInv, TypeOK, CallGet, CanCall, Goto, dataVars
<1>2. Thread(t)
  BY DEF Thread
<1>3. OthersKept(t)
  BY <1>2, OthersKeptStep
<1>4. CursorFilled' /\ Searched' /\ tableQueues' = tableQueues /\ tableTurn' = tableTurn
  BY <1>1, <1>2, QuietKeeps
<1>5. PICK o, p : /\ o = OpFor(t, pc[t], key[t], calls[t], arg[t])
                  /\ p = OpFor(t, pc'[t], key'[t], calls'[t], arg'[t])
  OBVIOUS
<1>6. o = [do |-> "none"] /\ p = [do |-> "get"]
  BY <1>1, <1>5, OpIs
<1>7. tableOp[t] = o /\ tableOp' = [tableOp EXCEPT ![t] = p]
  BY <1>1, <1>3, <1>5, OpStep
<1>8. Served_in_turn!CallGet(t)
  BY <1>1, <1>4, <1>6, <1>7 DEF Served_in_turn!CallGet, Served_in_turn!NoOp
<1>9. TurnsNext
  BY <1>1, <1>8 DEF TurnsNext, Served_in_turn!Next, Served_in_turn!Threads
<1> QED
  BY <1>4, <1>9 DEF Implements

(* A count begins, goes on or ends; the mutex is taken or given back. *)
LEMMA AsideTurns ==
    ASSUME IndInv, Serving, NEW t \in Threads,
           CallSize(t) \/ SizeAdd(t) \/ SizeNext(t) \/ Lock(t) \/ Unlock(t)
    PROVE  Implements
<1>1. /\ UNCHANGED <<list, node, T>> /\ pc'[t] \notin {"push", "pushBack"}
      /\ key'[t] = key[t] /\ calls'[t] = calls[t] /\ arg'[t] = arg[t]
      /\ \/ pc[t] \in {"idle", "size", "sizeNext"} /\ pc'[t] \in {"idle", "size", "sizeNext"}
         \/ pc[t] = "put" /\ pc'[t] = "find"
         \/ pc[t] = "putBack" /\ pc'[t] = "findBack"
         \/ pc[t] = "get" /\ pc'[t] = "take"
         \/ pc[t] = "unlock" /\ pc'[t] = "return"
  <2>1. pc \in [Threads -> Labels]
    BY DEF IndInv, TypeOK
  <2>2. CASE CallSize(t)
    BY <2>1, <2>2 DEF CallSize, CanCall, Goto, dataVars
  <2>3. CASE SizeAdd(t)
    BY <2>1, <2>3 DEF SizeAdd, Goto, dataVars
  <2>4. CASE SizeNext(t)
    BY <2>1, <2>4 DEF SizeNext, Goto, dataVars
  <2>5. CASE Lock(t)
    BY <2>1, <2>5 DEF Lock, Inside, Goto, dataVars
  <2>6. CASE Unlock(t)
    BY <2>1, <2>6 DEF Unlock, Goto, dataVars
  <2> QED
    BY <2>2, <2>3, <2>4, <2>5, <2>6
<1>2. Thread(t)
  BY DEF Thread
<1>3. CursorFilled' /\ Searched' /\ tableQueues' = tableQueues /\ tableTurn' = tableTurn
  BY <1>1, <1>2, QuietKeeps
<1>4. PICK o, p : /\ o = OpFor(t, pc[t], key[t], calls[t], arg[t])
                  /\ p = OpFor(t, pc'[t], key'[t], calls'[t], arg'[t])
  OBVIOUS
<1>5. p = o
  BY <1>1, <1>4, OpIs
<1>6. tableOp' = tableOp
  BY <1>2, <1>4, <1>5, OthersKeptStep, OpStep
<1> QED
  BY <1>3, <1>6, TurnsStutter DEF Implements

LEMMA ReturnTurns ==
    ASSUME IndInv, Serving, NEW t \in Threads, Return(t)
    PROVE  Implements
<1>1. UNCHANGED <<list, node, T>> /\ pc'[t] = "idle" /\ pc[t] \in {"size", "return"}
  BY DEF IndInv, TypeOK, Return, Returning, Goto, dataVars
<1>2. Thread(t)
  BY DEF Thread
<1>3. OthersKept(t)
  BY <1>2, OthersKeptStep
<1>4. CursorFilled' /\ Searched' /\ tableQueues' = tableQueues /\ tableTurn' = tableTurn
  BY <1>1, <1>2, QuietKeeps
<1>5. PICK o, p : /\ o = OpFor(t, pc[t], key[t], calls[t], arg[t])
                  /\ p = OpFor(t, pc'[t], key'[t], calls'[t], arg'[t])
  OBVIOUS
<1>6. CASE pc[t] = "size"
  <2>1. p = o
    BY <1>1, <1>5, <1>6, OpIs
  <2>2. tableOp' = tableOp
    BY <1>3, <1>5, <2>1, OpStep
  <2> QED
    BY <1>4, <2>2, TurnsStutter DEF Implements
<1>7. CASE pc[t] = "return"
  <2>1. o = [do |-> "return", item |-> arg[t]] /\ p = [do |-> "none"]
    BY <1>1, <1>5, <1>7, OpIs
  <2>2. t \in Putters \cup Getters
    BY <1>7 DEF Serving, Callers
  <2>3. tableOp[t] = o /\ tableOp' = [tableOp EXCEPT ![t] = p]
    BY <1>3, <1>5, <2>2, OpStep
  <2>4. Served_in_turn!Return(t)
    BY <1>4, <2>1, <2>3 DEF Served_in_turn!Return, Served_in_turn!NoOp
  <2>5. TurnsNext
    BY <2>2, <2>4 DEF TurnsNext, Served_in_turn!Next, Served_in_turn!Threads
  <2> QED
    BY <1>4, <2>5 DEF Implements
<1> QED
  BY <1>1, <1>6, <1>7

LEMMA PutFoundTurns ==
    ASSUME IndInv, Serving, NEW t \in Threads, PutFound(t)
    PROVE  Implements
<1>1. /\ UNCHANGED <<list, node, T>> /\ Find(key[t]) # NULL /\ pc[t] \in {"find", "findBack"}
      /\ pc'[t] = (IF pc[t] = "find" THEN "push" ELSE "pushBack") /\ L'[t] = Find(key[t])
      /\ key'[t] = key[t] /\ calls'[t] = calls[t] /\ arg'[t] = arg[t]
  BY DEF IndInv, TypeOK, PutFound, Pushing, Goto, At, dataVars
<1>2. OthersKept(t)
  BY OthersKeptStep DEF Thread
<1>3. Found(list', T', L'[t], key'[t])
  <2>1. Found(list, T, Find(key[t]), key[t])
    BY <1>1, NoneEmpty, FindFound
  <2> QED
    BY <1>1, <2>1
<1>4. Searched' /\ CursorFilled'
  BY <1>1, <1>2, <1>3, SearchedStep DEF Serving, CursorFilled
<1>5. PICK o, p : /\ o = OpFor(t, pc[t], key[t], calls[t], arg[t])
                  /\ p = OpFor(t, pc'[t], key'[t], calls'[t], arg'[t])
  OBVIOUS
<1>6. p = o
  BY <1>1, <1>5, OpIs
<1>7. tableOp' = tableOp
  BY <1>2, <1>5, <1>6, OpStep
<1> QED
  BY <1>1, <1>4, <1>7, SameShown, TurnsStutter DEF Implements

------------------------------------------------------------------------------
(* A get that comes past the end passes the turn to the first list. *)

LEMMA QueuesShape ==
    ASSUME NEW f, NEW g, NEW m \in Nat, NEW r, NEW q, q = QueuesOn(f, g, m, r)
    PROVE  DOMAIN q = 1 .. m /\ Len(q) = m /\ (q = <<>> <=> m = 0)
<1> DEFINE Q(j) == [key |-> f[r[j]].key, items |-> ItemsIn(g, f[r[j]])]
<1>1. q = [j \in 1 .. m |-> Q(j)]
  BY DEF QueuesOn
<1> DEFINE U == {q[j] : j \in 1 .. m}
<1> HIDE DEF Q
<1>2. q \in [1 .. m -> U]
  BY <1>1
<1>3. Len(q) = m /\ DOMAIN q = 1 .. m /\ q \in Seq(U)
  <2> HIDE DEF U
  <2> QED
    BY <1>2, OnNumbers
<1>4. q = <<>> <=> m = 0
  <2> HIDE DEF U
  <2> QED
    BY <1>3
<1> QED
  BY <1>3, <1>4

(* The cursor is not part of which lists have items. *)
LEMMA FilledSame ==
    ASSUME NEW f, NEW h, NEW c, c.mostL = h.mostL
    PROVE  FilledIn(f, c) = FilledIn(f, h)
BY DEF FilledIn

LEMMA GetTurnTurns ==
    ASSUME IndInv, Serving, NEW t \in Threads, GetTurn(t)
    PROVE  Implements
<1>1. /\ pc[t] = "take" /\ T.cur = NULL /\ list' = list /\ node' = node
      /\ T' = [T EXCEPT !.cur = T.mostL]
      /\ pc'[t] = "unlock" /\ arg'[t] = arg[t] /\ arg[t] = NoItem /\ t \in Getters
  BY DEF IndInv, TypeOK, Placed, GetTurn, Restart, Goto, Serving, Callers
<1>2. T'.cur = T.mostL /\ T'.mostL = T.mostL
  BY <1>1 DEF IndInv, TypeOK
<1>3. OthersKept(t)
  BY OthersKeptStep DEF Thread
<1>4. \A l \in DOMAIN list : list[l].mostL # NULL
  BY <1>1, NoneEmpty
<1>5. CursorFilled'
  BY <1>1, <1>2, <1>4, ListLinks DEF CursorFilled
<1>6. Searched'
  BY <1>1, <1>3, SearchedStep DEF Serving, Holding
<1>7. PICK n, s : AllOnChain(list, T, n, s)
  BY OnChainAll DEF IndInv, Chained
<1>8. /\ n \in Nat /\ s \in [1 .. n -> DOMAIN list] /\ \A i, j \in 1 .. n : s[i] = s[j] => i = j
      /\ T.mostL = (IF n = 0 THEN NULL ELSE s[1]) /\ NULL \notin DOMAIN list
  BY <1>7, ListLinks DEF AllOnChain, Chain
<1>9. FilledIn(list, T) = s
  BY <1>4, <1>7, <1>8, AllFilled DEF AllOnChain
<1>10. PICK h : h = T'
  OBVIOUS
<1>11. FilledIn(list, h) = s
  BY <1>2, <1>9, <1>10, FilledSame
<1>12. PICK Q : Q = QueuesOn(list, node, n, s)
  OBVIOUS
<1>13. tableQueues = Q /\ tableTurn = 0
  <2>1. QueuesOf(list, node, T) = Q /\ TurnOf(list, T) = TurnOn(n, s, NULL)
    BY <1>1, <1>8, <1>9, <1>12, OfOn
  <2> QED
    BY <2>1, Shown DEF TurnOn
<1>14. tableQueues' = Q /\ tableTurn' = TurnOn(n, s, T.mostL)
  <2>1. QueuesOf(list, node, h) = Q /\ TurnOf(list, h) = TurnOn(n, s, h.cur)
    BY <1>8, <1>11, <1>12, OfOn
  <2> QED
    BY <1>1, <1>2, <1>10, <2>1, ShownNext
<1>15. tableTurn' = IF Q = <<>> THEN 0 ELSE 1
  <2>1. Q = <<>> <=> n = 0
    BY <1>8, <1>12, QueuesShape
  <2>2. CASE n = 0
    BY <1>8, <1>14, <2>1, <2>2 DEF TurnOn
  <2>3. CASE n # 0
    <3>1. 1 \in 1 .. n /\ T.mostL = s[1] /\ s[1] # NULL
      BY <1>8, <2>3
    <3>2. TurnOn(n, s, s[1]) = 1
      <4>1. \A i \in 1 .. n : s[i] = s[1] => i = 1
        BY <1>8, <3>1
      <4> QED
        BY <3>1, <4>1, TurnAt
    <3> QED
      BY <1>14, <2>1, <2>3, <3>1, <3>2
  <2> QED
    BY <2>2, <2>3
<1>16. PICK o, p : /\ o = OpFor(t, pc[t], key[t], calls[t], arg[t])
                   /\ p = OpFor(t, pc'[t], key'[t], calls'[t], arg'[t])
  OBVIOUS
<1>17. o = [do |-> "get"] /\ p = [do |-> "return", item |-> NoItem]
  BY <1>1, <1>16, OpIs
<1>18. tableOp[t] = o /\ tableOp' = [tableOp EXCEPT ![t] = p]
  BY <1>1, <1>3, <1>16, OpStep
<1>19. Served_in_turn!DoTurn(t)
  BY <1>13, <1>14, <1>15, <1>17, <1>18 DEF Served_in_turn!DoTurn, Served_in_turn!Result
<1>20. TurnsNext
  BY <1>1, <1>19 DEF TurnsNext, Served_in_turn!Next, Served_in_turn!Threads
<1> QED
  BY <1>5, <1>6, <1>20 DEF Implements

------------------------------------------------------------------------------
(* A put whose key has no list makes one; the queues and the turn stay. *)

LEMMA ItemsSame ==
    ASSUME NEW g, NEW e, NEW d, e.mostL = d.mostL
    PROVE  ItemsIn(g, e) = ItemsIn(g, d)
BY DEF ItemsIn

LEMMA QueuesSame ==
    ASSUME NEW f, NEW g, NEW F, NEW G, NEW m \in Nat, NEW r,
           \A j \in 1 .. m : F[r[j]].key = f[r[j]].key /\ ItemsIn(G, F[r[j]]) = ItemsIn(g, f[r[j]])
    PROVE  QueuesOn(F, G, m, r) = QueuesOn(f, g, m, r)
<1>1. \A j \in 1 .. m : [key |-> F[r[j]].key, items |-> ItemsIn(G, F[r[j]])]
                          = [key |-> f[r[j]].key, items |-> ItemsIn(g, f[r[j]])]
  OBVIOUS
<1> QED
  BY <1>1, Zenon DEF QueuesOn

(* The chain of the lists with a new one. *)
LEMMA MadeLast ==
    ASSUME IndInv, NEW t \in Threads, NEW x, NEW r, ListMade(t, x, r), NEW n, NEW s, AllOnChain(list, T, n, s)
    PROVE  /\ AllOnChain(list', T', n + 1, PutR(n, s, x))
           /\ n \in Nat /\ \A i \in 1 .. n : s[i] \in DOMAIN list /\ s[i] # x
<1>1. /\ Chain(list, T, n, s) /\ n \in Nat /\ s \in [1 .. n -> DOMAIN list]
      /\ NULL \notin DOMAIN list
      /\ \A y \in DOMAIN list : \E i \in 1 .. n : s[i] = y
  BY ListLinks DEF AllOnChain, Chain
<1>2. PICK g, e, q : g = list' /\ e = T' /\ q = PutR(n, s, x)
  OBVIOUS
<1>3. /\ x \notin DOMAIN list /\ x # NULL /\ DOMAIN g = DOMAIN list \cup {x}
      /\ g[x].L = T.mostR /\ g[x].R = NULL
      /\ \A y \in DOMAIN list : g[y].L = list[y].L /\ g[y].R = IF y = T.mostR THEN x ELSE list[y].R
      /\ e.size = T.size + 1 /\ e.mostR = x /\ e.mostL = IF T.mostR = NULL THEN x ELSE T.mostL
  BY <1>1, <1>2 DEF ListMade
<1>4. Chain(g, e, n + 1, q)
  <2>1. Chain(list, T, n, s) /\ NULL \notin DOMAIN list /\ q = PutR(n, s, x)
    BY <1>1, <1>2
  <2> QED
    BY <1>3, <2>1, PushRChain
<1>5. \A y \in DOMAIN g : \E i \in 1 .. n + 1 : q[i] = y
  <2> SUFFICES ASSUME NEW y \in DOMAIN g PROVE \E i \in 1 .. n + 1 : q[i] = y
    OBVIOUS
  <2>1. CASE y = x
    <3>1. n + 1 \in 1 .. n + 1 /\ q[n + 1] = x
      BY <1>1, <1>2 DEF PutR
    <3> QED
      BY <2>1, <3>1
  <2>2. CASE y \in DOMAIN list
    <3>1. PICK i \in 1 .. n : s[i] = y
      BY <1>1, <2>2
    <3>2. i \in 1 .. n + 1 /\ i # n + 1
      BY <1>1
    <3> QED
      BY <1>2, <3>1, <3>2 DEF PutR
  <2> QED
    BY <1>3, <2>1, <2>2
<1> QED
  BY <1>1, <1>2, <1>3, <1>4, <1>5 DEF AllOnChain

LEMMA PutNewListTurns ==
    ASSUME IndInv, Serving, NEW t \in Threads, PutNewList(t)
    PROVE  Implements
<1>1. PICK x, r : ListMade(t, x, r)
  BY NewList
<1>2. PICK k : k = key[t]
  OBVIOUS
<1>3. /\ x \notin DOMAIN list /\ x # NULL /\ pc[t] \in {"find", "findBack"} /\ node' = node
      /\ L'[t] = x /\ pc'[t] = (IF pc[t] = "find" THEN "push" ELSE "pushBack")
      /\ key'[t] = k /\ arg'[t] = arg[t] /\ calls'[t] = calls[t] /\ Find(k) = NULL
      /\ DOMAIN list' = DOMAIN list \cup {x} /\ list'[x].key = Clip[k] /\ list'[x].mostL = NULL
      /\ \A y \in DOMAIN list : list'[y].key = list[y].key /\ list'[y].mostL = list[y].mostL
      /\ T'.cur = T.cur
  BY <1>1, <1>2 DEF ListMade, PutNewList, IndInv, TypeOK
<1>4. OthersKept(t)
  BY OthersKeptStep DEF Thread
<1>5. \A l \in DOMAIN list : list[l].mostL # NULL
  BY <1>3, NoneEmpty
<1>6. CursorFilled'
  BY <1>3, <1>5 DEF CursorFilled, IndInv, NoDanglingList
<1>7. PICK n, s : AllOnChain(list, T, n, s)
  BY OnChainAll DEF IndInv, Chained
<1>8. /\ n \in Nat /\ s \in [1 .. n -> DOMAIN list] /\ NULL \notin DOMAIN list /\ ListChain(n, s)
      /\ Chain(list, T, n, s) /\ \A y \in DOMAIN list : \E i \in 1 .. n : s[i] = y
  BY <1>7, ListLinks, OnChainAll DEF AllOnChain, Chain
<1>9. PICK f, h, q : f = list' /\ h = T' /\ q = PutR(n, s, x)
  OBVIOUS
<1>10. AllOnChain(f, h, n + 1, q) /\ \A i \in 1 .. n : s[i] \in DOMAIN list /\ s[i] # x
  BY <1>1, <1>7, <1>9, MadeLast
<1>11. q[n + 1] = x /\ n + 1 \in 1 .. n + 1 /\ \A i \in 1 .. n : q[i] = s[i]
  <2>1. \A i \in 1 .. n : i \in 1 .. n + 1 /\ i # n + 1
    BY <1>8
  <2> QED
    BY <1>8, <1>9, <2>1 DEF PutR
<1>12. Found(f, h, x, k)
  <2>1. \A j \in 1 .. n : f[q[j]].key # k
    BY <1>3, <1>8, <1>9, <1>10, <1>11, FindFacts
  <2>2. n + 1 - 1 = n
    BY <1>8
  <2>3. PICK m : m = n + 1
    OBVIOUS
  <2>4. m - 1 = n
    BY <1>8, <2>3
  <2>5. \A j \in 1 .. m - 1 : f[q[j]].key # k
    BY <2>1, <2>4, Zenon
  <2>6. FoundAt(f, h, m, q, m, x, k)
    BY <1>3, <1>9, <1>10, <1>11, <2>3, <2>5 DEF FoundAt
  <2> QED
    BY <2>6 DEF Found
<1>13. Searched'
  BY <1>3, <1>4, <1>9, <1>12, SearchedStep DEF Serving, Holding
<1>14. FilledIn(list, T) = s
  BY <1>5, <1>8, AllFilled
<1>15. FilledIn(f, h) = s
  <2>1. \A y \in DOMAIN f : f[y].mostL = NULL <=> y = q[n + 1]
    BY <1>3, <1>5, <1>9, <1>11
  <2>2. NULL \notin DOMAIN f /\ Chain(f, h, n + 1, q) /\ \A y \in DOMAIN f : \E i \in 1 .. n + 1 : q[i] = y
    BY <1>3, <1>8, <1>9, <1>10 DEF AllOnChain
  <2>3. FilledIn(f, h) = Drop(n + 1, q, n + 1)
    BY <1>11, <2>1, <2>2, OneEmpty
  <2>4. Drop(n + 1, q, n + 1) = [i \in 1 .. n |-> s[i]]
    <3>1. PICK m : m = n + 1
      OBVIOUS
    <3>2. m - 1 = n /\ \A i \in 1 .. n : i < m
      BY <1>8, <3>1
    <3>3. Drop(m, q, m) = [i \in 1 .. n |-> IF i < m THEN q[i] ELSE q[i + 1]]
      BY <3>2 DEF Drop
    <3> QED
      BY <1>11, <3>1, <3>2, <3>3
  <2> QED
    BY <1>8, <2>3, <2>4
<1>16. QueuesOf(list, node, T) = QueuesOn(list, node, n, s) /\ TurnOf(list, T) = TurnOn(n, s, T.cur)
  BY <1>8, <1>14, OfOn
<1>17. QueuesOf(f, node, h) = QueuesOn(f, node, n, s) /\ TurnOf(f, h) = TurnOn(n, s, h.cur)
  <2>1. s \in [1 .. n -> DOMAIN f]
    BY <1>3, <1>8, <1>9
  <2> QED
    BY <1>8, <1>15, <2>1, OfOn
<1>18. QueuesOn(f, node, n, s) = QueuesOn(list, node, n, s)
  <2>1. \A j \in 1 .. n : f[s[j]].key = list[s[j]].key /\ f[s[j]].mostL = list[s[j]].mostL
    BY <1>3, <1>9, <1>10
  <2>2. \A j \in 1 .. n : ItemsIn(node, f[s[j]]) = ItemsIn(node, list[s[j]])
    BY <2>1, ItemsSame
  <2> QED
    BY <1>8, <2>1, <2>2, QueuesSame
<1>19. tableQueues' = tableQueues /\ tableTurn' = tableTurn
  BY <1>3, <1>9, <1>16, <1>17, <1>18, Shown, ShownNext
<1>20. PICK o, p : /\ o = OpFor(t, pc[t], key[t], calls[t], arg[t])
                   /\ p = OpFor(t, pc'[t], key'[t], calls'[t], arg'[t])
  OBVIOUS
<1>21. p = o
  BY <1>2, <1>3, <1>20, OpIs
<1>22. tableOp' = tableOp
  BY <1>4, <1>20, <1>21, OpStep
<1> QED
  BY <1>6, <1>13, <1>19, <1>22, TurnsStutter DEF Implements

------------------------------------------------------------------------------
(* A list that was emptied goes; the queues and the turn stay. *)

LEMMA DropShown ==
    ASSUME IndInv, NEW l \in DOMAIN list, ListGone(l), node' = node,
           \A y \in DOMAIN list : list[y].mostL = NULL <=> y = l
    PROVE  tableQueues' = tableQueues /\ tableTurn' = tableTurn
<1>1. PICK n, s : ListChain(n, s)
  BY DEF IndInv, Chained
<1>2. /\ n \in Nat /\ s \in [1 .. n -> DOMAIN list] /\ NULL \notin DOMAIN list
      /\ Chain(list, T, n, s) /\ \A y \in DOMAIN list : \E i \in 1 .. n : s[i] = y
      /\ \A i, j \in 1 .. n : s[i] = s[j] => i = j
  BY <1>1, ListLinks DEF ListChain, Chain
<1>3. PICK p \in 1 .. n : s[p] = l
  BY <1>2
<1>4. PICK f, h, q, m : f = list' /\ h = T' /\ q = Drop(n, s, p) /\ m = n - 1
  OBVIOUS
<1>5. Chain(f, h, m, q) /\ \A y \in DOMAIN f : \E i \in 1 .. m : q[i] = y
  <2>1. ListChain(n - 1, Drop(n, s, p))'
    BY <1>1, <1>3, GoneChain
  <2> QED
    BY <1>4, <2>1 DEF ListChain
<1>6. /\ DOMAIN f = DOMAIN list \ {l} /\ h.cur = T.cur
      /\ \A y \in DOMAIN f : f[y].key = list[y].key /\ f[y].mostL = list[y].mostL
  BY <1>4 DEF ListGone
<1>7. FilledIn(list, T) = q
  BY <1>2, <1>3, <1>4, OneEmpty
<1>8. FilledIn(f, h) = q
  <2>1. NULL \notin DOMAIN f /\ \A y \in DOMAIN f : f[y].mostL # NULL
    BY <1>2, <1>6
  <2> QED
    BY <1>5, <2>1, AllFilled
<1>9. m \in Nat /\ q \in [1 .. m -> DOMAIN f]
  BY <1>5 DEF Chain
<1>10. QueuesOf(list, node, T) = QueuesOn(list, node, m, q) /\ TurnOf(list, T) = TurnOn(m, q, T.cur)
  <2>1. q \in [1 .. m -> DOMAIN list]
    BY <1>6, <1>9
  <2> QED
    BY <1>7, <1>9, <2>1, OfOn
<1>11. QueuesOf(f, node, h) = QueuesOn(f, node, m, q) /\ TurnOf(f, h) = TurnOn(m, q, h.cur)
  BY <1>8, <1>9, OfOn
<1>12. QueuesOn(f, node, m, q) = QueuesOn(list, node, m, q)
  <2>1. \A j \in 1 .. m : f[q[j]].key = list[q[j]].key /\ f[q[j]].mostL = list[q[j]].mostL
    BY <1>6, <1>9
  <2>2. \A j \in 1 .. m : ItemsIn(node, f[q[j]]) = ItemsIn(node, list[q[j]])
    BY <2>1, ItemsSame
  <2> QED
    BY <1>9, <2>1, <2>2, QueuesSame
<1> QED
  BY <1>4, <1>6, <1>10, <1>11, <1>12, Shown, ShownNext

LEMMA GetDropTurns ==
    ASSUME IndInv, Serving, NEW t \in Threads, GetDrop(t)
    PROVE  Implements
<1>1. PICK l : l = L[t]
  OBVIOUS
<1>2. /\ pc[t] = "drop" /\ pc'[t] = "unlock" /\ arg' = arg /\ node' = node
  BY DEF GetDrop, Goto, IndInv, TypeOK
<1>3. l \in DOMAIN list
  BY <1>1, <1>2 DEF IndInv, Placed, NoDanglingList
<1>4. OthersKept(t)
  BY OthersKeptStep DEF Thread
<1>5. PICK o, p : /\ o = OpFor(t, pc[t], key[t], calls[t], arg[t])
                  /\ p = OpFor(t, pc'[t], key'[t], calls'[t], arg'[t])
  OBVIOUS
<1>6. p = o
  BY <1>2, <1>5, OpIs
<1>7. tableOp' = tableOp
  BY <1>4, <1>5, <1>6, OpStep
<1>8. Searched'
  BY <1>2, <1>4, SearchedStep DEF Serving, Holding
<1>9. CASE Emptied(l)
  <2>1. T' = Popped(T, list, l) /\ list' = Without(list, l)
    BY <1>1, <1>9, Zenon DEF GetDrop
  <2>2. ListGone(l)
    BY <1>3, <2>1, GoneList
  <2>3. \A y \in DOMAIN list : list[y].mostL = NULL <=> y = l
    BY <1>1, <1>2, <1>9, OnlyEmpty DEF Emptied
  <2>4. tableQueues' = tableQueues /\ tableTurn' = tableTurn
    BY <1>2, <1>3, <2>2, <2>3, DropShown
  <2>5. CursorFilled'
    <3>1. /\ T'.cur = T.cur
          /\ \A y \in DOMAIN list \ {l} : list'[y].mostL = list[y].mostL
      BY <2>2 DEF ListGone
    <3>2. T.cur # NULL => T.cur \in DOMAIN list /\ list[T.cur].mostL # NULL
      BY DEF Serving, CursorFilled, IndInv, NoDanglingList
    <3> QED
      BY <2>3, <3>1, <3>2 DEF CursorFilled
  <2> QED
    BY <1>7, <1>8, <2>4, <2>5, TurnsStutter DEF Implements
<1>10. CASE ~ Emptied(l)
  <2>1. UNCHANGED <<list, node, T>>
    BY <1>1, <1>10 DEF GetDrop
  <2>2. CursorFilled'
    BY <2>1 DEF Serving, CursorFilled
  <2> QED
    BY <1>7, <1>8, <2>1, <2>2, SameShown, TurnsStutter DEF Implements
<1> QED
  BY <1>9, <1>10

------------------------------------------------------------------------------
(* What a step on one list does to the items of the lists. *)

(* A list whose nodes a step leaves alone keeps its items. *)
LEMMA ItemsStay ==
    ASSUME NEW a, NULL \notin DOMAIN a, NEW D, NEW hd, NEW ch, OnChains(a, D, hd, ch),
           NEW g, NULL \notin DOMAIN g, NEW D2, NEW hd2, NEW ch2, OnChains(g, D2, hd2, ch2),
           NEW y \in D,
           \A i \in 1 .. hd[y].size : /\ ch[y][i] \in DOMAIN g
                                      /\ g[ch[y][i]].L = a[ch[y][i]].L
                                      /\ g[ch[y][i]].R = a[ch[y][i]].R
                                      /\ g[ch[y][i]].arg = a[ch[y][i]].arg
    PROVE  ItemsIn(g, hd[y]) = ItemsIn(a, hd[y])
<1>1. PICK e, n, s : e = hd[y] /\ n = e.size /\ s = ch[y]
  OBVIOUS
<1>2. Chain(a, e, n, s)
  BY <1>1 DEF OnChains
<1>3. \A i \in 1 .. n : s[i] \in DOMAIN g /\ g[s[i]].L = a[s[i]].L /\ g[s[i]].R = a[s[i]].R
  BY <1>1
<1>4. Chain(g, e, n, s)
  BY <1>2, <1>3, KeepChain
<1>5. ItemsIn(a, e) = ItemsOn(a, n, s)
  BY <1>2, ItemsAre
<1>6. ItemsIn(g, e) = ItemsOn(g, n, s)
  BY <1>4, ItemsAre
<1>7. \A i \in 1 .. n : g[s[i]].arg = a[s[i]].arg
  BY <1>1
<1>8. ItemsOn(g, n, s) = ItemsOn(a, n, s)
  BY <1>7, Zenon DEF ItemsOn
<1> QED
  BY <1>1, <1>5, <1>6, <1>8

(* Append, as a function on numbers. *)
LEMMA Appended ==
    ASSUME NEW n \in Nat, NEW m, m = n + 1, NEW U, NEW c \in [1 .. n -> U], NEW v \in U,
           NEW b \in [1 .. m -> U], \A j \in 1 .. n : b[j] = c[j], b[m] = v
    PROVE  b = Append(c, v)
<1>1. c \in Seq(U) /\ Len(c) = n
  BY OnNumbers
<1>2. /\ Append(c, v) \in Seq(U) /\ Len(Append(c, v)) = n + 1
      /\ \A j \in 1 .. n : Append(c, v)[j] = c[j]
      /\ Append(c, v)[n + 1] = v
  BY <1>1, AppendProperties
<1>3. PICK d : d = Append(c, v)
  OBVIOUS
<1>4. DOMAIN d = 1 .. m /\ d = [j \in 1 .. m |-> d[j]]
  BY <1>2, <1>3, LenProperties
<1>5. \A j \in 1 .. m : d[j] = b[j]
  BY <1>2, <1>3
<1> QED
  BY <1>3, <1>4, <1>5

(* The items when x, with item v, joins at the right, at the left. *)
LEMMA ItemsPutR ==
    ASSUME NEW n \in Nat, NEW a, NEW g, NEW s, NEW x, NEW v, g[x].arg = v,
           \A i \in 1 .. n : g[s[i]].arg = a[s[i]].arg,
           NEW q, q = PutR(n, s, x), NEW c, c = ItemsOn(a, n, s), NEW d, d = ItemsOn(g, n + 1, q)
    PROVE  d = Append(c, v)
<1>1. c = ItemsOn(a, n, s) /\ d = ItemsOn(g, n + 1, PutR(n, s, x))
  OBVIOUS
<1>2. c = [j \in 1 .. n |-> a[s[j]].arg]
  BY <1>1 DEF ItemsOn
<1>3. d = [j \in 1 .. n + 1 |-> IF j = n + 1 THEN v ELSE c[j]]
  <2>1. d = [j \in 1 .. n + 1 |-> g[PutR(n, s, x)[j]].arg]
    BY <1>1 DEF ItemsOn
  <2>2. \A j \in 1 .. n + 1 : g[PutR(n, s, x)[j]].arg = IF j = n + 1 THEN v ELSE c[j]
    <3> SUFFICES ASSUME NEW j \in 1 .. n + 1
                 PROVE  g[PutR(n, s, x)[j]].arg = IF j = n + 1 THEN v ELSE c[j]
      OBVIOUS
    <3>1. PutR(n, s, x)[j] = IF j = n + 1 THEN x ELSE s[j]
      BY DEF PutR
    <3>2. CASE j = n + 1
      BY <3>1, <3>2
    <3>3. CASE j # n + 1
      <4>1. j \in 1 .. n
        BY <3>3
      <4> QED
        BY <1>2, <3>1, <3>3, <4>1
    <3> QED
      BY <3>2, <3>3
  <2> QED
    BY <2>1, <2>2, Zenon
<1> DEFINE U == {d[j] : j \in 1 .. n + 1} \cup {v}
<1>4. PICK m : m = n + 1
  OBVIOUS
<1>5. m \in 1 .. m /\ \A j \in 1 .. n : j \in 1 .. m /\ j # m
  BY <1>4
<1>6. d[m] = v /\ \A j \in 1 .. n : d[j] = c[j]
  BY <1>3, <1>4, <1>5
<1>7. v \in U /\ \A j \in 1 .. m : d[j] \in U
  BY <1>4
<1> HIDE DEF U
<1>8. d \in [1 .. m -> U]
  BY <1>3, <1>4, <1>7
<1>9. c \in [1 .. n -> U]
  BY <1>2, <1>5, <1>6, <1>7
<1> QED
  BY <1>4, <1>6, <1>7, <1>8, <1>9, Appended

(* v, then what c holds. *)
Led(v, c) == <<v>> \o c

LEMMA ItemsPutL ==
    ASSUME NEW n \in Nat, NEW m, m = n + 1, NEW a, NEW g, NEW s, NEW x, NEW v, g[x].arg = v,
           \A i \in 1 .. n : g[s[i]].arg = a[s[i]].arg
    PROVE  ItemsOn(g, m, PutL(n, s, x)) = Led(v, ItemsOn(a, n, s))
<1>1. PICK c, d : c = ItemsOn(a, n, s) /\ d = ItemsOn(g, n + 1, PutL(n, s, x))
  OBVIOUS
<1>2. c = [j \in 1 .. n |-> a[s[j]].arg]
  BY <1>1 DEF ItemsOn
<1>3. d = [j \in 1 .. n + 1 |-> IF j = 1 THEN v ELSE c[j - 1]]
  <2>1. d = [j \in 1 .. n + 1 |-> g[PutL(n, s, x)[j]].arg]
    BY <1>1 DEF ItemsOn
  <2>2. \A j \in 1 .. n + 1 : g[PutL(n, s, x)[j]].arg = IF j = 1 THEN v ELSE c[j - 1]
    <3> SUFFICES ASSUME NEW j \in 1 .. n + 1
                 PROVE  g[PutL(n, s, x)[j]].arg = IF j = 1 THEN v ELSE c[j - 1]
      OBVIOUS
    <3>1. PutL(n, s, x)[j] = IF j = 1 THEN x ELSE s[j - 1]
      BY DEF PutL
    <3>2. CASE j = 1
      BY <3>1, <3>2
    <3>3. CASE j # 1
      <4>1. PICK b : b = j - 1
        OBVIOUS
      <4>2. b \in 1 .. n
        BY <3>3, <4>1
      <4> QED
        BY <1>2, <3>1, <3>3, <4>1, <4>2
    <3> QED
      BY <3>2, <3>3
  <2> QED
    BY <2>1, <2>2, Zenon
<1> DEFINE U == {c[j] : j \in 1 .. n} \cup {v}
<1>4. c \in [1 .. n -> U] /\ v \in U
  BY <1>2
<1> HIDE DEF U
<1>5. c \in Seq(U) /\ Len(c) = n
  BY <1>4, OnNumbers
<1>6. <<v>> \o c = [j \in 1 .. 1 + n |-> IF j = 1 THEN v ELSE c[j - 1]]
  BY <1>4, <1>5, Prefixed
<1>7. 1 + n = n + 1
  OBVIOUS
<1> QED
  BY <1>1, <1>3, <1>6, <1>7 DEF Led

------------------------------------------------------------------------------
(* The node of a put: the queue of its key takes the item. *)

PutMade(t, l, v, n, s) ==
    /\ l \in DOMAIN list
    /\ list[l].mostL = NULL => ItemsIn(node, list[l]) = <<>>
    /\ DOMAIN list' = DOMAIN list /\ T' = T
    /\ \A y \in DOMAIN list : list'[y].mostL # NULL /\ list'[y].key = list[y].key
    /\ \A y \in DOMAIN list \ {l} : ItemsIn(node', list'[y]) = ItemsIn(node, list[y])
    /\ ItemsIn(node', list'[l]) = IF pc[t] = "push" THEN Append(ItemsIn(node, list[l]), v)
                                                    ELSE <<v>> \o ItemsIn(node, list[l])
    /\ tableQueues' = QueuesOn(list', node', n, s)
    /\ tableTurn' = TurnOn(n, s, T.cur)

LEMMA PutFacts ==
    ASSUME IndInv, IndInv', NEW t \in Threads, PutNode(t), NEW l, l = L[t],
           NEW v, v = <<t, calls[t]>>, NEW n, NEW s, AllOnChain(list, T, n, s)
    PROVE  PutMade(t, l, v, n, s)
<1>1. PICK ch : NodeChains(ch)
  BY DEF IndInv, Chained
<1>2. PICK x, h : x = nNode + 1 /\ h = list[l]
  OBVIOUS
<1>3. PICK e, q : NodePut(t, l, x, h, ch[l], e, q)
  BY <1>1, <1>2, PutNodeLinks
<1>4. PICK f, g, c, m : f = list' /\ g = node' /\ c = ch[l] /\ m = h.size
  OBVIOUS
<1>5. /\ l \in DOMAIN list /\ x \notin DOMAIN node /\ f = [list EXCEPT ![l] = e]
      /\ e.key = h.key /\ e.L = h.L /\ e.R = h.R /\ e.mostL # NULL
      /\ DOMAIN g = DOMAIN node \cup {x} /\ g[x].arg = v
      /\ \A y \in DOMAIN node : g[y].arg = node[y].arg
      /\ Chain(g, e, m + 1, q) /\ q = IF pc[t] = "push" THEN PutR(m, c, x) ELSE PutL(m, c, x)
      /\ \A y \in DOMAIN node : (\A j \in 1 .. m : c[j] # y) => g[y].L = node[y].L /\ g[y].R = node[y].R
  BY <1>3, <1>4 DEF NodePut
<1>6. pc[t] \in {"push", "pushBack"} /\ T' = T
  BY DEF PutNode
<1>7. /\ NULL \notin DOMAIN list /\ NULL \notin DOMAIN node /\ NULL \notin DOMAIN g
  BY <1>4, ListLinks DEF IndInv, TypeOK, NULL
<1>8. /\ DOMAIN f = DOMAIN list /\ f[l] = e /\ \A y \in DOMAIN list \ {l} : f[y] = list[y]
  BY <1>5
<1>9. \A y \in DOMAIN list : f[y].mostL # NULL /\ f[y].key = list[y].key
  <2>1. \A y \in DOMAIN list \ {l} : list[y].mostL # NULL
    BY <1>6, OnlyEmpty
  <2> QED
    BY <1>2, <1>5, <1>8, <2>1
<1>10. OnChains(node, DOMAIN list, list, ch)
  BY <1>1 DEF NodeChains
<1>11. PICK D2, hd2, ch2 : OnChains(g, D2, hd2, ch2)
  <2>1. PICK z : NodeChains(z)'
    BY DEF IndInv, Chained
  <2>2. OnChains(node', DOMAIN list', list', z)
    BY <2>1 DEF NodeChains
  <2> QED
    BY <1>4, <2>2
<1>12. ASSUME NEW y \in DOMAIN list \ {l} PROVE ItemsIn(g, f[y]) = ItemsIn(node, list[y])
  <2>1. ASSUME NEW i \in 1 .. list[y].size
        PROVE  /\ ch[y][i] \in DOMAIN g /\ g[ch[y][i]].L = node[ch[y][i]].L
               /\ g[ch[y][i]].R = node[ch[y][i]].R /\ g[ch[y][i]].arg = node[ch[y][i]].arg
    <3>1. PICK w : w = ch[y][i]
      OBVIOUS
    <3>2. w \in DOMAIN node
      <4>1. PICK b, r : b = list[y].size /\ r = ch[y]
        OBVIOUS
      <4>2. Chain(node, list[y], b, r)
        BY <1>10, <4>1 DEF OnChains
      <4> QED
        BY <3>1, <4>1, <4>2 DEF Chain
    <3>3. \A j \in 1 .. m : c[j] # w
      BY <1>2, <1>4, <1>5, <1>10, <3>1 DEF OnChains
    <3> QED
      BY <1>5, <3>1, <3>2, <3>3
  <2>2. ItemsIn(g, list[y]) = ItemsIn(node, list[y])
    BY <1>7, <1>10, <1>11, <2>1, ItemsStay
  <2> QED
    BY <1>8, <2>2
<1>13. Chain(node, h, m, c) /\ m \in Nat /\ \A i \in 1 .. m : c[i] \in DOMAIN node
  <2>1. Chain(node, h, m, c)
    BY <1>2, <1>4, <1>5, <1>10 DEF OnChains
  <2> QED
    BY <2>1 DEF Chain
<1>14. ItemsIn(node, h) = ItemsOn(node, m, c)
  BY <1>7, <1>10, <1>13, ItemsAre
<1>15. ItemsIn(g, e) = ItemsOn(g, m + 1, q)
  BY <1>5, <1>7, <1>11, ItemsAre
<1>16. ItemsIn(g, f[l]) = IF pc[t] = "push" THEN Append(ItemsIn(node, h), v) ELSE <<v>> \o ItemsIn(node, h)
  <2>1. g[x].arg = v /\ \A i \in 1 .. m : g[c[i]].arg = node[c[i]].arg
    BY <1>5, <1>13
  <2>2. PICK a, b : a = ItemsIn(node, h) /\ b = ItemsIn(g, e)
    OBVIOUS
  <2>3. a = ItemsOn(node, m, c) /\ b = ItemsOn(g, m + 1, q) /\ m \in Nat
    BY <1>13, <1>14, <1>15, <2>2
  <2>4. CASE pc[t] = "push"
    <3>1. q = PutR(m, c, x)
      BY <1>5, <2>4
    <3>2. b = Append(a, v)
      BY <2>1, <2>3, <3>1, ItemsPutR
    <3> QED
      BY <1>8, <2>2, <2>4, <3>2
  <2>5. CASE pc[t] # "push"
    <3>1. q = PutL(m, c, x)
      BY <1>5, <2>5
    <3>2. b = Led(v, a)
      <4>1. PICK k : k = m + 1
        OBVIOUS
      <4>2. ItemsOn(g, k, PutL(m, c, x)) = Led(v, ItemsOn(node, m, c))
        BY <2>1, <2>3, <4>1, ItemsPutL
      <4> QED
        BY <2>3, <3>1, <4>1, <4>2
    <3>3. Led(v, a) = <<v>> \o a
      BY DEF Led
    <3> QED
      BY <1>8, <2>2, <2>5, <3>2, <3>3, Zenon
  <2> QED
    BY <2>4, <2>5
<1>17. list[l].mostL = NULL => ItemsIn(node, list[l]) = <<>>
  <2> SUFFICES ASSUME h.mostL = NULL PROVE ItemsOn(node, m, c) = <<>>
    BY <1>2, <1>14
  <2>1. m = 0
    <3>1. m # 0 => 1 \in 1 .. m /\ c[1] = NULL
      BY <1>13 DEF Chain
    <3> QED
      BY <1>7, <1>13, <3>1
  <2> QED
    BY <2>1 DEF ItemsOn
<1>18. /\ n \in Nat /\ s \in [1 .. n -> DOMAIN f] /\ Chain(list, T, n, s)
       /\ \A y \in DOMAIN f : \E i \in 1 .. n : s[i] = y
  BY <1>8 DEF AllOnChain, Chain
<1>19. Chain(f, T, n, s)
  <2>1. \A y \in DOMAIN list : f[y].L = list[y].L /\ f[y].R = list[y].R
    BY <1>2, <1>5, <1>8
  <2>2. \A i \in 1 .. n : s[i] \in DOMAIN f /\ f[s[i]].L = list[s[i]].L /\ f[s[i]].R = list[s[i]].R
    BY <1>8, <1>18, <2>1
  <2> QED
    BY <1>18, <2>2, KeepChain
<1>20. FilledIn(f, T) = s
  <2>1. NULL \notin DOMAIN f /\ \A y \in DOMAIN f : f[y].mostL # NULL
    BY <1>7, <1>8, <1>9
  <2> QED
    BY <1>18, <1>19, <2>1, AllFilled
<1>21. QueuesOf(f, g, T) = QueuesOn(f, g, n, s) /\ TurnOf(f, T) = TurnOn(n, s, T.cur)
  BY <1>18, <1>20, OfOn
<1>22. tableQueues' = QueuesOn(f, g, n, s) /\ tableTurn' = TurnOn(n, s, T.cur)
  BY <1>4, <1>6, <1>21, ShownNext
<1> QED
  BY <1>2, <1>4, <1>5, <1>6, <1>8, <1>9, <1>12, <1>16, <1>17, <1>22 DEF PutMade

(* The key has a queue: the first with that key takes the item. *)
LEMMA PutKnown ==
    ASSUME IndInv, NEW l, NEW k, NEW n, NEW s, NEW i, FoundAt(list, T, n, s, i, l, k),
           NEW t \in Threads, NEW v, PutMade(t, l, v, n, s),
           \A y \in DOMAIN list : list[y].mostL = NULL => y = l, list[l].mostL # NULL
    PROVE  /\ i \in DOMAIN tableQueues /\ tableQueues[i].key = k
           /\ \A h \in 1 .. i - 1 : tableQueues[h].key # k
           /\ tableQueues' = [tableQueues EXCEPT ![i].items =
                                IF pc[t] = "push" THEN Append(@, v) ELSE <<v>> \o @]
           /\ tableTurn' = tableTurn
<1>1. /\ n \in Nat /\ s \in [1 .. n -> DOMAIN list] /\ NULL \notin DOMAIN list
      /\ Chain(list, T, n, s) /\ \A y \in DOMAIN list : \E j \in 1 .. n : s[j] = y
      /\ \A j, h \in 1 .. n : s[j] = s[h] => j = h
      /\ i \in 1 .. n /\ s[i] = l /\ list[l].key = k /\ \A h \in 1 .. i - 1 : list[s[h]].key # k
  BY ListLinks DEF FoundAt, AllOnChain, Chain
<1>2. FilledIn(list, T) = s
  BY <1>1, AllFilled
<1>3. tableQueues = QueuesOn(list, node, n, s) /\ tableTurn = TurnOn(n, s, T.cur)
  BY <1>1, <1>2, OfOn, Shown
<1>4. PICK f, g, q, r : f = list' /\ g = node' /\ q = tableQueues /\ r = tableQueues'
  OBVIOUS
<1>5. /\ \A y \in DOMAIN list : f[y].key = list[y].key
      /\ \A y \in DOMAIN list \ {l} : ItemsIn(g, f[y]) = ItemsIn(node, list[y])
      /\ ItemsIn(g, f[l]) = IF pc[t] = "push" THEN Append(ItemsIn(node, list[l]), v)
                                              ELSE <<v>> \o ItemsIn(node, list[l])
      /\ r = QueuesOn(f, g, n, s) /\ tableTurn' = tableTurn
  BY <1>3, <1>4 DEF PutMade
<1>6. q = [j \in 1 .. n |-> [key |-> list[s[j]].key, items |-> ItemsIn(node, list[s[j]])]]
  BY <1>3, <1>4 DEF QueuesOn
<1>7. r = [j \in 1 .. n |-> [key |-> f[s[j]].key, items |-> ItemsIn(g, f[s[j]])]]
  BY <1>5 DEF QueuesOn
<1>8. i \in DOMAIN q /\ q[i].key = k /\ \A h \in 1 .. i - 1 : q[h].key # k
  <2>1. \A h \in 1 .. i - 1 : h \in 1 .. n
    BY <1>1
  <2> QED
    BY <1>1, <1>6, <2>1
<1>9. PICK z : z = IF pc[t] = "push" THEN Append(q[i].items, v) ELSE <<v>> \o q[i].items
  OBVIOUS
<1>10. z = ItemsIn(g, f[l])
  <2>1. q[i].items = ItemsIn(node, list[l])
    BY <1>1, <1>6
  <2> QED
    BY <1>5, <1>9, <2>1, Zenon
<1>11. r = [q EXCEPT ![i].items = z]
  <2>1. \A j \in 1 .. n : r[j] = IF j = i THEN [q[j] EXCEPT !.items = z] ELSE q[j]
    <3> SUFFICES ASSUME NEW j \in 1 .. n
                 PROVE  r[j] = IF j = i THEN [q[j] EXCEPT !.items = z] ELSE q[j]
      OBVIOUS
    <3>1. /\ s[j] \in DOMAIN list /\ f[s[j]].key = list[s[j]].key
          /\ q[j] = [key |-> list[s[j]].key, items |-> ItemsIn(node, list[s[j]])]
          /\ r[j] = [key |-> f[s[j]].key, items |-> ItemsIn(g, f[s[j]])]
      BY <1>1, <1>5, <1>6, <1>7
    <3>2. CASE j = i
      BY <1>1, <1>10, <3>1, <3>2
    <3>3. CASE j # i
      <4>1. s[j] \in DOMAIN list \ {l}
        BY <1>1, <3>1, <3>3
      <4> QED
        BY <1>5, <3>1, <3>3, <4>1
    <3> QED
      BY <3>2, <3>3
  <2>2. [q EXCEPT ![i].items = z] = [j \in 1 .. n |-> IF j = i THEN [q[j] EXCEPT !.items = z] ELSE q[j]]
    BY <1>1, <1>6
  <2>3. r = [j \in 1 .. n |-> r[j]]
    BY <1>7
  <2> QED
    BY <2>1, <2>2, <2>3
<1> QED
  BY <1>4, <1>5, <1>8, <1>9, <1>11

(* The put has made the list: its queue is the last. *)
LEMMA PutFresh ==
    ASSUME IndInv, NEW l, NEW k, NEW n, NEW s, NEW i, FoundAt(list, T, n, s, i, l, k), CursorFilled,
           NEW t \in Threads, NEW v, PutMade(t, l, v, n, s),
           \A y \in DOMAIN list : list[y].mostL = NULL => y = l, list[l].mostL = NULL
    PROVE  /\ \A j \in DOMAIN tableQueues : tableQueues[j].key # k
           /\ tableQueues' = Append(tableQueues, [key |-> Clip[k], items |-> <<v>>])
           /\ tableTurn' = tableTurn
<1>1. /\ n \in Nat /\ s \in [1 .. n -> DOMAIN list] /\ NULL \notin DOMAIN list
      /\ Chain(list, T, n, s) /\ \A y \in DOMAIN list : \E j \in 1 .. n : s[j] = y
      /\ \A j, h \in 1 .. n : s[j] = s[h] => j = h
      /\ i = n /\ n \in 1 .. n /\ s[n] = l /\ list[l].key = Clip[k]
      /\ \A h \in 1 .. n - 1 : list[s[h]].key # k
  BY ListLinks DEF FoundAt, AllOnChain, Chain
<1>2. PICK m, r : m = n - 1 /\ r = Drop(n, s, n)
  OBVIOUS
<1>3. m \in Nat /\ m + 1 = n /\ (\A j \in 1 .. m : j \in 1 .. n /\ j < n) /\ r = [j \in 1 .. m |-> s[j]]
  <2>1. m \in Nat /\ m + 1 = n /\ \A j \in 1 .. m : j \in 1 .. n /\ j < n
    BY <1>1, <1>2
  <2>2. r = [j \in 1 .. m |-> IF j < n THEN s[j] ELSE s[j + 1]]
    BY <1>2 DEF Drop
  <2> QED
    BY <2>1, <2>2
<1>4. FilledIn(list, T) = r
  <2>1. \A y \in DOMAIN list : list[y].mostL = NULL <=> y = s[n]
    BY <1>1
  <2> QED
    BY <1>1, <1>2, <2>1, OneEmpty
<1>5. r \in [1 .. m -> DOMAIN list]
  BY <1>1, <1>3
<1>6. tableQueues = QueuesOn(list, node, m, r) /\ tableTurn = TurnOn(m, r, T.cur)
  BY <1>3, <1>4, <1>5, OfOn, Shown
<1>7. PICK f, g, q, w, z : /\ f = list' /\ g = node' /\ q = tableQueues /\ w = tableQueues'
                           /\ z = [key |-> Clip[k], items |-> <<v>>]
  OBVIOUS
<1>8. /\ \A y \in DOMAIN list : f[y].key = list[y].key
      /\ \A y \in DOMAIN list \ {l} : ItemsIn(g, f[y]) = ItemsIn(node, list[y])
      /\ ItemsIn(node, list[l]) = <<>>
      /\ ItemsIn(g, f[l]) = IF pc[t] = "push" THEN Append(ItemsIn(node, list[l]), v)
                                              ELSE <<v>> \o ItemsIn(node, list[l])
      /\ w = QueuesOn(f, g, n, s) /\ tableTurn' = TurnOn(n, s, T.cur)
  BY <1>7 DEF PutMade
<1>9. ItemsIn(g, f[l]) = <<v>>
  <2>1. PICK a : a = ItemsIn(g, f[l])
    OBVIOUS
  <2>2. a = IF pc[t] = "push" THEN Append(<<>>, v) ELSE <<v>> \o <<>>
    BY <1>8, <2>1, Zenon
  <2>3. Append(<<>>, v) = <<v>> /\ <<v>> \o <<>> = <<v>>
    OBVIOUS
  <2> QED
    BY <2>1, <2>2, <2>3, Zenon
<1>10. q = [j \in 1 .. m |-> [key |-> list[r[j]].key, items |-> ItemsIn(node, list[r[j]])]]
  BY <1>6, <1>7 DEF QueuesOn
<1>11. w = [j \in 1 .. n |-> [key |-> f[s[j]].key, items |-> ItemsIn(g, f[s[j]])]]
  BY <1>8 DEF QueuesOn
<1>12. \A j \in DOMAIN q : q[j].key # k
  BY <1>1, <1>2, <1>3, <1>10
<1>13. w = [j \in 1 .. m + 1 |-> IF j = m + 1 THEN z ELSE q[j]]
  <2>1. ASSUME NEW j \in 1 .. n
        PROVE  w[j] = IF j = n THEN z ELSE q[j]
    <3>1. w[j] = [key |-> f[s[j]].key, items |-> ItemsIn(g, f[s[j]])] /\ f[s[j]].key = list[s[j]].key
      BY <1>1, <1>8, <1>11
    <3>2. CASE j = n
      BY <1>1, <1>7, <1>9, <3>1, <3>2
    <3>3. CASE j # n
      <4>1. j \in 1 .. m /\ r[j] = s[j] /\ s[j] \in DOMAIN list \ {l}
        BY <1>1, <1>2, <1>3, <3>3
      <4> QED
        BY <1>8, <1>10, <3>1, <3>3, <4>1
    <3> QED
      BY <3>2, <3>3
  <2>2. w = [j \in 1 .. n |-> w[j]]
    BY <1>11
  <2>3. w = [j \in 1 .. n |-> IF j = n THEN z ELSE q[j]]
    BY <2>1, <2>2
  <2> QED
    BY <1>3, <2>3
<1>14. w = Append(q, z)
  <2> DEFINE U == {w[j] : j \in 1 .. n} \cup {z}
  <2>1. n = m + 1 /\ m \in Nat /\ n \in 1 .. n /\ \A j \in 1 .. m : j \in 1 .. n /\ j # n
    BY <1>1, <1>3
  <2>2. w = [j \in 1 .. n |-> IF j = n THEN z ELSE q[j]]
    BY <1>3, <1>13
  <2>3. w[n] = z /\ \A j \in 1 .. m : w[j] = q[j]
    BY <2>1, <2>2
  <2>4. z \in U /\ \A j \in 1 .. n : w[j] \in U
    OBVIOUS
  <2> HIDE DEF U
  <2>5. w \in [1 .. n -> U]
    BY <2>2, <2>4
  <2>6. q \in [1 .. m -> U]
    BY <1>10, <2>1, <2>3, <2>4
  <2> QED
    BY <2>1, <2>3, <2>4, <2>5, <2>6, Appended
<1>15. TurnOn(n, s, T.cur) = TurnOn(m, r, T.cur)
  <2>1. CASE T.cur = NULL
    BY <2>1 DEF TurnOn
  <2>2. CASE T.cur # NULL
    <3>1. T.cur \in DOMAIN list /\ list[T.cur].mostL # NULL
      BY <2>2 DEF CursorFilled, IndInv, NoDanglingList
    <3>2. PICK j \in 1 .. n : s[j] = T.cur
      BY <1>1, <3>1
    <3>3. j # n
      BY <1>1, <3>1, <3>2
    <3>4. j \in 1 .. m /\ r[j] = s[j]
      BY <1>1, <1>2, <1>3, <3>3
    <3>5. TurnOn(n, s, s[j]) = j
      <4>1. \A h \in 1 .. n : s[h] = s[j] => h = j
        BY <1>1
      <4> QED
        BY <2>2, <3>2, <4>1, TurnAt
    <3>6. TurnOn(m, r, r[j]) = j
      <4>1. \A h \in 1 .. m : r[h] = r[j] => h = j
        BY <1>1, <1>3, <3>4
      <4> QED
        BY <2>2, <3>2, <3>4, <4>1, TurnAt
    <3> QED
      BY <3>2, <3>4, <3>5, <3>6
  <2> QED
    BY <2>1, <2>2
<1> QED
  BY <1>6, <1>7, <1>8, <1>12, <1>14, <1>15

LEMMA PutNodeTurns ==
    ASSUME IndInv, IndInv', Serving, NEW t \in Threads, PutNode(t)
    PROVE  Implements
<1>1. PICK l, k, v : l = L[t] /\ k = key[t] /\ v = <<t, calls[t]>>
  OBVIOUS
<1>2. /\ pc[t] \in {"push", "pushBack"} /\ pc'[t] = "unlock" /\ arg'[t] = arg[t] /\ arg[t] = NoItem
      /\ t \in Putters
  BY DEF PutNode, Goto, IndInv, TypeOK, Serving, Callers
<1>3. OthersKept(t)
  BY OthersKeptStep DEF Thread
<1>4. PICK n, s, i : FoundAt(list, T, n, s, i, l, k)
  BY <1>1, <1>2 DEF Serving, Searched, Found
<1>5. PutMade(t, l, v, n, s)
  <2>1. AllOnChain(list, T, n, s)
    BY <1>4 DEF FoundAt
  <2> QED
    BY <1>1, <2>1, PutFacts
<1>6. Searched'
  BY <1>2, <1>3, SearchedStep DEF Serving, Holding
<1>7. CursorFilled'
  <2>1. T' = T /\ \A y \in DOMAIN list : list'[y].mostL # NULL
    BY <1>5 DEF PutMade
  <2>2. T.cur # NULL => T.cur \in DOMAIN list
    BY DEF IndInv, NoDanglingList
  <2> QED
    BY <2>1, <2>2 DEF CursorFilled
<1>8. \A y \in DOMAIN list : list[y].mostL = NULL => y = l
  BY <1>1, <1>2, OnlyEmpty
<1>9. PICK o, p, d : /\ o = OpFor(t, pc[t], key[t], calls[t], arg[t])
                     /\ p = OpFor(t, pc'[t], key'[t], calls'[t], arg'[t])
                     /\ d = IF pc[t] = "push" THEN "put" ELSE "putBack"
  OBVIOUS
<1>10. o = [do |-> d, key |-> k, item |-> v] /\ p = [do |-> "return", item |-> NoItem]
  <2>1. p = [do |-> "return", item |-> NoItem]
    BY <1>2, <1>9, OpIs
  <2>2. CASE pc[t] = "push"
    BY <1>1, <1>9, <2>1, <2>2, OpIs
  <2>3. CASE pc[t] = "pushBack"
    BY <1>1, <1>9, <2>1, <2>3, OpIs
  <2> QED
    BY <1>2, <2>2, <2>3
<1>11. tableOp[t] = o /\ tableOp' = [tableOp EXCEPT ![t] = p]
  BY <1>2, <1>3, <1>9, OpStep
<1>12. /\ o.do \in {"put", "putBack"} /\ (o.do = "put" <=> pc[t] = "push") /\ o.key = k /\ o.item = v
  BY <1>9, <1>10
<1>13. CASE list[l].mostL # NULL
  <2>1. /\ i \in DOMAIN tableQueues /\ tableQueues[i].key = k
        /\ \A h \in 1 .. i - 1 : tableQueues[h].key # k
        /\ tableQueues' = [tableQueues EXCEPT ![i].items =
                              IF pc[t] = "push" THEN Append(@, v) ELSE <<v>> \o @]
        /\ tableTurn' = tableTurn
    BY <1>4, <1>5, <1>8, <1>13, PutKnown
  <2>2. Served_in_turn!IsFirst(i, k)
    BY <2>1 DEF Served_in_turn!IsFirst
  <2>3. tableQueues' = [tableQueues EXCEPT ![i].items =
                            IF o.do = "put" THEN Append(@, v) ELSE <<v>> \o @]
    BY <1>12, <2>1, Zenon
  <2>4. Served_in_turn!DoPut(t)
    <3>1. /\ tableOp[t].do \in {"put", "putBack"} /\ tableOp[t].key = k /\ tableOp[t].item = v
          /\ tableOp' = [tableOp EXCEPT ![t] = Served_in_turn!Result(NoItem)]
      BY <1>10, <1>11, <1>12 DEF Served_in_turn!Result
    <3>2. Served_in_turn!IsFirst(i, tableOp[t].key)
      BY <2>2, <3>1
    <3>3. tableQueues' = [tableQueues EXCEPT ![i].items =
              IF tableOp[t].do = "put" THEN Append(@, tableOp[t].item) ELSE <<tableOp[t].item>> \o @]
      BY <1>11, <2>3, <3>1, Zenon
    <3> QED
      BY <2>1, <3>1, <3>2, <3>3, Zenon DEF Served_in_turn!DoPut
  <2>5. TurnsNext
    BY <1>2, <2>4 DEF TurnsNext, Served_in_turn!Next, Served_in_turn!Threads
  <2> QED
    BY <1>6, <1>7, <2>5 DEF Implements
<1>14. CASE list[l].mostL = NULL
  <2>1. /\ \A j \in DOMAIN tableQueues : tableQueues[j].key # k
        /\ tableQueues' = Append(tableQueues, [key |-> Clip[k], items |-> <<v>>])
        /\ tableTurn' = tableTurn
    BY <1>4, <1>5, <1>8, <1>14, PutFresh DEF Serving
  <2>2. Served_in_turn!DoPut(t)
    BY <1>10, <1>11, <1>12, <2>1, Zenon DEF Served_in_turn!DoPut, Served_in_turn!Result
  <2>3. TurnsNext
    BY <1>2, <2>2 DEF TurnsNext, Served_in_turn!Next, Served_in_turn!Threads
  <2> QED
    BY <1>6, <1>7, <2>3 DEF Implements
<1> QED
  BY <1>13, <1>14

------------------------------------------------------------------------------
(* A get takes the first item of the queue whose turn it is. *)

(* The nodes s of a, without the first, carry the same items in g. *)
OneLess(a, n, s, g, m) ==
    /\ n \in Nat /\ n # 0 /\ m = n - 1
    /\ \A i \in 1 .. m : g[s[i + 1]].arg = a[s[i + 1]].arg

FirstTaken(a, n, s, g, m) ==
    /\ Len(ItemsOn(a, n, s)) = n /\ Head(ItemsOn(a, n, s)) = a[s[1]].arg
    /\ ItemsOn(g, m, Drop(n, s, 1)) = Tail(ItemsOn(a, n, s))

LEMMA ItemsTake ==
    ASSUME NEW a, NEW n, NEW s, NEW g, NEW m, OneLess(a, n, s, g, m)
    PROVE  FirstTaken(a, n, s, g, m)
<1> USE DEF OneLess
<1>0. PICK c : c = ItemsOn(a, n, s)
  OBVIOUS
<1>1. c = [j \in 1 .. n |-> a[s[j]].arg]
  BY <1>0 DEF ItemsOn
<1>2. m \in Nat /\ 1 \in 1 .. n /\ \A j \in 1 .. m : j + 1 \in 1 .. n /\ ~ (j < 1)
  OBVIOUS
<1> DEFINE U == {c[j] : j \in 1 .. n}
<1>3. c \in [1 .. n -> U]
  BY <1>1
<1> HIDE DEF U
<1>4. c \in Seq(U) /\ Len(c) = n
  BY <1>3, OnNumbers
<1>5. Head(c) = a[s[1]].arg
  BY <1>1, <1>2, <1>4
<1>6. PICK d, b : d = ItemsOn(g, m, Drop(n, s, 1)) /\ b = Tail(c)
  OBVIOUS
<1>7. d = [j \in 1 .. m |-> c[j + 1]]
  <2>1. d = [j \in 1 .. m |-> g[Drop(n, s, 1)[j]].arg]
    BY <1>6 DEF ItemsOn
  <2>2. ASSUME NEW j \in 1 .. m PROVE g[Drop(n, s, 1)[j]].arg = c[j + 1]
    <3>1. Drop(n, s, 1)[j] = s[j + 1]
      BY <1>2 DEF Drop
    <3> QED
      BY <1>1, <1>2, <3>1
  <2> QED
    BY <2>1, <2>2, Zenon
<1>8. b \in Seq(U) /\ Len(b) = m /\ \A j \in 1 .. m : b[j] = c[j + 1]
  <2>1. c # <<>>
    BY <1>2, <1>4
  <2> QED
    BY <1>2, <1>4, <1>6, <2>1, HeadTailProperties
<1>9. b = [j \in 1 .. m |-> b[j]]
  BY <1>8, LenProperties
<1>10. d = b
  BY <1>7, <1>8, <1>9
<1> QED
  BY <1>0, <1>4, <1>5, <1>6, <1>10 DEF FirstTaken

TakeMade(t, l, n, s) ==
    /\ l \in DOMAIN list /\ DOMAIN list' = DOMAIN list
    /\ \A y \in DOMAIN list : list'[y].key = list[y].key
    /\ \A y \in DOMAIN list \ {l} : /\ list'[y].mostL = list[y].mostL
                                    /\ ItemsIn(node', list'[y]) = ItemsIn(node, list[y])
    /\ Len(ItemsIn(node, list[l])) = 1 <=> list'[l].mostL = NULL
    /\ arg'[t] = Head(ItemsIn(node, list[l]))
    /\ ItemsIn(node', list'[l]) = Tail(ItemsIn(node, list[l]))
    /\ Chain(list', T', n, s)
    /\ T'.cur = list[l].R

LEMMA TakeFacts ==
    ASSUME IndInv, IndInv', NEW t \in Threads, GetTake(t), NEW n, NEW s, AllOnChain(list, T, n, s),
           NEW l, l = T.cur
    PROVE  TakeMade(t, l, n, s)
<1>1. PICK ch : NodeChains(ch)
  BY DEF IndInv, Chained
<1>2. PICK x, h, m, e, q : NodeTaken(l, x, h, m, ch[l], e, q)
  <2>1. PICK b, x, h, m, e, q : NodeTaken(b, x, h, m, ch[b], e, q)
    BY <1>1, TakeNode
  <2>2. b = l
    BY <2>1 DEF NodeTaken
  <2> QED
    BY <2>1, <2>2
<1>3. PICK f, g, c, k : f = list' /\ g = node' /\ c = ch[l] /\ k = m - 1
  OBVIOUS
<1>4. /\ l \in DOMAIN list /\ h = list[l] /\ x = h.mostL /\ m = h.size /\ m \in Nat /\ m # 0 /\ x = c[1]
      /\ node[x].L = NULL /\ node[x].R = IF m = 1 THEN NULL ELSE c[2]
      /\ f = [list EXCEPT ![l] = e] /\ e.key = h.key /\ e.L = h.L /\ e.R = h.R
      /\ e.mostL = IF m = 1 THEN NULL ELSE c[2]
      /\ DOMAIN g = DOMAIN node \ {x}
      /\ \A y \in DOMAIN node \ {x} :
            /\ g[y].R = IF y = node[x].L THEN node[x].R ELSE node[y].R
            /\ g[y].L = IF y = node[x].R THEN node[x].L ELSE node[y].L
            /\ g[y].arg = node[y].arg
      /\ Chain(g, e, k, q) /\ q = Drop(m, c, 1) /\ \A i \in 1 .. m : c[i] \in DOMAIN node
  BY <1>2, <1>3 DEF NodeTaken
<1>5. /\ arg'[t] = node[x].arg /\ T' = [T EXCEPT !.cur = list[l].R] /\ T'.cur = list[l].R
      /\ T'.size = T.size /\ T'.mostL = T.mostL /\ T'.mostR = T.mostR
  BY <1>4, TakeLinks DEF GetTake, Successor, IndInv, TypeOK
<1>6. /\ NULL \notin DOMAIN list /\ NULL \notin DOMAIN node /\ NULL \notin DOMAIN g
  BY <1>3, ListLinks DEF IndInv, TypeOK, NULL
<1>7. /\ DOMAIN f = DOMAIN list /\ f[l] = e /\ \A y \in DOMAIN list \ {l} : f[y] = list[y]
  BY <1>4
<1>8. OnChains(node, DOMAIN list, list, ch)
  BY <1>1 DEF NodeChains
<1>9. PICK D2, hd2, ch2 : OnChains(g, D2, hd2, ch2)
  <2>1. PICK z : NodeChains(z)'
    BY DEF IndInv, Chained
  <2>2. OnChains(node', DOMAIN list', list', z)
    BY <2>1 DEF NodeChains
  <2> QED
    BY <1>3, <2>2
<1>10. 1 \in 1 .. m /\ (m # 1 => 2 \in 1 .. m) /\ k \in Nat
  BY <1>3, <1>4
<1>11. ASSUME NEW y \in DOMAIN list \ {l} PROVE ItemsIn(g, f[y]) = ItemsIn(node, list[y])
  <2>1. ASSUME NEW i \in 1 .. list[y].size
        PROVE  /\ ch[y][i] \in DOMAIN g /\ g[ch[y][i]].L = node[ch[y][i]].L
               /\ g[ch[y][i]].R = node[ch[y][i]].R /\ g[ch[y][i]].arg = node[ch[y][i]].arg
    <3>1. PICK w : w = ch[y][i]
      OBVIOUS
    <3>2. w \in DOMAIN node
      <4>1. PICK b, r : b = list[y].size /\ r = ch[y]
        OBVIOUS
      <4>2. Chain(node, list[y], b, r)
        BY <1>8, <4>1 DEF OnChains
      <4> QED
        BY <3>1, <4>1, <4>2 DEF Chain
    <3>3. \A j \in 1 .. m : c[j] # w
      BY <1>3, <1>4, <1>8, <3>1 DEF OnChains
    <3>4. w # x /\ w # node[x].L /\ w # node[x].R
      BY <1>4, <1>6, <1>10, <3>2, <3>3
    <3> QED
      BY <1>4, <3>1, <3>2, <3>4
  <2>2. ItemsIn(g, list[y]) = ItemsIn(node, list[y])
    BY <1>6, <1>8, <1>9, <2>1, ItemsStay
  <2> QED
    BY <1>7, <2>2
<1>12. Chain(node, h, m, c)
  BY <1>3, <1>4, <1>8 DEF OnChains
<1>13. PICK a : a = ItemsIn(node, h)
  OBVIOUS
<1>14. a = ItemsOn(node, m, c)
  BY <1>6, <1>8, <1>12, <1>13, ItemsAre
<1>15. ItemsIn(g, e) = ItemsOn(g, k, q)
  BY <1>4, <1>6, <1>9, ItemsAre
<1>16. Len(a) = m /\ Head(a) = node[c[1]].arg /\ ItemsOn(g, k, Drop(m, c, 1)) = Tail(a)
  <2>1. \A i, j \in 1 .. m : c[i] = c[j] => i = j
    BY <1>12 DEF Chain
  <2>2. ASSUME NEW i \in 1 .. k PROVE g[c[i + 1]].arg = node[c[i + 1]].arg
    <3>1. i + 1 \in 1 .. m /\ i + 1 # 1
      BY <1>3, <1>4
    <3>2. c[i + 1] \in DOMAIN node \ {x}
      BY <1>4, <1>10, <2>1, <3>1
    <3> QED
      BY <1>4, <3>2
  <2>3. m \in Nat /\ m # 0 /\ k = m - 1
    BY <1>3, <1>4
  <2>4. /\ Len(ItemsOn(node, m, c)) = m /\ Head(ItemsOn(node, m, c)) = node[c[1]].arg
        /\ ItemsOn(g, k, Drop(m, c, 1)) = Tail(ItemsOn(node, m, c))
    <3>1. \A i \in 1 .. k : g[c[i + 1]].arg = node[c[i + 1]].arg
      BY <2>2
    <3>2. OneLess(node, m, c, g, k)
      BY <2>3, <3>1 DEF OneLess
    <3>3. FirstTaken(node, m, c, g, k)
      BY <3>2, ItemsTake, Zenon
    <3> QED
      BY <3>3 DEF FirstTaken
  <2> QED
    BY <1>14, <2>4
<1>17. Chain(f, T', n, s)
  <2>1. PICK d : d = T'
    OBVIOUS
  <2>2. Chain(list, T, n, s) /\ \A i \in 1 .. n : s[i] \in DOMAIN list
    BY DEF AllOnChain, Chain
  <2>3. \A y \in DOMAIN list : f[y].L = list[y].L /\ f[y].R = list[y].R
    BY <1>4, <1>7
  <2>4. \A i \in 1 .. n : s[i] \in DOMAIN f /\ f[s[i]].L = list[s[i]].L /\ f[s[i]].R = list[s[i]].R
    BY <1>7, <2>2, <2>3
  <2>5. d.size = T.size /\ d.mostL = T.mostL /\ d.mostR = T.mostR
    BY <1>5, <2>1
  <2>6. Chain(f, d, n, s)
    BY <2>2, <2>4, <2>5, KeepChain
  <2> QED
    BY <2>1, <2>6
<1>18. Len(a) = 1 <=> e.mostL = NULL
  BY <1>4, <1>6, <1>10, <1>16
<1>19. /\ l \in DOMAIN list /\ DOMAIN list' = DOMAIN list
       /\ \A y \in DOMAIN list : list'[y].key = list[y].key
       /\ \A y \in DOMAIN list \ {l} : list'[y].mostL = list[y].mostL
  BY <1>3, <1>4, <1>7
<1>20. \A y \in DOMAIN list \ {l} : ItemsIn(node', list'[y]) = ItemsIn(node, list[y])
  BY <1>3, <1>11, Zenon
<1>21. a = ItemsIn(node, list[l]) /\ e = list'[l]
  BY <1>3, <1>4, <1>7, <1>13, Zenon
<1>22. /\ Len(ItemsIn(node, list[l])) = 1 <=> list'[l].mostL = NULL
       /\ arg'[t] = Head(ItemsIn(node, list[l]))
       /\ ItemsIn(node', list'[l]) = Tail(ItemsIn(node, list[l]))
  <2>1. arg'[t] = Head(a)
    BY <1>4, <1>5, <1>16
  <2>2. ItemsIn(g, e) = Tail(a)
    BY <1>4, <1>15, <1>16, Zenon
  <2> QED
    BY <1>3, <1>18, <1>21, <2>1, <2>2, Zenon
<1> QED
  BY <1>3, <1>5, <1>17, <1>19, <1>20, <1>22, Zenon DEF TakeMade

(* What holds before the take: every list has items, the turn is at the cursor. *)
LEMMA TakeBefore ==
    ASSUME IndInv, \A y \in DOMAIN list : list[y].mostL # NULL,
           NEW n, NEW s, AllOnChain(list, T, n, s), NEW j \in 1 .. n, s[j] = T.cur
    PROVE  tableQueues = QueuesOn(list, node, n, s) /\ tableTurn = j
<1>1. /\ n \in Nat /\ s \in [1 .. n -> DOMAIN list] /\ NULL \notin DOMAIN list
      /\ Chain(list, T, n, s) /\ \A y \in DOMAIN list : \E i \in 1 .. n : s[i] = y
      /\ \A i, h \in 1 .. n : s[i] = s[h] => i = h
  BY ListLinks DEF AllOnChain, Chain
<1>2. FilledIn(list, T) = s
  BY <1>1, AllFilled
<1>3. tableQueues = QueuesOn(list, node, n, s) /\ tableTurn = TurnOn(n, s, T.cur)
  BY <1>1, <1>2, OfOn, Shown
<1>4. TurnOn(n, s, s[j]) = j
  <2>1. s[j] # NULL /\ \A i \in 1 .. n : s[i] = s[j] => i = j
    BY <1>1
  <2> QED
    BY <2>1, TurnAt
<1> QED
  BY <1>3, <1>4

(* The queue keeps items. *)
LEMMA TakeSome ==
    ASSUME IndInv, \A y \in DOMAIN list : list[y].mostL # NULL,
           NEW n, NEW s, AllOnChain(list, T, n, s), NEW j \in 1 .. n, s[j] = T.cur,
           NEW t \in Threads, TakeMade(t, s[j], n, s), list'[s[j]].mostL # NULL
    PROVE  /\ tableQueues' = [tableQueues EXCEPT ![j].items = Tail(@)]
           /\ tableTurn' = IF j = n THEN 0 ELSE j + 1
<1>1. PICK l : l = s[j]
  OBVIOUS
<1>2. /\ n \in Nat /\ s \in [1 .. n -> DOMAIN list] /\ NULL \notin DOMAIN list
      /\ \A y \in DOMAIN list : \E i \in 1 .. n : s[i] = y
      /\ \A i, h \in 1 .. n : s[i] = s[h] => i = h
      /\ list[l].R = IF j = n THEN NULL ELSE s[j + 1]
  BY <1>1, ListLinks DEF AllOnChain, Chain
<1>3. PICK f, g, d, q, r : f = list' /\ g = node' /\ d = T' /\ q = tableQueues /\ r = tableQueues'
  OBVIOUS
<1>4. /\ DOMAIN f = DOMAIN list /\ \A y \in DOMAIN list : f[y].key = list[y].key
      /\ \A y \in DOMAIN list \ {l} : f[y].mostL = list[y].mostL /\ ItemsIn(g, f[y]) = ItemsIn(node, list[y])
      /\ ItemsIn(g, f[l]) = Tail(ItemsIn(node, list[l])) /\ f[l].mostL # NULL
      /\ Chain(f, d, n, s) /\ d.cur = list[l].R
  BY <1>1, <1>3 DEF TakeMade
<1>5. FilledIn(f, d) = s
  <2>1. NULL \notin DOMAIN f /\ \A y \in DOMAIN f : f[y].mostL # NULL
    BY <1>2, <1>4
  <2>2. \A y \in DOMAIN f : \E i \in 1 .. n : s[i] = y
    BY <1>2, <1>4
  <2> QED
    BY <1>4, <2>1, <2>2, AllFilled
<1>6. r = QueuesOn(f, g, n, s) /\ tableTurn' = TurnOn(n, s, d.cur)
  <2>1. s \in [1 .. n -> DOMAIN f]
    BY <1>2, <1>4
  <2>2. n \in Nat
    BY <1>2
  <2>3. QueuesOf(f, g, d) = QueuesOn(f, g, n, s) /\ TurnOf(f, d) = TurnOn(n, s, d.cur)
    BY <1>5, <2>1, <2>2, OfOn
  <2> QED
    BY <1>3, <2>3, ShownNext
<1>7. tableTurn' = IF j = n THEN 0 ELSE j + 1
  <2>1. CASE j = n
    BY <1>2, <1>4, <1>6, <2>1 DEF TurnOn
  <2>2. CASE j # n
    <3>1. PICK k : k = j + 1
      OBVIOUS
    <3>2. k \in 1 .. n /\ d.cur = s[k]
      BY <1>2, <1>4, <2>2, <3>1
    <3>3. s[k] # NULL /\ \A i \in 1 .. n : s[i] = s[k] => i = k
      BY <1>2, <3>2
    <3>4. TurnOn(n, s, s[k]) = k
      BY <3>2, <3>3, TurnAt
    <3> QED
      BY <1>6, <2>2, <3>1, <3>2, <3>4
  <2> QED
    BY <2>1, <2>2
<1>8. q = [i \in 1 .. n |-> [key |-> list[s[i]].key, items |-> ItemsIn(node, list[s[i]])]]
  BY <1>3, TakeBefore DEF QueuesOn
<1>9. r = [i \in 1 .. n |-> [key |-> f[s[i]].key, items |-> ItemsIn(g, f[s[i]])]]
  BY <1>6 DEF QueuesOn
<1>10. PICK z : z = Tail(q[j].items)
  OBVIOUS
<1>11. z = ItemsIn(g, f[l])
  <2>1. q[j].items = ItemsIn(node, list[l])
    BY <1>1, <1>8
  <2> QED
    BY <1>4, <1>10, <2>1, Zenon
<1>12. r = [q EXCEPT ![j].items = z]
  <2>1. \A i \in 1 .. n : r[i] = IF i = j THEN [q[i] EXCEPT !.items = z] ELSE q[i]
    <3> SUFFICES ASSUME NEW i \in 1 .. n
                 PROVE  r[i] = IF i = j THEN [q[i] EXCEPT !.items = z] ELSE q[i]
      OBVIOUS
    <3>1. /\ s[i] \in DOMAIN list /\ f[s[i]].key = list[s[i]].key
          /\ q[i] = [key |-> list[s[i]].key, items |-> ItemsIn(node, list[s[i]])]
          /\ r[i] = [key |-> f[s[i]].key, items |-> ItemsIn(g, f[s[i]])]
      BY <1>2, <1>4, <1>8, <1>9
    <3>2. CASE i = j
      BY <1>1, <1>11, <3>1, <3>2
    <3>3. CASE i # j
      <4>1. s[i] \in DOMAIN list \ {l}
        BY <1>1, <1>2, <3>1, <3>3
      <4> QED
        BY <1>4, <3>1, <3>3, <4>1
    <3> QED
      BY <3>2, <3>3
  <2>2. [q EXCEPT ![j].items = z] = [i \in 1 .. n |-> IF i = j THEN [q[i] EXCEPT !.items = z] ELSE q[i]]
    BY <1>8
  <2>3. r = [i \in 1 .. n |-> r[i]]
    BY <1>9
  <2> QED
    BY <2>1, <2>2, <2>3
<1> QED
  BY <1>3, <1>7, <1>10, <1>12

(* The queue goes with its last item. *)
LEMMA TakeLast ==
    ASSUME IndInv, \A y \in DOMAIN list : list[y].mostL # NULL,
           NEW n, NEW s, AllOnChain(list, T, n, s), NEW j \in 1 .. n, s[j] = T.cur,
           NEW t \in Threads, TakeMade(t, s[j], n, s), list'[s[j]].mostL = NULL
    PROVE  /\ tableQueues' = SubSeq(tableQueues, 1, j - 1) \o SubSeq(tableQueues, j + 1, Len(tableQueues))
           /\ tableTurn' = IF j = n THEN 0 ELSE j
<1>1. PICK l : l = s[j]
  OBVIOUS
<1>2. /\ n \in Nat /\ s \in [1 .. n -> DOMAIN list] /\ NULL \notin DOMAIN list
      /\ \A y \in DOMAIN list : \E i \in 1 .. n : s[i] = y
      /\ \A i, h \in 1 .. n : s[i] = s[h] => i = h
      /\ list[l].R = IF j = n THEN NULL ELSE s[j + 1]
  BY <1>1, ListLinks DEF AllOnChain, Chain
<1>3. PICK f, g, d, q, m, r : /\ f = list' /\ g = node' /\ d = T' /\ q = tableQueues
                              /\ m = n - 1 /\ r = Drop(n, s, j)
  OBVIOUS
<1>4. /\ DOMAIN f = DOMAIN list /\ \A y \in DOMAIN list : f[y].key = list[y].key
      /\ \A y \in DOMAIN list \ {l} : f[y].mostL = list[y].mostL /\ ItemsIn(g, f[y]) = ItemsIn(node, list[y])
      /\ f[l].mostL = NULL /\ Chain(f, d, n, s) /\ d.cur = list[l].R
  BY <1>1, <1>3 DEF TakeMade
<1>5. /\ m \in Nat /\ r = [i \in 1 .. m |-> IF i < j THEN s[i] ELSE s[i + 1]]
      /\ \A i \in 1 .. m : /\ i \in 1 .. n /\ i + 1 \in 1 .. n
                           /\ r[i] \in DOMAIN list \ {l}
  <2>1. m \in Nat /\ r = [i \in 1 .. m |-> IF i < j THEN s[i] ELSE s[i + 1]]
    BY <1>2, <1>3 DEF Drop
  <2>2. ASSUME NEW i \in 1 .. m
        PROVE  i \in 1 .. n /\ i + 1 \in 1 .. n /\ r[i] \in DOMAIN list \ {l}
    <3>1. i \in 1 .. n /\ i + 1 \in 1 .. n
      BY <1>2, <1>3
    <3>2. PICK k : k = IF i < j THEN i ELSE i + 1
      OBVIOUS
    <3>3. k \in 1 .. n /\ k # j /\ r[i] = s[k]
      BY <1>2, <2>1, <3>1, <3>2
    <3> QED
      BY <1>1, <1>2, <3>1, <3>3
  <2> QED
    BY <2>1, <2>2
<1>6. FilledIn(f, d) = r
  <2>1. NULL \notin DOMAIN f /\ \A y \in DOMAIN f : f[y].mostL = NULL <=> y = s[j]
    BY <1>1, <1>2, <1>4
  <2>2. \A y \in DOMAIN f : \E i \in 1 .. n : s[i] = y
    BY <1>2, <1>4
  <2> QED
    <3>1. Chain(f, d, n, s)
      BY <1>4
    <3>2. FilledIn(f, d) = Drop(n, s, j)
      BY <2>1, <2>2, <3>1, OneEmpty
    <3> QED
      BY <1>3, <3>2
<1>7. tableQueues' = QueuesOn(f, g, m, r) /\ tableTurn' = TurnOn(m, r, d.cur)
  <2>1. r \in [1 .. m -> DOMAIN f]
    BY <1>4, <1>5
  <2>2. m \in Nat
    BY <1>5
  <2>3. QueuesOf(f, g, d) = QueuesOn(f, g, m, r) /\ TurnOf(f, d) = TurnOn(m, r, d.cur)
    BY <1>6, <2>1, <2>2, OfOn
  <2> QED
    BY <1>3, <2>3, ShownNext
<1>8. tableTurn' = IF j = n THEN 0 ELSE j
  <2>1. CASE j = n
    BY <1>2, <1>4, <1>7, <2>1 DEF TurnOn
  <2>2. CASE j # n
    <3>1. j \in 1 .. m /\ d.cur = s[j + 1] /\ r[j] = s[j + 1] /\ r[j] # NULL
      BY <1>2, <1>3, <1>4, <1>5, <2>2
    <3>2. ASSUME NEW i \in 1 .. m, r[i] = r[j] PROVE i = j
      <4>1. PICK k : k = IF i < j THEN i ELSE i + 1
        OBVIOUS
      <4>2. k \in 1 .. n /\ j + 1 \in 1 .. n /\ r[i] = s[k]
        BY <1>5, <3>1, <4>1
      <4>3. k = j + 1
        <5>1. s[k] = s[j + 1]
          BY <3>1, <3>2, <4>2
        <5> QED
          BY <1>2, <4>2, <5>1, Zenon
      <4> QED
        BY <4>1, <4>3
    <3>3. TurnOn(m, r, r[j]) = j
      BY <3>1, <3>2, TurnAt
    <3> QED
      BY <1>7, <2>2, <3>1, <3>3
  <2> QED
    BY <2>1, <2>2
<1>9. q = QueuesOn(list, node, n, s)
  BY <1>3, TakeBefore
<1>10. Len(q) = n
  BY <1>2, <1>9, QueuesShape
<1>11. q = [i \in 1 .. n |-> [key |-> list[s[i]].key, items |-> ItemsIn(node, list[s[i]])]]
  BY <1>9 DEF QueuesOn
<1>12. SubSeq(q, 1, j - 1) \o SubSeq(q, j + 1, Len(q)) = Drop(n, q, j)
  <2> DEFINE U == {q[i] : i \in 1 .. n}
  <2>1. q \in [1 .. n -> U]
    BY <1>11
  <2> HIDE DEF U
  <2>2. n \in Nat
    BY <1>2
  <2> QED
    BY <2>1, <2>2, WithoutOne
<1>13. QueuesOn(f, g, m, r) = Drop(n, q, j)
  <2>1. QueuesOn(f, g, m, r) = [i \in 1 .. m |-> [key |-> f[r[i]].key, items |-> ItemsIn(g, f[r[i]])]]
    BY DEF QueuesOn
  <2>2. Drop(n, q, j) = [i \in 1 .. m |-> IF i < j THEN q[i] ELSE q[i + 1]]
    BY <1>3 DEF Drop
  <2>3. ASSUME NEW i \in 1 .. m
        PROVE  [key |-> f[r[i]].key, items |-> ItemsIn(g, f[r[i]])] = IF i < j THEN q[i] ELSE q[i + 1]
    <3>1. PICK k : k = IF i < j THEN i ELSE i + 1
      OBVIOUS
    <3>2. k \in 1 .. n /\ r[i] = s[k] /\ q[k] = IF i < j THEN q[i] ELSE q[i + 1]
      BY <1>5, <3>1
    <3>3. f[r[i]].key = list[r[i]].key /\ ItemsIn(g, f[r[i]]) = ItemsIn(node, list[r[i]])
      BY <1>4, <1>5
    <3>4. q[k] = [key |-> list[r[i]].key, items |-> ItemsIn(node, list[r[i]])]
      BY <1>11, <3>2
    <3> QED
      BY <3>2, <3>3, <3>4
  <2> QED
    BY <2>1, <2>2, <2>3, Zenon
<1> QED
  BY <1>3, <1>7, <1>8, <1>12, <1>13

LEMMA RestEmpty ==
    ASSUME NEW n \in Nat, NEW U, NEW q \in [1 .. n -> U], NEW j \in 1 .. n
    PROVE  SubSeq(q, j + 1, Len(q)) = <<>> <=> j = n
<1>1. Len(q) = n /\ j \in Int /\ j + 1 \in Int /\ n \in Int
  BY OnNumbers
<1>2. CASE j = n
  <2>1. SubSeq(q, j + 1, n) = <<>>
    <3>1. n < j + 1
      BY <1>1, <1>2
    <3> QED
      BY <1>1, <3>1, SubSeqEmpty
  <2> QED
    BY <1>1, <1>2, <2>1
<1>3. CASE j # n
  <2>1. j + 1 <= n /\ \A i \in j + 1 .. n : q[i] \in U
    BY <1>1, <1>3
  <2>2. Len(SubSeq(q, j + 1, n)) = n - (j + 1) + 1
    BY <1>1, <2>1, SubSeqProperties
  <2>3. PICK a : a = SubSeq(q, j + 1, n)
    OBVIOUS
  <2>4. Len(a) # 0
    BY <1>1, <2>1, <2>2, <2>3
  <2>5. a # <<>>
    BY <2>4
  <2> QED
    BY <1>1, <1>3, <2>3, <2>5
<1> QED
  BY <1>2, <1>3

LEMMA GetTakeTurns ==
    ASSUME IndInv, IndInv', Serving, NEW t \in Threads, GetTake(t)
    PROVE  Implements
<1>1. PICK l : l = T.cur
  OBVIOUS
<1>2. /\ pc[t] = "take" /\ l # NULL /\ pc'[t] = "drop" /\ t \in Getters /\ l \in DOMAIN list
  BY <1>1 DEF GetTake, Goto, IndInv, TypeOK, Placed, NoDanglingList
<1>3. OthersKept(t)
  BY OthersKeptStep DEF Thread
<1>4. Searched'
  BY <1>2, <1>3, SearchedStep DEF Serving, Holding
<1>5. \A y \in DOMAIN list : list[y].mostL # NULL
  BY <1>2, NoneEmpty
<1>6. PICK n, s : AllOnChain(list, T, n, s)
  BY OnChainAll DEF IndInv, Chained
<1>7. PICK j \in 1 .. n : s[j] = l
  BY <1>2, <1>6 DEF AllOnChain
<1>8. TakeMade(t, l, n, s)
  BY <1>1, <1>6, TakeFacts
<1>9. tableQueues = QueuesOn(list, node, n, s) /\ tableTurn = j
  BY <1>1, <1>5, <1>6, <1>7, TakeBefore
<1>10. PICK q, a, rest : /\ q = tableQueues /\ a = q[j].items
                         /\ rest = SubSeq(q, j + 1, Len(q))
  OBVIOUS
<1>11. n \in Nat
  BY <1>6 DEF AllOnChain, Chain
<1>12. q = [i \in 1 .. n |-> [key |-> list[s[i]].key, items |-> ItemsIn(node, list[s[i]])]]
  BY <1>9, <1>10 DEF QueuesOn
<1>13. a = ItemsIn(node, list[l])
  BY <1>7, <1>10, <1>12
<1>14. arg'[t] = Head(a) /\ (Len(a) = 1 <=> list'[l].mostL = NULL)
  BY <1>8, <1>13 DEF TakeMade
<1>15. rest = <<>> <=> j = n
  <2> DEFINE U == {q[i] : i \in 1 .. n}
  <2>1. q \in [1 .. n -> U]
    BY <1>12
  <2> HIDE DEF U
  <2>2. SubSeq(q, j + 1, Len(q)) = <<>> <=> j = n
    BY <1>11, <2>1, RestEmpty, ZenonT(40)
  <2> QED
    BY <1>10, <2>2
<1>16. CursorFilled'
  <2>1. /\ T'.cur = list[l].R /\ \A y \in DOMAIN list \ {l} : list'[y].mostL = list[y].mostL
    BY <1>8 DEF TakeMade
  <2>2. list[l].R # l /\ (list[l].R # NULL => list[l].R \in DOMAIN list)
    BY <1>2, ListLinks
  <2> QED
    BY <1>5, <2>1, <2>2 DEF CursorFilled
<1>17. PICK o, p : /\ o = OpFor(t, pc[t], key[t], calls[t], arg[t])
                   /\ p = OpFor(t, pc'[t], key'[t], calls'[t], arg'[t])
  OBVIOUS
<1>18. o = [do |-> "get"] /\ p = [do |-> "return", item |-> Head(a)]
  BY <1>2, <1>14, <1>17, OpIs
<1>19. tableOp[t] = o /\ tableOp' = [tableOp EXCEPT ![t] = p]
  BY <1>2, <1>3, <1>17, OpStep
<1>20. /\ tableOp[t].do = "get" /\ tableTurn # 0
       /\ tableOp' = [tableOp EXCEPT ![t] = Served_in_turn!Result(Head(tableQueues[tableTurn].items))]
  <2>1. tableOp[t].do = "get" /\ tableTurn # 0 /\ a = tableQueues[tableTurn].items
    BY <1>9, <1>10, <1>11, <1>18, <1>19
  <2> QED
    BY <1>18, <1>19, <2>1, Zenon DEF Served_in_turn!Result
<1>21. CASE Len(a) = 1
  <2>1. /\ tableQueues' = SubSeq(q, 1, j - 1) \o SubSeq(q, j + 1, Len(q))
        /\ tableTurn' = IF j = n THEN 0 ELSE j
    <3>1. s[j] = T.cur /\ TakeMade(t, s[j], n, s) /\ list'[s[j]].mostL = NULL
      BY <1>1, <1>7, <1>8, <1>14, <1>21
    <3>2. /\ tableQueues' = SubSeq(tableQueues, 1, j - 1) \o SubSeq(tableQueues, j + 1, Len(tableQueues))
          /\ tableTurn' = IF j = n THEN 0 ELSE j
      BY <1>5, <1>6, <3>1, TakeLast, ZenonT(40)
    <3> QED
      BY <1>10, <3>2
  <2>2. /\ Len(tableQueues[tableTurn].items) = 1
        /\ tableQueues' = SubSeq(tableQueues, 1, tableTurn - 1)
                            \o SubSeq(tableQueues, tableTurn + 1, Len(tableQueues))
        /\ tableTurn' = IF SubSeq(tableQueues, tableTurn + 1, Len(tableQueues)) = <<>> THEN 0 ELSE tableTurn
    BY <1>9, <1>10, <1>15, <1>21, <2>1, Zenon
  <2>3. Served_in_turn!DoGet(t)
    BY <1>20, <2>2, Zenon DEF Served_in_turn!DoGet
  <2>4. TurnsNext
    BY <1>2, <2>3 DEF TurnsNext, Served_in_turn!Next, Served_in_turn!Threads
  <2> QED
    BY <1>4, <1>16, <2>4 DEF Implements
<1>22. CASE Len(a) # 1
  <2>1. /\ tableQueues' = [q EXCEPT ![j].items = Tail(@)]
        /\ tableTurn' = IF j = n THEN 0 ELSE j + 1
    <3>1. s[j] = T.cur /\ TakeMade(t, s[j], n, s) /\ list'[s[j]].mostL # NULL
      BY <1>1, <1>7, <1>8, <1>14, <1>22
    <3>2. /\ tableQueues' = [tableQueues EXCEPT ![j].items = Tail(@)]
          /\ tableTurn' = IF j = n THEN 0 ELSE j + 1
      BY <1>5, <1>6, <3>1, TakeSome, Zenon
    <3> QED
      BY <1>10, <3>2
  <2>2. /\ Len(tableQueues[tableTurn].items) # 1
        /\ tableQueues' = [tableQueues EXCEPT ![tableTurn].items = Tail(@)]
        /\ tableTurn' = IF SubSeq(tableQueues, tableTurn + 1, Len(tableQueues)) = <<>> THEN 0
                        ELSE tableTurn + 1
    BY <1>9, <1>10, <1>15, <1>22, <2>1, Zenon
  <2>3. Served_in_turn!DoGet(t)
    BY <1>20, <2>2, Zenon DEF Served_in_turn!DoGet
  <2>4. TurnsNext
    BY <1>2, <2>3 DEF TurnsNext, Served_in_turn!Next, Served_in_turn!Threads
  <2> QED
    BY <1>4, <1>16, <2>4 DEF Implements
<1> QED
  BY <1>21, <1>22

------------------------------------------------------------------------------
(* Together: every step of the table is a step of Turns, or none. *)

LEMMA ServingInitially == Init => Serving /\ Served_in_turn!Init
<1> SUFFICES ASSUME Init PROVE Serving /\ Served_in_turn!Init
  OBVIOUS
<1>1. IndInv
  BY Initially
<1>2. /\ DOMAIN list = {} /\ T.size = 0 /\ T.cur = NULL
      /\ \A t \in Threads : pc[t] = "idle" /\ arg[t] = NoItem
  BY DEF Init
<1>3. Serving
  BY <1>2 DEF Serving, CursorFilled, Callers, Searched
<1>4. PICK n, s : AllOnChain(list, T, n, s)
  BY <1>1, OnChainAll DEF IndInv, Chained
<1>5. n = 0 /\ s \in [1 .. n -> DOMAIN list] /\ n \in Nat /\ Chain(list, T, n, s) /\ NULL \notin DOMAIN list
  BY <1>2, <1>4 DEF AllOnChain, Chain
<1>6. FilledIn(list, T) = s
  <2>1. /\ \A y \in DOMAIN list : \E i \in 1 .. n : s[i] = y
        /\ \A y \in DOMAIN list : list[y].mostL # NULL
    BY <1>2
  <2> QED
    BY <1>5, <2>1, AllFilled
<1>7. tableQueues = QueuesOn(list, node, n, s) /\ tableTurn = TurnOn(n, s, T.cur)
  <2>1. QueuesOf(list, node, T) = QueuesOn(list, node, n, s) /\ TurnOf(list, T) = TurnOn(n, s, T.cur)
    <3>1. n \in Nat /\ s \in [1 .. n -> DOMAIN list]
      BY <1>5
    <3> QED
      BY <1>6, <3>1, OfOn
  <2> QED
    BY <2>1, Shown
<1>8. tableQueues = <<>> /\ tableTurn = 0
  <2>1. tableTurn = 0
    BY <1>2, <1>7 DEF TurnOn
  <2>2. tableQueues = <<>>
    BY <1>5, <1>7, QueuesShape
  <2> QED
    BY <2>1, <2>2
<1>9. tableOp = [t \in Putters \cup Getters |-> [do |-> "none"]]
  <2>1. \A t \in Putters \cup Getters : OpFor(t, pc[t], key[t], calls[t], arg[t]) = [do |-> "none"]
    BY <1>2, OpIs DEF Threads
  <2> QED
    BY <2>1, OpsAre
<1>10. Served_in_turn!Init
  BY <1>8, <1>9 DEF Served_in_turn!Init, Served_in_turn!NoOp, Served_in_turn!Threads
<1> QED
  BY <1>3, <1>10

LEMMA ServingStep == IndInv /\ IndInv' /\ Serving /\ [Next]_vars => Serving' /\ TurnsNext
<1> SUFFICES ASSUME IndInv, IndInv', Serving, [Next]_vars PROVE Serving' /\ TurnsNext
  OBVIOUS
<1>1. CASE UNCHANGED vars
  <2>1. UNCHANGED <<list, node, T, pc, key, calls, arg, L>>
    BY <1>1 DEF vars
  <2>2. tableOp' = tableOp
    BY <2>1, OpsAre
  <2>3. tableQueues' = tableQueues /\ tableTurn' = tableTurn
    BY <2>1, SameShown
  <2>4. Serving'
    BY <2>1 DEF Serving, CursorFilled, Callers, Searched
  <2> QED
    BY <2>2, <2>3, <2>4, TurnsStutter
<1>2. ASSUME NEW t \in Threads, Thread(t) PROVE Serving' /\ TurnsNext
  <2>1. Implements
    <3>1. ASSUME NEW k \in Keys, CallPut(t, k) PROVE Implements
      BY <3>1, CallPutTurns
    <3>2. CASE CallGet(t)
      BY <3>2, CallGetTurns
    <3>3. CASE CallSize(t) \/ SizeAdd(t) \/ SizeNext(t) \/ Lock(t) \/ Unlock(t)
      BY <3>3, AsideTurns
    <3>4. CASE Return(t)
      BY <3>4, ReturnTurns
    <3>5. CASE PutFound(t)
      BY <3>5, PutFoundTurns
    <3>6. CASE PutNewList(t)
      BY <3>6, PutNewListTurns
    <3>7. CASE PutNode(t)
      BY <3>7, PutNodeTurns
    <3>8. CASE GetTurn(t)
      BY <3>8, GetTurnTurns
    <3>9. CASE GetTake(t)
      BY <3>9, GetTakeTurns
    <3>10. CASE GetDrop(t)
      BY <3>10, GetDropTurns
    <3> QED
      BY <1>2, <3>1, <3>2, <3>3, <3>4, <3>5, <3>6, <3>7, <3>8, <3>9, <3>10 DEF Thread
  <2>2. Callers'
    BY <1>2, CallersStep DEF Serving
  <2> QED
    BY <2>1, <2>2 DEF Implements, Serving
<1> QED
  BY <1>1, <1>2 DEF Next, Ended

(* put, putBack and get of any number of threads, each in the steps that   *)
(* table.c takes, are operations of queues served in turn, each done at    *)
(* once between its call and its return (table.c:301-355).                 *)
THEOREM TurnsImplemented == Spec => ImplementsTurns
<1>1. Init => Serving /\ Served_in_turn!Init
  BY ServingInitially
<1>2. IndInv /\ IndInv' /\ Serving /\ [Next]_vars
        => Serving' /\ [Served_in_turn!Next]_(Served_in_turn!vars)
  BY ServingStep DEF TurnsNext
<1>3. Spec => []IndInv
  BY TableSound
<1> QED
  BY <1>1, <1>2, <1>3, PTL DEF Spec, ImplementsTurns, Served_in_turn!Spec
=============================================================================
