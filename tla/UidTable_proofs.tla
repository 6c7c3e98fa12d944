---------------------------- MODULE UidTable_proofs ----------------------------
(***************************************************************************)
(* Proofs about UidTable, for any number of threads, rounds, names and     *)
(* buckets and any hash function.  First what the operations of vhash.c    *)
(* preserve, whoever calls them.  IndInv is the inductive invariant; its   *)
(* parts are shown to be preserved one lemma at a time, each with a case   *)
(* per action.  CountInv, what the counters count, is inductive given      *)
(* IndInv.  Last, that the program implements the map of UidMap: what each *)
(* step does to the names, the operations and the stage that the map sees, *)
(* and the step of the map that it is.                                     *)
(***************************************************************************)
EXTENDS UidTableMap, FiniteSetTheorems, TLAPS

------------------------------------------------------------------------------
(* The operations of vhash.c: what each preserves, whoever calls it.       *)

(* What vchain_append changes, field by field. *)
LEMMA AppendEffect ==
    ASSUME HashTypeOK, NEW k \in Keys, NEW a \in Args, vchain_append(k, a)
    PROVE  /\ nSlot' = nSlot + 1
           /\ DOMAIN slot' = DOMAIN slot \cup {nSlot + 1}
           /\ nSlot + 1 \notin DOMAIN slot
           /\ slot'[nSlot + 1] = [key |-> k, arg |-> a, prev |-> bucket[Hash[k]].tail, next |-> NULL]
           /\ \A s \in DOMAIN slot :
                /\ slot'[s].key = slot[s].key
                /\ slot'[s].arg = slot[s].arg
                /\ slot'[s].prev = slot[s].prev
                /\ slot'[s].next = IF s = bucket[Hash[k]].tail THEN nSlot + 1 ELSE slot[s].next
           /\ \A b \in Buckets \ {Hash[k]} : bucket'[b] = bucket[b]
           /\ bucket'[Hash[k]].size = bucket[Hash[k]].size + 1
           /\ bucket'[Hash[k]].tail = nSlot + 1
           /\ bucket'[Hash[k]].head = IF bucket[Hash[k]].tail = NULL THEN nSlot + 1
                                      ELSE bucket[Hash[k]].head
           /\ HashTypeOK'
<1> DEFINE b == Hash[k]
           l == bucket[b].tail
           q == nSlot + 1
<1>2. b \in Buckets /\ l \in Nat /\ q \in Nat
  BY HashAssumption, BucketAssumption DEF HashTypeOK, Buckets
<1>3. q \notin DOMAIN slot
  BY DEF HashTypeOK
<1>4. nSlot' = q
  BY DEF vchain_append, NewSlot
<1>5. slot' = [s \in DOMAIN slot \cup {q} |->
                 IF s = q THEN [key |-> k, arg |-> a, prev |-> l, next |-> NULL]
                 ELSE IF s = l THEN [slot[s] EXCEPT !.next = q]
                 ELSE slot[s]]
  BY DEF vchain_append, NewSlot
<1>6. bucket' = [bucket EXCEPT ![b] = [size |-> bucket[b].size + 1,
                                       head |-> IF l = NULL THEN q ELSE bucket[b].head,
                                       tail |-> q]]
  BY DEF vchain_append, NewSlot
<1>7. DOMAIN slot' = DOMAIN slot \cup {q}
  BY <1>5
<1>8. slot'[q] = [key |-> k, arg |-> a, prev |-> l, next |-> NULL]
  BY <1>5
<1>9. ASSUME NEW s \in DOMAIN slot
      PROVE  /\ slot'[s].key = slot[s].key
             /\ slot'[s].arg = slot[s].arg
             /\ slot'[s].prev = slot[s].prev
             /\ slot'[s].next = IF s = l THEN q ELSE slot[s].next
             /\ slot'[s] \in SlotType
  <2>1. s # q /\ slot[s] \in SlotType
    BY <1>3 DEF HashTypeOK
  <2>2. slot'[s] = IF s = l THEN [slot[s] EXCEPT !.next = q] ELSE slot[s]
    BY <1>5, <2>1
  <2> QED
    BY <1>2, <2>1, <2>2 DEF SlotType
<1>10. slot' \in [DOMAIN slot' -> SlotType]
  <2>1. slot'[q] \in SlotType
    BY <1>2, <1>8 DEF SlotType, NULL
  <2>2. \A s \in DOMAIN slot' : slot'[s] \in SlotType
    BY <1>7, <1>9, <2>1
  <2> QED
    BY <1>5, <1>7, <2>2
<1>11. HashTypeOK'
  <2>1. bucket' \in [Buckets -> [size : Int, head : Nat, tail : Nat]]
    BY <1>2, <1>6 DEF HashTypeOK
  <2>2. DOMAIN slot' \subseteq 1 .. nSlot'
    BY <1>4, <1>7 DEF HashTypeOK
  <2> QED
    BY <1>2, <1>4, <1>10, <2>1, <2>2 DEF HashTypeOK
<1>12. /\ \A c \in Buckets \ {b} : bucket'[c] = bucket[c]
       /\ bucket'[b].size = bucket[b].size + 1
       /\ bucket'[b].tail = q
       /\ bucket'[b].head = IF l = NULL THEN q ELSE bucket[b].head
  BY <1>2, <1>6 DEF HashTypeOK
<1> QED
  BY <1>3, <1>4, <1>7, <1>8, <1>9, <1>11, <1>12

(* vchain_append keeps every chain well linked. *)
LEMMA AppendWellLinked ==
    ASSUME HashTypeOK, WellLinked, NEW k \in Keys, NEW a \in Args, vchain_append(k, a)
    PROVE  WellLinked'
<1> DEFINE b == Hash[k]
           l == bucket[b].tail
<1>0. PICK q : q = nSlot + 1
  OBVIOUS
<1>1. b \in Buckets /\ l \in Nat /\ q \in Nat /\ q # NULL
  BY <1>0, HashAssumption, BucketAssumption DEF HashTypeOK, Buckets, NULL
<1>2. /\ DOMAIN slot' = DOMAIN slot \cup {q}
      /\ q \notin DOMAIN slot
      /\ slot'[q] = [key |-> k, arg |-> a, prev |-> l, next |-> NULL]
      /\ \A s \in DOMAIN slot :
           /\ slot'[s].key = slot[s].key
           /\ slot'[s].prev = slot[s].prev
           /\ slot'[s].next = IF s = l THEN q ELSE slot[s].next
      /\ \A c \in Buckets \ {b} : bucket'[c] = bucket[c]
      /\ bucket'[b].tail = q
      /\ bucket'[b].head = IF l = NULL THEN q ELSE bucket[b].head
  BY <1>0, AppendEffect
<1>3. \A s \in DOMAIN slot : s \in Nat \ {0} /\ s < q /\ BucketOf(s) \in Buckets
  BY <1>0, HashAssumption DEF HashTypeOK, BucketOf, Buckets, SlotType
<1>4. BucketOf(q)' = b /\ \A s \in DOMAIN slot : BucketOf(s)' = BucketOf(s)
  BY <1>2 DEF BucketOf
<1>5. Chain(b)' = Chain(b) \cup {q} /\ \A c \in Buckets \ {b} : Chain(c)' = Chain(c)
  BY <1>1, <1>2, <1>4 DEF Chain
<1>6. EndsOK(b)
  BY <1>1 DEF WellLinked
<1>7. ASSUME NEW c \in Buckets PROVE EndsOK(c)'
  <2>1. CASE c # b
    BY <2>1, <1>2, <1>5 DEF WellLinked, EndsOK
  <2>2. CASE c = b
    BY <2>2, <1>1, <1>2, <1>3, <1>5, <1>6 DEF EndsOK, Chain, NULL
  <2> QED
    BY <2>1, <2>2
<1>8. ASSUME NEW s \in DOMAIN slot' PROVE NextOK(s)' /\ PrevOK(s)'
  <2>1. CASE s = q
    <3>1. NextOK(s)'
      BY <2>1, <1>1, <1>2, <1>3, <1>4, <1>5 DEF NextOK, Chain, NULL
    <3>2. PrevOK(s)'
      BY <2>1, <1>1, <1>2, <1>3, <1>4, <1>5, <1>6 DEF PrevOK, EndsOK, Chain, NULL
    <3> QED
      BY <3>1, <3>2
  <2>2. CASE s \in DOMAIN slot /\ BucketOf(s) # b
    <3>1. Chain(BucketOf(s))' = Chain(BucketOf(s))
      BY <2>2, <1>3, <1>4, <1>5
    <3>2. s # l
      BY <2>2, <1>6, <1>3 DEF EndsOK, Chain, NULL
    <3>3. NextOK(s) /\ PrevOK(s)
      BY <2>2 DEF WellLinked
    <3> QED
      BY <2>2, <3>1, <3>2, <3>3, <1>2, <1>4 DEF NextOK, PrevOK
  <2>3. CASE s \in DOMAIN slot /\ BucketOf(s) = b
    <3>1. NextOK(s) /\ PrevOK(s)
      BY <2>3 DEF WellLinked
    <3>2. NextOK(s)'
      BY <2>3, <3>1, <1>1, <1>2, <1>3, <1>4, <1>5, <1>6 DEF NextOK, EndsOK, Chain, NULL
    <3>3. PrevOK(s)'
      BY <2>3, <3>1, <1>1, <1>2, <1>3, <1>4, <1>5 DEF PrevOK, Chain, NULL
    <3> QED
      BY <3>2, <3>3
  <2> QED
    BY <2>1, <2>2, <2>3, <1>2
<1> QED
  BY <1>7, <1>8 DEF WellLinked

(* What unlinking a slot changes, field by field. *)
LEMMA UnlinkEffect ==
    ASSUME HashTypeOK, NEW b \in Buckets, NEW z \in Chain(b), Unlink(b, z)
    PROVE  /\ nSlot' = nSlot
           /\ DOMAIN slot' = DOMAIN slot \ {z}
           /\ \A s \in DOMAIN slot \ {z} :
                /\ slot'[s].key = slot[s].key
                /\ slot'[s].arg = slot[s].arg
                /\ slot'[s].next = IF s = slot[z].prev THEN slot[z].next ELSE slot[s].next
                /\ slot'[s].prev = IF s = slot[z].next THEN slot[z].prev ELSE slot[s].prev
           /\ \A c \in Buckets \ {b} : bucket'[c] = bucket[c]
           /\ bucket'[b].size = bucket[b].size - 1
           /\ bucket'[b].head = IF slot[z].prev = NULL THEN slot[z].next ELSE bucket[b].head
           /\ bucket'[b].tail = IF slot[z].next = NULL THEN slot[z].prev ELSE bucket[b].tail
           /\ HashTypeOK'
<1>1. slot' = [s \in DOMAIN slot \ {z} |->
                 [slot[s] EXCEPT !.next = IF s = slot[z].prev THEN slot[z].next ELSE @,
                                 !.prev = IF s = slot[z].next THEN slot[z].prev ELSE @]]
  BY DEF Unlink, Bypass
<1>0. z \in DOMAIN slot
  BY DEF Chain
<1>2. bucket' = [bucket EXCEPT
                   ![b] = [size |-> bucket[b].size - 1,
                           head |-> IF slot[z].prev = NULL THEN slot[z].next ELSE bucket[b].head,
                           tail |-> IF slot[z].next = NULL THEN slot[z].prev ELSE bucket[b].tail]]
  BY DEF Unlink, BucketWithout
<1>3. nSlot' = nSlot /\ nSlot \in Nat
  BY DEF Unlink, HashTypeOK
<1>4. DOMAIN slot' = DOMAIN slot \ {z}
  BY <1>1
<1>5. slot[z] \in SlotType /\ slot[z].next \in Nat /\ slot[z].prev \in Nat
  BY <1>0 DEF HashTypeOK, SlotType
<1>6. ASSUME NEW s \in DOMAIN slot'
      PROVE  /\ slot'[s].key = slot[s].key
             /\ slot'[s].arg = slot[s].arg
             /\ slot'[s].next = IF s = slot[z].prev THEN slot[z].next ELSE slot[s].next
             /\ slot'[s].prev = IF s = slot[z].next THEN slot[z].prev ELSE slot[s].prev
             /\ slot'[s] \in SlotType
  <2>1. slot[s] \in SlotType
    BY <1>4 DEF HashTypeOK
  <2>2. slot'[s] = [slot[s] EXCEPT !.next = IF s = slot[z].prev THEN slot[z].next ELSE @,
                                   !.prev = IF s = slot[z].next THEN slot[z].prev ELSE @]
    BY <1>1, <1>4
  <2> QED
    BY <2>1, <2>2, <1>5 DEF SlotType
<1>7. slot' \in [DOMAIN slot' -> SlotType]
  BY <1>1, <1>4, <1>6
<1>8. bucket' \in [Buckets -> [size : Int, head : Nat, tail : Nat]]
  BY <1>2, <1>5 DEF HashTypeOK
<1>9. HashTypeOK'
  BY <1>3, <1>4, <1>7, <1>8 DEF HashTypeOK
<1>10. /\ \A c \in Buckets \ {b} : bucket'[c] = bucket[c]
       /\ bucket'[b].size = bucket[b].size - 1
       /\ bucket'[b].head = IF slot[z].prev = NULL THEN slot[z].next ELSE bucket[b].head
       /\ bucket'[b].tail = IF slot[z].next = NULL THEN slot[z].prev ELSE bucket[b].tail
  BY <1>2 DEF HashTypeOK
<1> QED
  BY <1>3, <1>4, <1>6, <1>9, <1>10

(* Unlinking a slot of a bucket keeps every chain well linked. *)
LEMMA UnlinkWellLinked ==
    ASSUME HashTypeOK, WellLinked, NEW b \in Buckets, NEW z \in Chain(b), Unlink(b, z)
    PROVE  WellLinked'
<1>1. z \in DOMAIN slot /\ BucketOf(z) = b
  BY DEF Chain
<1>2. /\ DOMAIN slot' = DOMAIN slot \ {z}
      /\ \A s \in DOMAIN slot \ {z} :
           /\ slot'[s].key = slot[s].key
           /\ slot'[s].next = IF s = slot[z].prev THEN slot[z].next ELSE slot[s].next
           /\ slot'[s].prev = IF s = slot[z].next THEN slot[z].prev ELSE slot[s].prev
      /\ \A c \in Buckets \ {b} : bucket'[c] = bucket[c]
      /\ bucket'[b].head = IF slot[z].prev = NULL THEN slot[z].next ELSE bucket[b].head
      /\ bucket'[b].tail = IF slot[z].next = NULL THEN slot[z].prev ELSE bucket[b].tail
  BY UnlinkEffect
<1>3. \A s \in DOMAIN slot : s \in Nat \ {0} /\ BucketOf(s) \in Buckets
  BY HashAssumption DEF HashTypeOK, BucketOf, Buckets, SlotType
<1>4. \A s \in DOMAIN slot' : BucketOf(s)' = BucketOf(s)
  BY <1>2 DEF BucketOf
<1>5. Chain(b)' = Chain(b) \ {z} /\ \A c \in Buckets \ {b} : Chain(c)' = Chain(c)
  BY <1>1, <1>2, <1>4 DEF Chain
<1>6. EndsOK(b) /\ NextOK(z) /\ PrevOK(z)
  BY <1>1 DEF WellLinked
<1>7. ASSUME NEW c \in Buckets PROVE EndsOK(c)'
  <2>1. CASE c # b
    BY <2>1, <1>2, <1>5 DEF WellLinked, EndsOK
  <2>2. CASE c = b
    BY <2>2, <1>1, <1>2, <1>3, <1>5, <1>6 DEF EndsOK, NextOK, PrevOK, Chain, NULL
  <2> QED
    BY <2>1, <2>2
<1>8. ASSUME NEW s \in DOMAIN slot' PROVE NextOK(s)' /\ PrevOK(s)'
  <2>0. NextOK(s) /\ PrevOK(s) /\ s \in DOMAIN slot
    BY <1>2 DEF WellLinked
  <2>1. CASE BucketOf(s) # b
    <3>1. Chain(BucketOf(s))' = Chain(BucketOf(s))
      BY <2>0, <2>1, <1>3, <1>4, <1>5
    <3>2. s # slot[z].next /\ s # slot[z].prev
      BY <2>0, <2>1, <1>1, <1>3, <1>6 DEF NextOK, PrevOK, Chain, NULL
    <3> QED
      BY <2>0, <3>1, <3>2, <1>2, <1>4 DEF NextOK, PrevOK
  <2>2. CASE BucketOf(s) = b
    <3>1. NextOK(s)'
      BY <2>0, <2>2, <1>1, <1>2, <1>3, <1>4, <1>5, <1>6 DEF NextOK, PrevOK, Chain, NULL
    <3>2. PrevOK(s)'
      BY <2>0, <2>2, <1>1, <1>2, <1>3, <1>4, <1>5, <1>6 DEF NextOK, PrevOK, Chain, NULL
    <3> QED
      BY <3>1, <3>2
  <2> QED
    BY <2>1, <2>2
<1> QED
  BY <1>7, <1>8 DEF WellLinked

------------------------------------------------------------------------------
(* Slots are numbered, and every slot has its bucket. *)
LEMMA SlotFacts ==
    ASSUME HashTypeOK
    PROVE  \A s \in DOMAIN slot : s \in Nat \ {0} /\ BucketOf(s) \in Buckets
BY HashAssumption DEF HashTypeOK, BucketOf, Buckets, SlotType

(* Adding a new member to a finite set, taking one away. *)
LEMMA CardinalityAdd ==
    ASSUME NEW S, IsFiniteSet(S), NEW x, x \notin S
    PROVE  IsFiniteSet(S \cup {x}) /\ Cardinality(S \cup {x}) = Cardinality(S) + 1
<1>1. /\ IsFiniteSet(S \cup {x})
      /\ Cardinality(S \cup {x}) = IF x \in S THEN Cardinality(S) ELSE Cardinality(S) + 1
  BY FS_AddElement
<1> QED
  BY <1>1

LEMMA CardinalityRemove ==
    ASSUME NEW S, IsFiniteSet(S), NEW x \in S
    PROVE  IsFiniteSet(S \ {x}) /\ Cardinality(S \ {x}) = Cardinality(S) - 1
<1>1. /\ IsFiniteSet(S \ {x})
      /\ Cardinality(S \ {x}) = IF x \in S THEN Cardinality(S) - 1 ELSE Cardinality(S)
  BY FS_RemoveElement
<1> QED
  BY <1>1

LEMMA CardinalityDisjoint ==
    ASSUME NEW S, NEW T, IsFiniteSet(S), IsFiniteSet(T), S \cap T = {}
    PROVE  Cardinality(S \cup T) = Cardinality(S) + Cardinality(T)
<1>1. Cardinality(S) \in Nat /\ Cardinality(T) \in Nat /\ Cardinality({}) = 0
  BY FS_CardinalityType, FS_EmptySet
<1>2. Cardinality(S \cup T) = Cardinality(S) + Cardinality(T) - Cardinality(S \cap T)
  BY FS_Union
<1>3. Cardinality(S \cap T) = Cardinality({})
  BY Zenon
<1> QED
  BY <1>1, <1>2, <1>3

(* vchain_append counts the slot it adds. *)
LEMMA AppendSizes ==
    ASSUME HashTypeOK, SizesExact, IsFiniteSet(DOMAIN slot),
           NEW k \in Keys, NEW a \in Args, vchain_append(k, a)
    PROVE  SizesExact'
<1> DEFINE b == Hash[k]
<1>0. PICK q : q = nSlot + 1
  OBVIOUS
<1>1. /\ DOMAIN slot' = DOMAIN slot \cup {q}
      /\ q \notin DOMAIN slot
      /\ slot'[q] = [key |-> k, arg |-> a, prev |-> bucket[b].tail, next |-> NULL]
      /\ \A s \in DOMAIN slot : slot'[s].key = slot[s].key
      /\ \A c \in Buckets \ {b} : bucket'[c] = bucket[c]
      /\ bucket'[b].size = bucket[b].size + 1
  BY <1>0, AppendEffect
<1>2. BucketOf(q)' = b /\ \A s \in DOMAIN slot : BucketOf(s)' = BucketOf(s)
  BY <1>1 DEF BucketOf
<1>3. b \in Buckets
  BY HashAssumption DEF Buckets
<1>4. Chain(b)' = Chain(b) \cup {q} /\ q \notin Chain(b)
  BY <1>1, <1>2 DEF Chain
<1>5. \A c \in Buckets \ {b} : Chain(c)' = Chain(c)
  BY <1>1, <1>2 DEF Chain
<1>6. IsFiniteSet(Chain(b))
  BY FS_Subset DEF Chain
<1>7. Cardinality(Chain(b)') = Cardinality(Chain(b)) + 1
  BY <1>4, <1>6, CardinalityAdd
<1>8. ASSUME NEW c \in Buckets PROVE bucket'[c].size = Cardinality(Chain(c)')
  <2>1. CASE c = b
    BY <1>1, <1>3, <1>7, <2>1 DEF SizesExact
  <2>2. CASE c # b
    BY <1>1, <1>5, <2>2 DEF SizesExact
  <2> QED
    BY <2>1, <2>2
<1> QED
  BY <1>8 DEF SizesExact

(* So do the loops that unlink a slot. *)
LEMMA UnlinkSizes ==
    ASSUME HashTypeOK, SizesExact, IsFiniteSet(DOMAIN slot),
           NEW b \in Buckets, NEW q \in Chain(b), Unlink(b, q)
    PROVE  SizesExact'
<1>1. /\ DOMAIN slot' = DOMAIN slot \ {q}
      /\ \A s \in DOMAIN slot \ {q} : slot'[s].key = slot[s].key
      /\ \A c \in Buckets \ {b} : bucket'[c] = bucket[c]
      /\ bucket'[b].size = bucket[b].size - 1
  BY UnlinkEffect
<1>2. \A s \in DOMAIN slot' : BucketOf(s)' = BucketOf(s)
  BY <1>1 DEF BucketOf
<1>4. Chain(b)' = Chain(b) \ {q}
  BY <1>1, <1>2 DEF Chain
<1>5. \A c \in Buckets \ {b} : Chain(c)' = Chain(c)
  BY <1>1, <1>2 DEF Chain
<1>6. IsFiniteSet(Chain(b))
  BY FS_Subset DEF Chain
<1>7. Cardinality(Chain(b)') = Cardinality(Chain(b)) - 1
  BY <1>4, <1>6, CardinalityRemove
<1>8. ASSUME NEW c \in Buckets PROVE bucket'[c].size = Cardinality(Chain(c)')
  <2>1. CASE c = b
    BY <1>1, <1>7, <2>1 DEF SizesExact
  <2>2. CASE c # b
    BY <1>1, <1>5, <2>2 DEF SizesExact
  <2> QED
    BY <2>1, <2>2
<1> QED
  BY <1>8 DEF SizesExact

------------------------------------------------------------------------------
(* The program. *)

LEMMA InitInvariant == Init => IndInv
<1> SUFFICES ASSUME Init PROVE IndInv
  OBVIOUS
<1> USE DEF Init, EmptyTable, NULL, Free, Buckets
<1>1. DOMAIN slot = {} /\ DOMAIN entry = {}
  OBVIOUS
<1>2. HashTypeOK
  BY <1>1 DEF HashTypeOK
<1>3. TypeOK
  BY <1>1, <1>2, BucketAssumption, RoundsAssumption, NoneAssumption DEF TypeOK, Following
<1>4. WellLinked
  BY <1>1 DEF WellLinked, EndsOK, Chain
<1>5. ThreadsOK /\ MutexHeld /\ SearchExact /\ AddressesFresh
  BY <1>1 DEF ThreadsOK, MutexHeld, SearchExact, AddressesFresh, Searching, Threads
<1>6. MainItemOK /\ MainSlotOK /\ RestWellLinked /\ UniqueKeys
  BY <1>1 DEF MainItemOK, MainSlotOK, RestWellLinked, UniqueKeys, KeysUnique
<1>7. NoDanglingSlot /\ OneOwner
  BY <1>1 DEF NoDanglingSlot, OneOwner, Searching, Holds
<1> QED
  BY <1>3, <1>4, <1>5, <1>6, <1>7 DEF IndInv, ChainsWellLinked

(* The phases main goes through. *)
LEMMA PhaseNames ==
    DOMAIN Following \cup {"create", "join", "destroy", "end"} =
      {"print1", "size1", "filter", "size2", "print2", "create", "join", "destroy", "end"}
BY DEF Following

(* The positions main's loops take are positions. *)
LEMMA CursorType ==
    ASSUME TypeOK
    PROVE  /\ Start \in [b : 0 .. nMaxBucket, p : Nat, pArg : Args \cup {NoArg}]
           /\ cur.b < nMaxBucket =>
                NextBucket \in [b : 0 .. nMaxBucket, p : Nat, pArg : Args \cup {NoArg}]
<1>1. 0 \in Buckets /\ bucket[0].head \in Nat
  BY BucketAssumption DEF TypeOK, HashTypeOK, Buckets
<1>2. Start \in [b : 0 .. nMaxBucket, p : Nat, pArg : Args \cup {NoArg}]
  BY <1>1, BucketAssumption DEF Start
<1>3. ASSUME cur.b < nMaxBucket
      PROVE  NextBucket \in [b : 0 .. nMaxBucket, p : Nat, pArg : Args \cup {NoArg}]
  <2>1. cur.b + 1 \in 0 .. nMaxBucket
    BY <1>3, BucketAssumption DEF TypeOK
  <2>2. cur.b + 1 < nMaxBucket => bucket[cur.b + 1].head \in Nat
    BY <2>1, BucketAssumption DEF TypeOK, HashTypeOK, Buckets
  <2> QED
    BY <2>1, <2>2 DEF NextBucket, NULL
<1> QED
  BY <1>2, <1>3

(* Every step keeps the types. *)
LEMMA StepTypeOK == ASSUME IndInv, [Next]_vars PROVE TypeOK'
<1> USE DEF IndInv
<1>0. /\ HashTypeOK /\ memUsage \in Int /\ mutex \in Threads \cup {Free}
      /\ DOMAIN entry \subseteq Args /\ entry \in [DOMAIN entry -> EntryType]
  BY DEF TypeOK
<1>1. ASSUME NEW t \in Threads, NEW k \in Keys, NEW id \in Draws[t], Create(t, k, id)
      PROVE  TypeOK'
  <2>1. e(t) \in Args
    BY ArgsAssumption DEF TypeOK, e
  <2>2. [uid |-> k, id |-> id] \in EntryType
    BY DrawsAssumption DEF EntryType
  <2>3. DOMAIN entry' = DOMAIN entry \cup {e(t)}
    BY <1>1 DEF Create, uidEntry_create, MoreRounds
  <2>4. entry' \in [DOMAIN entry' -> EntryType]
    BY <1>0, <1>1, <2>2, <2>3 DEF Create, uidEntry_create, MoreRounds
  <2>5. memUsage' \in Int
    BY <1>0, <1>1 DEF Create, uidEntry_create, MoreRounds, vc_malloc, EntrySize
  <2>6. HashTypeOK'
    BY <1>0, <1>1 DEF Create, uidEntry_create, MoreRounds, HashTypeOK
  <2> QED
    BY <1>0, <1>1, <2>1, <2>3, <2>4, <2>5, <2>6 DEF TypeOK, Create, uidEntry_create, MoreRounds, Goto
<1>2. ASSUME NEW t \in Threads, NEW k \in Keys, Pick(t, k) PROVE TypeOK'
  BY <1>2 DEF TypeOK, HashTypeOK, Pick, MoreRounds, Goto
<1>3. ASSUME NEW t \in Threads, Lock(t) PROVE TypeOK'
  <2>1. buf[t] \in Keys
    BY <1>3 DEF ThreadsOK, Lock, vhashtable_lock
  <2>2. Head(buf[t]) \in Nat
    BY <1>0, <2>1, HashAssumption DEF Head, HashTypeOK, Buckets
  <2> QED
    BY <1>3, <2>2 DEF TypeOK, HashTypeOK, Lock, vhashtable_lock, Goto
<1>4. ASSUME NEW t \in Threads, Walk(t) PROVE TypeOK'
  <2>1. slot[p[t]].next \in Nat
    BY <1>0, <1>4 DEF Walk, NoDanglingSlot, HashTypeOK, SlotType
  <2> QED
    BY <1>4, <2>1 DEF TypeOK, HashTypeOK, Walk
<1>5. ASSUME NEW t \in Threads, Store(t) PROVE TypeOK'
  <2>1. e(t) \in Args /\ buf[t] \in Keys
    BY <1>5, ArgsAssumption DEF TypeOK, ThreadsOK, Store, Missed, Searching, e
  <2>2. HashTypeOK'
    BY <1>0, <1>5, <2>1, AppendEffect DEF Store
  <2>3. memUsage' \in Int
    BY <1>0, <1>5 DEF Store, vchain_append, vc_malloc, SlotSize
  <2> QED
    BY <1>5, <2>2, <2>3 DEF TypeOK, Store, Goto
<1>6. ASSUME NEW t \in Threads, Reject(t) PROVE TypeOK'
  <2>1. memUsage' \in Int
    BY <1>0, <1>6 DEF Reject, uidEntry_destroy, vc_free, EntrySize
  <2>2. DOMAIN entry' \subseteq Args /\ entry' \in [DOMAIN entry' -> EntryType]
    BY <1>0, <1>6 DEF Reject, uidEntry_destroy
  <2> QED
    BY <1>6, <2>1, <2>2 DEF TypeOK, HashTypeOK, Reject, Goto, NULL
<1>7. ASSUME NEW t \in Threads, Pop(t) PROVE TypeOK'
  <2>1. buf[t] \in Keys /\ Hash[buf[t]] \in Buckets
    BY <1>7, HashAssumption DEF ThreadsOK, Pop, Hit, Searching, Buckets
  <2>2. p[t] \in Chain(Hash[buf[t]])
    BY <1>7 DEF NoDanglingSlot, Pop, Hit, Chain
  <2>3. HashTypeOK'
    BY <1>0, <1>7, <2>1, <2>2, UnlinkEffect DEF Pop
  <2>4. memUsage' \in Int
    BY <1>0, <1>7 DEF Pop, Unlink, vc_free, SlotSize
  <2>5. slot[p[t]].arg \in Args
    BY <1>0, <2>2 DEF Chain, HashTypeOK, SlotType
  <2> QED
    BY <1>7, <2>3, <2>4, <2>5 DEF TypeOK, Pop, Goto, NULL
<1>8. ASSUME NEW t \in Threads, Dtor(t) PROVE TypeOK'
  <2>1. memUsage' \in Int
    BY <1>0, <1>8 DEF Dtor, uidEntry_destroy, vc_free, EntrySize
  <2>2. DOMAIN entry' \subseteq Args /\ entry' \in [DOMAIN entry' -> EntryType]
    BY <1>0, <1>8 DEF Dtor, uidEntry_destroy
  <2> QED
    BY <1>8, <2>1, <2>2 DEF TypeOK, HashTypeOK, Dtor, Goto
<1>9. ASSUME NEW t \in Threads, NotFound(t) PROVE TypeOK'
  BY <1>9 DEF TypeOK, HashTypeOK, NotFound, Goto
<1>10. ASSUME NEW t \in Threads, Unlock(t) PROVE TypeOK'
  <2>1. i[t] \in 0 .. Rounds /\ i[t] + 1 \in 0 .. Rounds
    BY <1>10, RoundsAssumption DEF TypeOK, ThreadsOK, Unlock, vhashtable_unlock
  <2> QED
    BY <1>10, <2>1 DEF TypeOK, HashTypeOK, Unlock, vhashtable_unlock, Goto
<1>11. CASE CreateTable
  BY <1>0, <1>11, PhaseNames, BucketAssumption
     DEF TypeOK, HashTypeOK, CreateTable, hashVars, threadVars, vc_malloc, TableSize, BucketSize
<1>12. CASE Join
  BY <1>12, PhaseNames, CursorType DEF TypeOK, HashTypeOK, Join, hashVars, threadVars
<1>13. CASE PrintEntry \/ FilterKeep
  <2>1. slot[cur.p].next \in Nat
    BY <1>0, <1>13 DEF PrintEntry, FilterKeep, AtSlot, NoDanglingSlot, HashTypeOK, SlotType
  <2> QED
    BY <1>13, <2>1 DEF TypeOK, HashTypeOK, PrintEntry, FilterKeep, hashVars, threadVars
<1>14. CASE Sum
  <2>1. bucket[cur.b].size \in Int
    BY <1>14, BucketAssumption DEF TypeOK, HashTypeOK, Sum, Buckets
  <2> QED
    BY <1>14, <2>1, CursorType DEF TypeOK, HashTypeOK, Sum, hashVars, threadVars
<1>15. CASE FilterOut
  <2>1. cur.b \in Buckets /\ cur.p \in Chain(cur.b)
    BY <1>15, BucketAssumption DEF TypeOK, FilterOut, AtSlot, NoDanglingSlot, Chain, Buckets
  <2>2. HashTypeOK'
    BY <1>0, <1>15, <2>1, UnlinkEffect DEF FilterOut
  <2>3. slot[cur.p].next \in Nat /\ slot[cur.p].arg \in Args
    BY <1>0, <2>1 DEF Chain, HashTypeOK, SlotType
  <2>4. memUsage' \in Int
    BY <1>0, <1>15 DEF FilterOut, Unlink, vc_free, SlotSize
  <2> QED
    BY <1>15, <2>2, <2>3, <2>4 DEF TypeOK, FilterOut, threadVars
<1>16. CASE FilterDtor
  <2>1. memUsage' \in Int
    BY <1>0, <1>16 DEF FilterDtor, uidEntry_destroy, vc_free, EntrySize
  <2>2. DOMAIN entry' \subseteq Args /\ entry' \in [DOMAIN entry' -> EntryType]
    BY <1>0, <1>16 DEF FilterDtor, uidEntry_destroy
  <2> QED
    BY <1>16, <2>1, <2>2 DEF TypeOK, HashTypeOK, FilterDtor, hashVars, threadVars
<1>17. CASE ClearItem
  <2>1. memUsage' \in Int
    BY <1>0, <1>17 DEF ClearItem, uidEntry_destroy, vc_free, EntrySize
  <2>2. DOMAIN entry' \subseteq Args /\ entry' \in [DOMAIN entry' -> EntryType]
    BY <1>0, <1>17 DEF ClearItem, uidEntry_destroy
  <2>3. slot[cur.p].arg \in Args
    BY <1>0, <1>17 DEF ClearItem, AtSlot, NoDanglingSlot, HashTypeOK, SlotType
  <2> QED
    BY <1>17, <2>1, <2>2, <2>3 DEF TypeOK, HashTypeOK, ClearItem, hashVars, threadVars
<1>18. CASE ClearSlot
  <2>1. memUsage' \in Int
    BY <1>0, <1>18 DEF ClearSlot, vslot_destroy, vc_free, SlotSize
  <2>2. slot[cur.p].next \in Nat
    BY <1>0, <1>18 DEF ClearSlot, AtSlot, NoDanglingSlot, HashTypeOK, SlotType
  <2>3. HashTypeOK'
    BY <1>0, <1>18 DEF ClearSlot, vslot_destroy, HashTypeOK
  <2> QED
    BY <1>18, <2>1, <2>2, <2>3 DEF TypeOK, ClearSlot, threadVars
<1>19. CASE ClearBucket
  <2>1. HashTypeOK'
    BY <1>0, <1>19 DEF ClearBucket, ResetBucket, HashTypeOK, NULL
  <2> QED
    BY <1>19, <2>1, CursorType DEF TypeOK, ClearBucket, ResetBucket, AtBucketEnd, threadVars
<1>20. CASE Advance
  BY <1>20, CursorType DEF TypeOK, HashTypeOK, Advance, AtBucketEnd, hashVars, threadVars
<1>21. CASE Leave
  <2>1. phase' \in DOMAIN Following \cup {"create", "join", "destroy", "end"}
    BY <1>21 DEF Leave, Following
  <2> QED
    BY <1>21, <2>1, CursorType DEF TypeOK, HashTypeOK, Leave, hashVars, threadVars
<1>22. CASE FreeTable
  BY <1>0, <1>22, PhaseNames, BucketAssumption
     DEF TypeOK, HashTypeOK, FreeTable, hashVars, threadVars, vc_free, TableSize, BucketSize
<1>23. CASE UNCHANGED vars
  BY <1>23 DEF TypeOK, HashTypeOK, vars
<1> QED
  BY <1>1, <1>2, <1>3, <1>4, <1>5, <1>6, <1>7, <1>8, <1>9, <1>10, <1>11, <1>12, <1>13,
     <1>14, <1>15, <1>16, <1>17, <1>18, <1>19, <1>20, <1>21, <1>22, <1>23
     DEF Next, Main, Thread, Exited

(* A step of main changes no variable of the threads but the mutex's, and  *)
(* main only leaves the joining phase when they have ended.                *)
LEMMA MainFrame ==
    ASSUME Main, IndInv
    PROVE  /\ UNCHANGED <<mutex, pc, i, buf, p, pArg, ret>>
           /\ phase = "create" \/ \A t \in Threads : Ended(t)
           /\ phase' = "create" => FALSE
           /\ phase' = "join" <=> phase = "create"
<1> USE DEF Main, CreateTable, Join, PrintEntry, Sum, FilterOut, FilterDtor, FilterKeep, ClearItem,
            ClearSlot, ClearBucket, Advance, Leave, FreeTable, Printing, Summing, Following,
            threadVars
<1>1. UNCHANGED <<mutex, pc, i, buf, p, pArg, ret>>
  OBVIOUS
<1>2. phase = "create" \/ \A t \in Threads : Ended(t)
  BY DEF IndInv, ThreadsOK
<1>3. (phase' = "create" => FALSE) /\ (phase' = "join" <=> phase = "create")
  OBVIOUS
<1> QED
  BY <1>1, <1>2, <1>3

(* Every step keeps what a thread's pc says of its variables, and gives    *)
(* the mutex to one thread at a time.                                      *)
LEMMA StepThreads == ASSUME IndInv, [Next]_vars PROVE ThreadsOK' /\ MutexHeld'
<1> USE DEF IndInv
<1>0. /\ pc \in [Threads -> {"idle", "lock", "search", "dtor", "unlock"}]
      /\ i \in [Threads -> 0 .. Rounds]
      /\ buf \in [Threads -> Keys \cup {NoName}]
      /\ p \in [Threads -> Nat]
      /\ pArg \in [Threads -> Args \cup {NoArg}]
      /\ mutex \in Threads \cup {Free}
      /\ ThreadsOK /\ MutexHeld
  BY DEF TypeOK
<1>f. Free \notin Threads
  BY NumAssumption DEF Free, Threads
<1>1. ASSUME NEW t \in Threads, Thread(t) PROVE ThreadsOK' /\ MutexHeld'
  <2>1. phase = "join" /\ phase' = "join"
    BY <1>0, <1>1 DEF ThreadsOK, Ended, Thread, Create, uidEntry_create, MoreRounds, Pick, Lock, vhashtable_lock, Walk, Store, Reject, Pop,
                      Dtor, NotFound, Unlock, vhashtable_unlock, Missed, Hit, Searching
  <2>2. ASSUME NEW u \in Threads, u # t
        PROVE  /\ pc'[u] = pc[u] /\ i'[u] = i[u] /\ buf'[u] = buf[u]
               /\ p'[u] = p[u] /\ pArg'[u] = pArg[u]
    BY <1>0, <1>1, <2>2 DEF Thread, Create, uidEntry_create, MoreRounds, Pick, Lock, vhashtable_lock, Walk, Store, Reject, Pop, Dtor, NotFound,
                            Unlock, vhashtable_unlock, Goto
  <2> DEFINE MyOK == /\ pc'[t] # "idle" => buf'[t] \in Keys /\ i'[t] < Rounds
                     /\ pc'[t] = "dtor" => ~Adder(t)
                     /\ pc'[t] = "dtor" <=> pArg'[t] # NoArg
                     /\ p'[t] # NULL => pc'[t] = "search"
             MyMutex == /\ pc'[t] \in {"search", "dtor", "unlock"} => mutex' = t
                        /\ pc'[t] \notin {"search", "dtor", "unlock"} => mutex' \in {mutex, Free} \ {t}
                        /\ \A u \in Threads \ {t} : mutex' = u <=> mutex = u
  <2>3. MyOK /\ MyMutex
    <3> USE <1>0, <1>f DEF ThreadsOK, MutexHeld, Searching
    <3>1. ASSUME NEW k \in Keys, NEW id \in Draws[t], Create(t, k, id) PROVE MyOK /\ MyMutex
      BY <3>1 DEF Create, uidEntry_create, MoreRounds, Goto
    <3>2. ASSUME NEW k \in Keys, Pick(t, k) PROVE MyOK /\ MyMutex
      BY <3>2 DEF Pick, MoreRounds, Goto
    <3>3. CASE Lock(t)
      BY <3>3 DEF Lock, vhashtable_lock, Goto
    <3>4. CASE Walk(t)
      BY <3>4 DEF Walk
    <3>5. CASE Store(t)
      BY <3>5 DEF Store, Missed, Goto
    <3>6. CASE Reject(t)
      BY <3>6 DEF Reject, Hit, Goto
    <3>7. CASE Pop(t)
      <4>1. slot[p[t]].arg # NoArg
        BY <3>7, NoneAssumption DEF Pop, Hit, NoDanglingSlot, TypeOK, HashTypeOK, SlotType
      <4> QED
        BY <3>7, <4>1 DEF Pop, Hit, Goto
    <3>8. CASE Dtor(t)
      BY <3>8 DEF Dtor, Goto
    <3>9. CASE NotFound(t)
      BY <3>9 DEF NotFound, Missed, Goto
    <3>10. CASE Unlock(t)
      BY <3>10 DEF Unlock, vhashtable_unlock, Goto
    <3> QED
      BY <1>1, <3>1, <3>2, <3>3, <3>4, <3>5, <3>6, <3>7, <3>8, <3>9, <3>10 DEF Thread
  <2>4. ThreadsOK'
    BY <1>0, <2>1, <2>2, <2>3 DEF ThreadsOK, Searching
  <2>5. MutexHeld'
    BY <1>0, <1>f, <2>2, <2>3 DEF MutexHeld
  <2> QED
    BY <2>4, <2>5
<1>2. CASE Main
  BY <1>0, <1>2, MainFrame DEF ThreadsOK, MutexHeld, Searching, Ended
<1>3. CASE UNCHANGED vars
  BY <1>0, <1>3 DEF vars, ThreadsOK, MutexHeld, Searching, Ended
<1> QED
  BY <1>1, <1>2, <1>3 DEF Next, Exited

(* Every step keeps the addresses of rounds to come unused. *)
LEMMA StepAddresses == ASSUME IndInv, [Next]_vars PROVE AddressesFresh'
<1> USE DEF IndInv
<1>0. /\ pc \in [Threads -> {"idle", "lock", "search", "dtor", "unlock"}]
      /\ i \in [Threads -> 0 .. Rounds]
      /\ AddressesFresh
  BY DEF TypeOK
<1>1. ASSUME NEW t \in Threads, Thread(t) PROVE AddressesFresh'
  <2>1. ASSUME NEW k \in Keys, NEW id \in Draws[t], Create(t, k, id) PROVE AddressesFresh'
    <3>1. DOMAIN entry' = DOMAIN entry \cup {<<t, i[t]>>}
      BY <2>1 DEF Create, uidEntry_create, MoreRounds, e
    <3>2. pc'[t] = "lock" /\ i' = i /\ pc[t] = "idle" /\ \A u \in Threads \ {t} : pc'[u] = pc[u]
      BY <1>0, <2>1 DEF Create, uidEntry_create, MoreRounds, Goto
    <3> QED
      BY <1>0, <3>1, <3>2 DEF AddressesFresh, Reached
  <2>2. CASE DOMAIN entry' \subseteq DOMAIN entry /\ i' = i /\ pc[t] # "idle" /\ pc'[t] # "idle"
             /\ \A u \in Threads \ {t} : pc'[u] = pc[u]
    BY <1>0, <2>2 DEF AddressesFresh, Reached
  <2>3. CASE \E k \in Keys : Pick(t, k)
    BY <1>0, <2>3 DEF AddressesFresh, Reached, Pick, MoreRounds, Goto
  <2>4. CASE Unlock(t)
    <3>1. i'[t] = i[t] + 1 /\ entry' = entry /\ \A u \in Threads \ {t} : i'[u] = i[u] /\ pc'[u] = pc[u]
      BY <1>0, <2>4 DEF Unlock, vhashtable_unlock, Goto
    <3> QED
      BY <1>0, <3>1 DEF AddressesFresh, Reached
  <2> QED
    BY <1>0, <1>1, <2>1, <2>2, <2>3, <2>4
       DEF Thread, Lock, vhashtable_lock, Walk, Store, Reject, Pop, Dtor, NotFound, Missed, Hit, Searching,
           uidEntry_destroy, Goto
<1>2. CASE Main
  <2>1. DOMAIN entry' \subseteq DOMAIN entry
    BY <1>2 DEF Main, CreateTable, Join, PrintEntry, Sum, FilterOut, FilterDtor, FilterKeep,
                ClearItem, ClearSlot, ClearBucket, Advance, Leave, FreeTable, uidEntry_destroy
  <2> QED
    BY <1>0, <1>2, <2>1, MainFrame DEF AddressesFresh, Reached
<1>3. CASE UNCHANGED vars
  BY <1>0, <1>3 DEF vars, AddressesFresh, Reached
<1> QED
  BY <1>1, <1>2, <1>3 DEF Next, Exited

(* An insert that finds nothing under the mutex keeps the keys unique and  *)
(* the chains well linked.                                                 *)
LEMMA StoreTable ==
    ASSUME IndInv, NEW t \in Threads, Store(t)
    PROVE  /\ buf[t] \in Keys /\ e(t) \in Args
           /\ WellLinked' /\ KeysUnique'
           /\ DOMAIN slot' = DOMAIN slot \cup {nSlot + 1}
           /\ nSlot + 1 \notin DOMAIN slot
           /\ slot'[nSlot + 1].key = buf[t] /\ slot'[nSlot + 1].arg = e(t)
           /\ \A s \in DOMAIN slot : slot'[s].key = slot[s].key /\ slot'[s].arg = slot[s].arg
<1> USE DEF IndInv
<1>1. buf[t] \in Keys /\ e(t) \in Args
  BY ArgsAssumption DEF TypeOK, ThreadsOK, Store, Missed, Searching, e
<1>2. HashTypeOK /\ vchain_append(buf[t], e(t))
  BY DEF TypeOK, Store
<1>3. phase = "join"
  BY DEF ThreadsOK, Store, Missed, Searching, Ended
<1>4. WellLinked
  BY <1>3 DEF ChainsWellLinked
<1>5. WellLinked'
  BY <1>1, <1>2, <1>4, AppendWellLinked
<1>6. /\ DOMAIN slot' = DOMAIN slot \cup {nSlot + 1}
      /\ nSlot + 1 \notin DOMAIN slot
      /\ slot'[nSlot + 1] = [key |-> buf[t], arg |-> e(t), prev |-> bucket[Hash[buf[t]]].tail, next |-> NULL]
      /\ \A s \in DOMAIN slot : slot'[s].key = slot[s].key /\ slot'[s].arg = slot[s].arg
  BY <1>1, <1>2, AppendEffect
<1>7. \A s \in DOMAIN slot : slot[s].key # buf[t]
  BY DEF Store, Missed, SearchExact, Chain, BucketOf
<1>8. KeysUnique'
  BY <1>6, <1>7 DEF UniqueKeys, KeysUnique
<1> QED
  BY <1>1, <1>5, <1>6, <1>8

(* A delete that finds its key under the mutex keeps them so too. *)
LEMMA PopTable ==
    ASSUME IndInv, NEW t \in Threads, Pop(t)
    PROVE  /\ p[t] \in Chain(Hash[buf[t]]) /\ buf[t] \in Keys
           /\ WellLinked' /\ KeysUnique'
           /\ DOMAIN slot' = DOMAIN slot \ {p[t]}
           /\ \A s \in DOMAIN slot \ {p[t]} : slot'[s].key = slot[s].key /\ slot'[s].arg = slot[s].arg
<1> USE DEF IndInv
<1>1. buf[t] \in Keys /\ Hash[buf[t]] \in Buckets
  BY HashAssumption DEF ThreadsOK, Pop, Hit, Searching, Buckets
<1>2. p[t] \in Chain(Hash[buf[t]])
  BY DEF NoDanglingSlot, Pop, Hit, Chain
<1>3. HashTypeOK /\ Unlink(Hash[buf[t]], p[t])
  BY DEF TypeOK, Pop
<1>4. WellLinked
  BY DEF ThreadsOK, Pop, Hit, Searching, Ended, ChainsWellLinked
<1>5. WellLinked'
  BY <1>1, <1>2, <1>3, <1>4, UnlinkWellLinked
<1>6. /\ DOMAIN slot' = DOMAIN slot \ {p[t]}
      /\ \A s \in DOMAIN slot \ {p[t]} : slot'[s].key = slot[s].key /\ slot'[s].arg = slot[s].arg
  BY <1>1, <1>2, <1>3, UnlinkEffect
<1>7. KeysUnique'
  BY <1>6 DEF UniqueKeys, KeysUnique
<1> QED
  BY <1>1, <1>2, <1>5, <1>6, <1>7

(* So does the filter of main. *)
LEMMA FilterTable ==
    ASSUME IndInv, FilterOut
    PROVE  /\ cur.b \in Buckets /\ cur.p \in Chain(cur.b)
           /\ WellLinked /\ WellLinked' /\ KeysUnique'
           /\ DOMAIN slot' = DOMAIN slot \ {cur.p}
           /\ \A s \in DOMAIN slot \ {cur.p} : slot'[s].key = slot[s].key /\ slot'[s].arg = slot[s].arg
<1> USE DEF IndInv
<1>1. cur.b \in Buckets /\ cur.p \in Chain(cur.b)
  BY BucketAssumption DEF TypeOK, FilterOut, AtSlot, NoDanglingSlot, Chain, Buckets
<1>2. HashTypeOK /\ Unlink(cur.b, cur.p)
  BY DEF TypeOK, FilterOut
<1>3. WellLinked
  BY DEF FilterOut, ChainsWellLinked
<1>4. WellLinked'
  BY <1>1, <1>2, <1>3, UnlinkWellLinked
<1>5. /\ DOMAIN slot' = DOMAIN slot \ {cur.p}
      /\ \A s \in DOMAIN slot \ {cur.p} : slot'[s].key = slot[s].key /\ slot'[s].arg = slot[s].arg
  BY <1>1, <1>2, UnlinkEffect
<1>6. KeysUnique'
  BY <1>5 DEF UniqueKeys, KeysUnique
<1> QED
  BY <1>1, <1>3, <1>4, <1>5, <1>6

(* Every other step leaves slots and buckets alone or belongs to           *)
(* vchain_clear.                                                           *)
LEMMA TableFrame ==
    ASSUME [Next]_vars, ~ \E t \in Threads : Store(t) \/ Pop(t),
           ~FilterOut, ~ClearSlot, ~ClearBucket
    PROVE  UNCHANGED hashVars
BY DEF Next, Main, Thread, Create, uidEntry_create, MoreRounds, Pick, Lock, vhashtable_lock, Walk, Reject, Dtor, NotFound, Unlock, vhashtable_unlock, CreateTable,
       Join, PrintEntry, Sum, FilterDtor, FilterKeep, ClearItem, Advance, Leave, FreeTable,
       Exited, vars, hashVars

(* Every step keeps the chains well linked and the keys unique. *)
LEMMA StepChains == ASSUME IndInv, [Next]_vars PROVE ChainsWellLinked' /\ UniqueKeys'
<1> USE DEF IndInv
<1>1. ASSUME NEW t \in Threads, Store(t) PROVE ChainsWellLinked' /\ UniqueKeys'
  BY <1>1, StoreTable DEF ChainsWellLinked, UniqueKeys
<1>2. ASSUME NEW t \in Threads, Pop(t) PROVE ChainsWellLinked' /\ UniqueKeys'
  BY <1>2, PopTable DEF ChainsWellLinked, UniqueKeys
<1>3. CASE FilterOut
  BY <1>3, FilterTable DEF ChainsWellLinked, UniqueKeys
<1>4. CASE ClearSlot
  BY <1>4 DEF ClearSlot, vslot_destroy, ChainsWellLinked, UniqueKeys, KeysUnique
<1>5. CASE ClearBucket
  BY <1>5 DEF ClearBucket, ResetBucket, ChainsWellLinked, UniqueKeys, KeysUnique
<1>6. CASE UNCHANGED hashVars
  <2>1. phase' \notin {"destroy", "end"} => phase \notin {"destroy", "end"}
    BY DEF Next, Main, Thread, Create, uidEntry_create, MoreRounds, Pick, Lock, vhashtable_lock, Walk, Store, Reject, Pop, Dtor, NotFound,
           Unlock, vhashtable_unlock, CreateTable, Join, PrintEntry, Sum, FilterOut, FilterDtor, FilterKeep,
           ClearItem, ClearSlot, ClearBucket, Advance, Leave, FreeTable, Exited, vars, Following
  <2>2. KeysUnique' <=> KeysUnique
    BY <1>6 DEF KeysUnique, hashVars
  <2>3. WellLinked' <=> WellLinked
    BY <1>6 DEF WellLinked, EndsOK, NextOK, PrevOK, Chain, BucketOf, hashVars
  <2> QED
    BY <2>1, <2>2, <2>3 DEF ChainsWellLinked, UniqueKeys
<1> QED
  BY <1>1, <1>2, <1>3, <1>4, <1>5, <1>6, TableFrame

(* A search meets, in the order of the chain, every slot of its bucket:    *)
(* nobody changes a chain while another thread walks along it.             *)
SearchSafe ==
    \A t \in Threads : Searching(t) /\ p[t] # NULL =>
        p[t] \in DOMAIN slot /\ BucketOf(p[t]) = Hash[buf[t]]

LEMMA StepSearch == ASSUME IndInv, [Next]_vars PROVE SearchExact' /\ SearchSafe'
<1> USE DEF IndInv
<1>0. /\ pc \in [Threads -> {"idle", "lock", "search", "dtor", "unlock"}]
      /\ buf \in [Threads -> Keys \cup {NoName}]
      /\ p \in [Threads -> Nat]
      /\ HashTypeOK /\ ThreadsOK /\ MutexHeld /\ SearchExact
  BY DEF TypeOK
<1>1. \A s \in DOMAIN slot : s \in Nat \ {0} /\ BucketOf(s) \in Buckets
  BY <1>0, HashAssumption DEF HashTypeOK, BucketOf, Buckets, SlotType
<1>2. SearchSafe
  BY DEF NoDanglingSlot, SearchSafe
<1>3. ASSUME NEW t \in Threads, Lock(t) PROVE SearchExact' /\ SearchSafe'
  <2>1. /\ \A u \in Threads \ {t} : ~Searching(u)'
        /\ buf' = buf /\ slot' = slot /\ p'[t] = bucket[Hash[buf[t]]].head
    BY <1>0, <1>3 DEF MutexHeld, Lock, vhashtable_lock, Goto, Searching, Head, Free, Threads
  <2>2. buf[t] \in Keys /\ Hash[buf[t]] \in Buckets /\ WellLinked
    BY <1>0, <1>3, HashAssumption DEF ThreadsOK, Ended, Lock, vhashtable_lock, ChainsWellLinked, Buckets
  <2>3. EndsOK(Hash[buf[t]])
    BY <2>2 DEF WellLinked
  <2>4. SearchExact'
    BY <2>1, <2>2, <2>3, <1>1 DEF SearchExact, EndsOK, Chain, BucketOf, NULL
  <2>5. SearchSafe'
    BY <2>1, <2>2, <2>3 DEF SearchSafe, EndsOK, Chain, BucketOf
  <2> QED
    BY <2>4, <2>5
<1>4. ASSUME NEW t \in Threads, Walk(t) PROVE SearchExact' /\ SearchSafe'
  <2>1. /\ \A u \in Threads \ {t} : ~Searching(u)'
        /\ buf' = buf /\ slot' = slot /\ pc' = pc /\ p'[t] = slot[p[t]].next
        /\ Searching(t) /\ p[t] # NULL /\ slot[p[t]].key # buf[t]
    BY <1>0, <1>4 DEF MutexHeld, Walk, Searching
  <2>2. p[t] \in DOMAIN slot /\ BucketOf(p[t]) = Hash[buf[t]]
    BY <1>2, <2>1 DEF SearchSafe
  <2>3. NextOK(p[t])
    BY <1>0, <2>1, <2>2 DEF ThreadsOK, Ended, Searching, ChainsWellLinked, WellLinked
  <2>4. \A s \in Chain(Hash[buf[t]]) : s < p[t] => slot[s].key # buf[t]
    BY <1>0, <2>1 DEF SearchExact
  <2>5. \A s \in Chain(Hash[buf[t]]) :
          slot[p[t]].next = NULL \/ s < slot[p[t]].next => s < p[t] \/ s = p[t]
    BY <1>1, <2>2, <2>3 DEF NextOK, Chain, NULL
  <2>6. SearchExact'
    BY <2>1, <2>4, <2>5 DEF SearchExact, Chain, BucketOf
  <2>7. SearchSafe'
    BY <2>1, <2>2, <2>3 DEF SearchSafe, NextOK, Chain, BucketOf
  <2> QED
    BY <2>6, <2>7
<1>5. ASSUME NEW t \in Threads, mutex = t, pc'[t] # "search",
             \A u \in Threads \ {t} : pc'[u] = pc[u]
      PROVE  SearchExact' /\ SearchSafe'
  <2>1. \A u \in Threads : ~Searching(u)'
    BY <1>0, <1>5 DEF MutexHeld, Searching
  <2> QED
    BY <2>1 DEF SearchExact, SearchSafe
<1>6. ASSUME NEW t \in Threads, UNCHANGED <<hashVars, p>>, pc'[t] # "search",
             \A u \in Threads \ {t} : pc'[u] = pc[u] /\ buf'[u] = buf[u]
      PROVE  SearchExact' /\ SearchSafe'
  BY <1>0, <1>2, <1>6 DEF SearchExact, SearchSafe, Searching, Chain, BucketOf, hashVars
<1>7. ASSUME NEW t \in Threads, Thread(t) PROVE SearchExact' /\ SearchSafe'
  <2>1. CASE Lock(t) \/ Walk(t)
    BY <2>1, <1>3, <1>4
  <2>2. CASE Store(t) \/ Reject(t) \/ Pop(t) \/ Dtor(t) \/ NotFound(t) \/ Unlock(t)
    <3>1. mutex = t /\ pc'[t] # "search" /\ \A u \in Threads \ {t} : pc'[u] = pc[u]
      BY <1>0, <2>2 DEF MutexHeld, Store, Reject, Pop, Dtor, NotFound, Unlock, vhashtable_unlock, Missed, Hit,
                        Searching, Goto
    <3> QED
      BY <3>1, <1>5
  <2>3. CASE (\E k \in Keys, id \in Draws[t] : Create(t, k, id)) \/ (\E k \in Keys : Pick(t, k))
    <3>1. /\ UNCHANGED <<hashVars, p>> /\ pc'[t] # "search"
          /\ \A u \in Threads \ {t} : pc'[u] = pc[u] /\ buf'[u] = buf[u]
      BY <1>0, <2>3 DEF Create, uidEntry_create, MoreRounds, Pick, Goto, hashVars
    <3> QED
      BY <3>1, <1>6
  <2> QED
    BY <1>7, <2>1, <2>2, <2>3 DEF Thread
<1>8. CASE Main
  <2>1. \A u \in Threads : ~Searching(u)'
    BY <1>0, <1>8, MainFrame DEF ThreadsOK, Ended, Searching
  <2> QED
    BY <2>1 DEF SearchExact, SearchSafe
<1>9. CASE UNCHANGED vars
  BY <1>0, <1>2, <1>9 DEF SearchExact, SearchSafe, Searching, Chain, BucketOf, vars
<1> QED
  BY <1>7, <1>8, <1>9 DEF Next, Exited

(* Whatever main is doing, its current slot is allocated and in its        *)
(* current bucket; once vchain_clear is at work, nothing is left behind    *)
(* and what lies ahead is as it was.                                       *)
MainSafe == cur.p # NULL => cur.p \in DOMAIN slot /\ BucketOf(cur.p) = cur.b

(* A thread runs only before main has begun to visit the table. *)
LEMMA ThreadsBeforeMain ==
    ASSUME IndInv, NEW t \in Threads, Thread(t)
    PROVE  phase = "join" /\ phase' = "join" /\ cur' = cur /\ cur.p = NULL /\ cur.pArg = NoArg
<1>1. phase = "join" /\ phase' = phase /\ cur' = cur
  BY DEF IndInv, ThreadsOK, Ended, Thread, Create, uidEntry_create, MoreRounds, Pick, Lock, vhashtable_lock, Walk, Store, Reject, Pop,
         Dtor, NotFound, Unlock, vhashtable_unlock, Missed, Hit, Searching
<1> QED
  BY <1>1 DEF IndInv, MainSlotOK, MainItemOK

(* The head of a bucket, as main's loops read it. *)
LEMMA HeadSafe ==
    ASSUME HashTypeOK, NEW b \in Buckets, EndsOK(b), bucket[b].head # NULL
    PROVE  /\ bucket[b].head \in DOMAIN slot /\ BucketOf(bucket[b].head) = b
           /\ \A s \in Chain(b) : bucket[b].head <= s
BY DEF EndsOK, Chain

LEMMA StepMain ==
    ASSUME IndInv, [Next]_vars
    PROVE  MainSafe' /\ MainSlotOK' /\ RestWellLinked'
<1> USE DEF IndInv
<1>0. /\ HashTypeOK
      /\ cur \in [b : 0 .. nMaxBucket, p : Nat, pArg : Args \cup {NoArg}]
      /\ MainSlotOK /\ MainItemOK /\ RestWellLinked /\ ChainsWellLinked
  BY DEF TypeOK
<1>n. nMaxBucket \in Nat \ {0} /\ Buckets = 0 .. nMaxBucket - 1
  BY BucketAssumption DEF Buckets
<1>1. \A s \in DOMAIN slot : s \in Nat \ {0} /\ BucketOf(s) \in Buckets
  BY <1>0, HashAssumption DEF HashTypeOK, BucketOf, Buckets, SlotType
<1>2. MainSafe
  BY DEF NoDanglingSlot, MainSafe
<1>3. ASSUME NEW t \in Threads, Thread(t) PROVE MainSafe' /\ MainSlotOK' /\ RestWellLinked'
  BY <1>3, ThreadsBeforeMain DEF MainSafe, MainSlotOK, RestWellLinked
<1>4. CASE CreateTable
  BY <1>4, <1>0 DEF CreateTable, MainSafe, MainSlotOK, RestWellLinked
<1>5. CASE Join
  <2>1. WellLinked /\ 0 \in Buckets /\ cur' = [b |-> 0, p |-> bucket[0].head, pArg |-> NoArg]
        /\ slot' = slot
    BY <1>0, <1>5, <1>n DEF Join, Start, ChainsWellLinked, hashVars
  <2>2. EndsOK(0)
    BY <2>1 DEF WellLinked
  <2>3. MainSafe'
    BY <1>0, <2>1, <2>2, HeadSafe DEF MainSafe, BucketOf
  <2> QED
    BY <1>5, <2>3 DEF Join, MainSlotOK, RestWellLinked
<1>6. CASE PrintEntry \/ FilterKeep
  <2>1. /\ cur.p \in DOMAIN slot /\ BucketOf(cur.p) = cur.b /\ cur.p # NULL
        /\ cur' = [cur EXCEPT !.p = slot[cur.p].next] /\ slot' = slot /\ phase' = phase
        /\ phase \in {"print1", "print2", "filter"}
    BY <1>2, <1>6 DEF PrintEntry, FilterKeep, AtSlot, MainSafe, hashVars, Printing
  <2>2. NextOK(cur.p)
    BY <1>0, <2>1 DEF ChainsWellLinked, WellLinked
  <2>3. cur'.p = slot[cur.p].next /\ cur'.b = cur.b
    BY <1>0, <2>1
  <2>4. MainSafe'
    BY <2>1, <2>2, <2>3 DEF MainSafe, NextOK, Chain, BucketOf
  <2> QED
    BY <2>1, <2>4 DEF MainSlotOK, RestWellLinked
<1>7. CASE Sum \/ Advance
  <2>1. /\ WellLinked /\ slot' = slot /\ phase' = phase /\ cur.b < nMaxBucket /\ cur' = NextBucket
        /\ phase \in {"print1", "print2", "size1", "size2", "filter"}
    BY <1>0, <1>7 DEF Sum, Advance, AtBucketEnd, Printing, Summing, ChainsWellLinked, hashVars
  <2>2. cur.b + 1 < nMaxBucket => cur.b + 1 \in Buckets /\ EndsOK(cur.b + 1)
    BY <1>0, <1>n, <2>1 DEF WellLinked
  <2>3. MainSafe'
    BY <1>0, <2>1, <2>2, HeadSafe DEF MainSafe, NextBucket, BucketOf
  <2> QED
    BY <2>1, <2>3 DEF MainSlotOK, RestWellLinked
<1>8. CASE FilterOut
  <2>1. /\ cur.b \in Buckets /\ cur.p \in Chain(cur.b) /\ WellLinked
        /\ DOMAIN slot' = DOMAIN slot \ {cur.p}
        /\ \A s \in DOMAIN slot \ {cur.p} : slot'[s].key = slot[s].key
    BY <1>8, FilterTable
  <2>2. cur'.p = slot[cur.p].next /\ cur'.b = cur.b /\ phase = "filter" /\ phase' = phase
    BY <1>0, <1>8 DEF FilterOut
  <2>3. NextOK(cur.p)
    BY <2>1 DEF WellLinked, Chain
  <2>4. MainSafe'
    BY <1>1, <2>1, <2>2, <2>3 DEF MainSafe, NextOK, Chain, BucketOf, NULL
  <2> QED
    BY <2>2, <2>4 DEF MainSlotOK, RestWellLinked
<1>9. CASE FilterDtor \/ ClearItem
  <2>1. /\ slot' = slot /\ bucket' = bucket /\ phase' = phase
        /\ phase \in {"filter", "destroy"} /\ cur'.b = cur.b /\ cur'.p = cur.p
    BY <1>0, <1>9 DEF FilterDtor, ClearItem, hashVars
  <2> QED
    BY <1>0, <1>2, <2>1 DEF MainSafe, MainSlotOK, RestWellLinked, NextOK, EndsOK, Chain, BucketOf
<1>10. CASE ClearSlot
  <2>1. /\ phase = "destroy" /\ phase' = phase /\ bucket' = bucket
        /\ cur.p \in DOMAIN slot /\ BucketOf(cur.p) = cur.b /\ cur.p # NULL
        /\ cur'.p = slot[cur.p].next /\ cur'.b = cur.b /\ cur.b < nMaxBucket
        /\ slot' = [s \in DOMAIN slot \ {cur.p} |-> slot[s]]
    BY <1>0, <1>2, <1>10 DEF ClearSlot, vslot_destroy, AtSlot, MainSafe
  <2>2. /\ DOMAIN slot' = DOMAIN slot \ {cur.p}
        /\ \A s \in DOMAIN slot \ {cur.p} : slot'[s] = slot[s] /\ BucketOf(s)' = BucketOf(s)
    BY <2>1 DEF BucketOf
  <2>3. /\ NextOK(cur.p)
        /\ \A s \in DOMAIN slot : NextOK(s)
        /\ \A s \in Chain(cur.b) : cur.p <= s
        /\ \A b \in Buckets : b < cur.b => Chain(b) = {}
        /\ \A b \in Buckets : b > cur.b => EndsOK(b)
    BY <1>0, <2>1 DEF RestWellLinked
  <2>4. Chain(cur.b)' = Chain(cur.b) \ {cur.p} /\ \A b \in Buckets : b # cur.b => Chain(b)' = Chain(b)
    <3>1. Chain(cur.b)' = {s \in DOMAIN slot' : BucketOf(s)' = cur.b}
      BY <2>1 DEF Chain
    <3>2. \A b \in Buckets : Chain(b)' = {s \in DOMAIN slot' : BucketOf(s)' = b}
      BY DEF Chain
    <3> QED
      BY <2>1, <2>2, <3>1, <3>2 DEF Chain
  <2>5. MainSafe'
    <3>1. slot[cur.p].next # NULL =>
            /\ slot[cur.p].next \in DOMAIN slot \ {cur.p}
            /\ BucketOf(slot[cur.p].next) = cur.b
      BY <1>1, <2>1, <2>3 DEF NextOK, Chain
    <3> QED
      BY <2>1, <2>2, <3>1 DEF MainSafe, BucketOf
  <2>6. \A s \in DOMAIN slot' : NextOK(s)'
    <3> SUFFICES ASSUME NEW s \in DOMAIN slot' PROVE NextOK(s)'
      OBVIOUS
    <3>1. s \in DOMAIN slot /\ s # cur.p /\ slot'[s] = slot[s] /\ BucketOf(s)' = BucketOf(s)
      BY <2>2
    <3>2. NextOK(s) /\ BucketOf(s) \in Buckets
      BY <2>3, <3>1, <1>1
    <3>3. CASE BucketOf(s) # cur.b
      <4>1. Chain(BucketOf(s))' = Chain(BucketOf(s))
        BY <2>4, <3>1, <3>2, <3>3
      <4> QED
        BY <3>1, <3>2, <4>1 DEF NextOK
    <3>4. CASE BucketOf(s) = cur.b
      <4>1. Chain(BucketOf(s))' = Chain(cur.b) \ {cur.p}
        BY <2>1, <2>4, <3>1, <3>4
      <4>2. cur.p < s
        BY <1>1, <2>1, <2>3, <3>1, <3>4 DEF Chain
      <4> QED
        BY <1>1, <2>1, <3>1, <3>2, <3>4, <4>1, <4>2 DEF NextOK, Chain
    <3> QED
      BY <3>3, <3>4
  <2>7. \A s \in Chain(cur.b)' : cur'.p # NULL /\ cur'.p <= s
    BY <1>1, <2>1, <2>3, <2>4 DEF NextOK, Chain
  <2>8. \A b \in Buckets : /\ b > cur'.b => EndsOK(b)'
                           /\ b < cur'.b => Chain(b)' = {}
    BY <1>0, <1>n, <2>1, <2>3, <2>4 DEF EndsOK
  <2>9. MainSlotOK'
    BY <2>1 DEF MainSlotOK
  <2>10. RestWellLinked'
    <3>1. (\A b \in Buckets : b > cur.b => EndsOK(b))'
      BY <2>8
    <3>2. (\A b \in Buckets : b < cur.b => Chain(b) = {})'
      BY <2>8
    <3> QED
      BY <2>6, <2>7, <3>1, <3>2 DEF RestWellLinked
  <2> QED
    BY <2>5, <2>9, <2>10
<1>11. CASE ClearBucket
  <2>1. /\ phase = "destroy" /\ phase' = phase /\ slot' = slot
        /\ cur.p = NULL /\ cur.b < nMaxBucket /\ cur' = NextBucket
        /\ \A b \in Buckets \ {cur.b} : bucket'[b] = bucket[b]
    BY <1>0, <1>11 DEF ClearBucket, ResetBucket, AtBucketEnd, HashTypeOK
  <2>2. cur'.b = cur.b + 1
        /\ cur'.p = IF cur.b + 1 < nMaxBucket THEN bucket[cur.b + 1].head ELSE NULL
    BY <2>1 DEF NextBucket
  <2>3. /\ Chain(cur.b) = {}
        /\ \A s \in DOMAIN slot : NextOK(s)
        /\ \A b \in Buckets : b < cur.b => Chain(b) = {}
        /\ \A b \in Buckets : b > cur.b => EndsOK(b)
    BY <1>0, <2>1 DEF RestWellLinked
  <2>4. \A b : Chain(b)' = Chain(b)
    BY <2>1 DEF Chain, BucketOf
  <2>5. \A s \in DOMAIN slot' : NextOK(s)'
    BY <2>1, <2>3 DEF NextOK, Chain, BucketOf
  <2>6. cur.b + 1 < nMaxBucket => cur.b + 1 \in Buckets /\ EndsOK(cur.b + 1)
    BY <1>0, <1>n, <2>3
  <2>7. MainSafe'
    BY <1>0, <2>1, <2>2, <2>6, HeadSafe DEF MainSafe, BucketOf
  <2>8. \A b \in Buckets : /\ b > cur'.b => EndsOK(b)'
                           /\ b < cur'.b => Chain(b)' = {}
    <3> SUFFICES ASSUME NEW b \in Buckets
                 PROVE  (b > cur'.b => EndsOK(b)') /\ (b < cur'.b => Chain(b)' = {})
      OBVIOUS
    <3>1. b > cur'.b => b > cur.b /\ b # cur.b
      BY <1>0, <1>n, <2>2
    <3>2. b < cur'.b => b < cur.b \/ b = cur.b
      BY <1>0, <1>n, <2>2
    <3> QED
      BY <2>1, <2>3, <2>4, <3>1, <3>2 DEF EndsOK
  <2>9. \A s \in Chain(cur'.b) : cur'.p # NULL /\ cur'.p <= s
    BY <1>0, <1>1, <1>n, <2>2, <2>6 DEF EndsOK, Chain
  <2>10. MainSlotOK'
    BY <2>1 DEF MainSlotOK
  <2> QED
    <3>1. (\A b \in Buckets : b > cur.b => EndsOK(b))'
      BY <2>8
    <3>2. (\A b \in Buckets : b < cur.b => Chain(b) = {})'
      BY <2>8
    <3>3. (\A s \in Chain(cur.b) : cur.p # NULL /\ cur.p <= s)'
      BY <2>1, <2>9 DEF Chain, BucketOf
    <3>4. RestWellLinked'
      BY <2>5, <3>1, <3>2, <3>3 DEF RestWellLinked
    <3> QED
      BY <2>7, <2>10, <3>4
<1>12. CASE Leave
  <2>1. /\ WellLinked /\ slot' = slot /\ bucket' = bucket
        /\ cur' = [b |-> 0, p |-> bucket[0].head, pArg |-> NoArg]
        /\ phase' \notin {"create", "join", "end"}
    BY <1>0, <1>12 DEF Leave, Following, Start, ChainsWellLinked, hashVars
  <2>2. EndsOK(0) /\ 0 \in Buckets
    BY <1>n, <2>1 DEF WellLinked
  <2>3. MainSafe'
    BY <1>0, <2>1, <2>2, HeadSafe DEF MainSafe, BucketOf
  <2>4. WellLinked'
    BY <2>1 DEF WellLinked, EndsOK, NextOK, PrevOK, Chain, BucketOf
  <2>5. RestWellLinked'
    <3>1. \A s \in Chain(0) : bucket[0].head # NULL /\ bucket[0].head <= s
      BY <2>2 DEF EndsOK
    <3>2. Chain(cur.b)' = Chain(0)
      BY <2>1 DEF Chain, BucketOf
    <3> QED
      BY <1>n, <2>1, <2>4, <3>1, <3>2 DEF RestWellLinked, WellLinked
  <2> QED
    BY <2>1, <2>3, <2>5 DEF MainSlotOK
<1>13. CASE FreeTable
  <2>1. /\ phase = "destroy" /\ cur.b = nMaxBucket /\ cur' = cur /\ slot' = slot /\ bucket' = bucket
    BY <1>13 DEF FreeTable, AtTableEnd, hashVars
  <2>2. cur.p = NULL
    BY <1>1, <1>2, <1>n, <2>1 DEF MainSafe
  <2> QED
    BY <1>0, <2>1, <2>2 DEF MainSafe, MainSlotOK, RestWellLinked, NextOK, EndsOK, Chain, BucketOf
<1>14. CASE UNCHANGED vars
  BY <1>0, <1>2, <1>14 DEF vars, MainSafe, MainSlotOK, RestWellLinked, NextOK, EndsOK, Chain, BucketOf
<1> QED
  BY <1>3, <1>4, <1>5, <1>6, <1>7, <1>8, <1>9, <1>10, <1>11, <1>12, <1>13, <1>14
     DEF Next, Main, Exited

(* No step of a thread happens while main clears, so what a slot carries   *)
(* is in the table.                                                        *)
LEMMA InTableWhileThreads ==
    ASSUME cur.pArg = NoArg, NEW x
    PROVE  InTable(x) <=> \E s \in DOMAIN slot : slot[s].arg = x
BY DEF InTable, Clearing

(* Once main is past the joins, and before it, no thread holds an entry. *)
LEMMA MainHolders ==
    ASSUME IndInv, Main, NEW t \in Threads, NEW x
    PROVE  ~Holds(t, x) /\ ~Holds(t, x)'
<1>1. pc[t] = "idle" /\ pc' = pc
  BY MainFrame DEF IndInv, ThreadsOK, Ended
<1> QED
  BY <1>1 DEF Holds

(* Every step keeps each entry with one owner. *)
LEMMA StepOwner == ASSUME IndInv, [Next]_vars PROVE OneOwner' /\ MainItemOK'
<1> USE DEF IndInv
<1>0. /\ pc \in [Threads -> {"idle", "lock", "search", "dtor", "unlock"}]
      /\ buf \in [Threads -> Keys \cup {NoName}]
      /\ i \in [Threads -> 0 .. Rounds]
      /\ pArg \in [Threads -> Args \cup {NoArg}]
      /\ DOMAIN entry \subseteq Args
      /\ slot \in [DOMAIN slot -> SlotType]
      /\ \A s \in DOMAIN slot : slot[s].arg \in Args
      /\ ThreadsOK
  BY DEF TypeOK, HashTypeOK, SlotType
<1>1. /\ \A s \in DOMAIN slot : ~Clearing(s) =>
           slot[s].arg \in DOMAIN entry /\ entry[slot[s].arg].uid = slot[s].key
      /\ \A r, s \in DOMAIN slot : slot[r].arg = slot[s].arg => r = s
      /\ \A t \in Threads, x \in Args : Holds(t, x) =>
           /\ x \in DOMAIN entry /\ entry[x].uid = buf[t]
           /\ ~InTable(x)
           /\ \A u \in Threads : Holds(u, x) => u = t
  BY DEF OneOwner
<1>e. \A t, u \in Threads : e(t) \in Args /\ (e(t) = e(u) => t = u)
  BY <1>0, ArgsAssumption DEF e
<1>t. ASSUME NEW t \in Threads, Thread(t) PROVE OneOwner' /\ MainItemOK'
  <2>0. phase = "join" /\ phase' = "join" /\ cur.pArg = NoArg /\ cur'.pArg = NoArg
    BY <1>t, ThreadsBeforeMain
  <2>1. /\ \A s : ~Clearing(s) /\ ~Clearing(s)'
        /\ \A x : InTable(x) <=> \E s \in DOMAIN slot : slot[s].arg = x
        /\ \A x : InTable(x)' <=> \E s \in DOMAIN slot' : slot'[s].arg = x
    BY <2>0 DEF Clearing, InTable
  <2>2. MainItemOK'
    BY <2>0 DEF MainItemOK
  <2> SUFFICES OneOwner'
    BY <2>2
  <2> DEFINE Carried == \A s \in DOMAIN slot :
                            slot[s].arg \in DOMAIN entry /\ entry[slot[s].arg].uid = slot[s].key
             Injective == \A r, s \in DOMAIN slot : slot[r].arg = slot[s].arg => r = s
             Held == \A u \in Threads, x \in Args : Holds(u, x) =>
                         /\ x \in DOMAIN entry /\ entry[x].uid = buf[u]
                         /\ \A s \in DOMAIN slot : slot[s].arg # x
             Alone == \A u, w \in Threads, x \in Args : Holds(u, x) /\ Holds(w, x) => u = w
  <2>a. Carried /\ Injective /\ Held /\ Alone
    BY <1>1, <2>1
  <2>b. Carried' /\ Injective' /\ Held' /\ Alone' => OneOwner'
    BY <2>1 DEF OneOwner
  <2>3. ASSUME NEW k \in Keys, NEW id \in Draws[t], Create(t, k, id) PROVE OneOwner'
    <3>1. /\ pc[t] = "idle" /\ Adder(t) /\ pc' = [pc EXCEPT ![t] = "lock"]
          /\ buf' = [buf EXCEPT ![t] = k]
          /\ DOMAIN entry' = DOMAIN entry \cup {e(t)} /\ entry'[e(t)].uid = k
          /\ \A x \in DOMAIN entry \ {e(t)} : entry'[x] = entry[x]
          /\ slot' = slot /\ i' = i /\ pArg' = pArg
      BY <2>3 DEF Create, uidEntry_create, MoreRounds, Goto
    <3>2. e(t) \notin DOMAIN entry
      BY <1>0, <3>1 DEF AddressesFresh, Reached, e
    <3>3. \A u \in Threads, x \in Args : Holds(u, x)' => (Holds(u, x) /\ u # t) \/ (u = t /\ x = e(t))
      BY <1>0, <3>1 DEF Holds, e
    <3>5. Carried'
      BY <2>a, <3>1, <3>2, <3>3, <1>e, <1>0
    <3>6. Injective'
      BY <2>a, <3>1, <3>2, <3>3, <1>e, <1>0
    <3>7. Held'
      BY <2>a, <3>1, <3>2, <3>3, <1>e, <1>0
    <3>8. Alone'
      BY <2>a, <3>1, <3>2, <3>3, <1>e, <1>0
    <3> QED
      <4> HIDE DEF Carried, Injective, Held, Alone
      <4> QED
        BY <2>b, <3>5, <3>6, <3>7, <3>8
  <2>5. CASE (\E k \in Keys : Pick(t, k)) \/ Lock(t) \/ Walk(t) \/ NotFound(t) \/ Unlock(t)
    <3>1. UNCHANGED <<slot, entry>>
      BY <2>5 DEF Pick, MoreRounds, Lock, vhashtable_lock, Walk, NotFound, Unlock, vhashtable_unlock
    <3>2. \A u \in Threads, x \in Args : Holds(u, x)' => Holds(u, x) /\ buf'[u] = buf[u]
      BY <1>0, <2>5 DEF Pick, MoreRounds, Lock, vhashtable_lock, Walk, NotFound, Unlock, vhashtable_unlock, Missed, Searching, Goto, Holds, e
    <3> QED
      BY <2>a, <2>b, <3>1, <3>2
  <2>6. CASE Store(t)
    <3>1. /\ DOMAIN slot' = DOMAIN slot \cup {nSlot + 1}
          /\ nSlot + 1 \notin DOMAIN slot
          /\ slot'[nSlot + 1].key = buf[t] /\ slot'[nSlot + 1].arg = e(t)
          /\ \A s \in DOMAIN slot : slot'[s].key = slot[s].key /\ slot'[s].arg = slot[s].arg
      BY <2>6, StoreTable
    <3>2. /\ pc[t] = "search" /\ Adder(t) /\ pc' = [pc EXCEPT ![t] = "unlock"]
          /\ entry' = entry /\ i' = i /\ buf' = buf /\ pArg' = pArg
      BY <2>6 DEF Store, Missed, Searching, Goto
    <3>3. \A u \in Threads, x \in Args : Holds(u, x)' => Holds(u, x) /\ u # t
      BY <1>0, <3>2 DEF Holds, e
    <3>4. Holds(t, e(t)) /\ e(t) \in Args
      BY <1>e, <3>2 DEF Holds
    <3>5. Carried'
      BY <2>a, <3>1, <3>2, <3>3, <3>4, <1>0
    <3>6. Injective'
      BY <2>a, <3>1, <3>2, <3>3, <3>4, <1>0
    <3>7. Held'
      BY <2>a, <3>1, <3>2, <3>3, <3>4, <1>0
    <3>8. Alone'
      BY <2>a, <3>1, <3>2, <3>3, <3>4, <1>0
    <3> QED
      <4> HIDE DEF Carried, Injective, Held, Alone
      <4> QED
        BY <2>b, <3>5, <3>6, <3>7, <3>8
  <2>7. CASE Reject(t)
    <3>1. /\ pc[t] = "search" /\ Adder(t) /\ pc' = [pc EXCEPT ![t] = "unlock"]
          /\ DOMAIN entry' = DOMAIN entry \ {e(t)}
          /\ \A x \in DOMAIN entry \ {e(t)} : entry'[x] = entry[x]
          /\ slot' = slot /\ i' = i /\ buf' = buf /\ pArg' = pArg
      BY <2>7 DEF Reject, Hit, Searching, Goto, uidEntry_destroy
    <3>2. \A u \in Threads, x \in Args : Holds(u, x)' => Holds(u, x) /\ u # t
      BY <1>0, <3>1 DEF Holds, e
    <3>3. Holds(t, e(t)) /\ e(t) \in Args
      BY <1>e, <3>1 DEF Holds
    <3>5. Carried'
      BY <2>a, <3>1, <3>2, <3>3, <1>0
    <3>6. Injective'
      BY <2>a, <3>1, <3>2, <3>3, <1>0
    <3>7. Held'
      BY <2>a, <3>1, <3>2, <3>3, <1>0
    <3>8. Alone'
      BY <2>a, <3>1, <3>2, <3>3, <1>0
    <3> QED
      <4> HIDE DEF Carried, Injective, Held, Alone
      <4> QED
        BY <2>b, <3>5, <3>6, <3>7, <3>8
  <2>8. CASE Pop(t)
    <3>1. /\ p[t] \in DOMAIN slot /\ slot[p[t]].key = buf[t]
          /\ DOMAIN slot' = DOMAIN slot \ {p[t]}
          /\ \A s \in DOMAIN slot \ {p[t]} : slot'[s].key = slot[s].key /\ slot'[s].arg = slot[s].arg
      BY <2>8, PopTable DEF Pop, Hit, Chain
    <3>2. /\ pc[t] = "search" /\ ~Adder(t) /\ pc' = [pc EXCEPT ![t] = "dtor"]
          /\ pArg' = [pArg EXCEPT ![t] = slot[p[t]].arg]
          /\ entry' = entry /\ i' = i /\ buf' = buf
      BY <2>8 DEF Pop, Hit, Searching, Goto
    <3>3. \A u \in Threads, x \in Args :
            Holds(u, x)' => (Holds(u, x) /\ u # t) \/ (u = t /\ x = slot[p[t]].arg)
      BY <1>0, <3>2 DEF Holds, e
    <3>5. Carried'
      BY <2>a, <3>1, <3>2, <3>3, <1>0
    <3>6. Injective'
      BY <2>a, <3>1, <3>2, <3>3, <1>0
    <3>7. Held'
      BY <2>a, <3>1, <3>2, <3>3, <1>0
    <3>8. Alone'
      BY <2>a, <3>1, <3>2, <3>3, <1>0
    <3> QED
      <4> HIDE DEF Carried, Injective, Held, Alone
      <4> QED
        BY <2>b, <3>5, <3>6, <3>7, <3>8
  <2>9. CASE Dtor(t)
    <3>1. /\ pc[t] = "dtor" /\ pc' = [pc EXCEPT ![t] = "unlock"]
          /\ DOMAIN entry' = DOMAIN entry \ {pArg[t]}
          /\ \A x \in DOMAIN entry \ {pArg[t]} : entry'[x] = entry[x]
          /\ slot' = slot /\ i' = i /\ buf' = buf /\ pArg' = [pArg EXCEPT ![t] = NoArg]
      BY <2>9 DEF Dtor, Goto, uidEntry_destroy
    <3>2. \A u \in Threads, x \in Args : Holds(u, x)' => Holds(u, x) /\ u # t
      BY <1>0, <3>1 DEF Holds, e
    <3>3. Holds(t, pArg[t]) /\ pArg[t] \in Args
      BY <1>0, <3>1 DEF Holds, ThreadsOK
    <3>5. Carried'
      BY <2>a, <3>1, <3>2, <3>3, <1>0
    <3>6. Injective'
      BY <2>a, <3>1, <3>2, <3>3, <1>0
    <3>7. Held'
      BY <2>a, <3>1, <3>2, <3>3, <1>0
    <3>8. Alone'
      BY <2>a, <3>1, <3>2, <3>3, <1>0
    <3> QED
      <4> HIDE DEF Carried, Injective, Held, Alone
      <4> QED
        BY <2>b, <3>5, <3>6, <3>7, <3>8
  <2> QED
    BY <1>t, <2>2, <2>3, <2>5, <2>6, <2>7, <2>8, <2>9 DEF Thread
<1>m. ASSUME Main PROVE OneOwner' /\ MainItemOK'
  <2>0. \A t \in Threads, x \in Args : ~Holds(t, x)'
    BY <1>m, MainHolders
  <2> DEFINE Carried == \A s \in DOMAIN slot : ~Clearing(s) =>
                            slot[s].arg \in DOMAIN entry /\ entry[slot[s].arg].uid = slot[s].key
             Injective == \A r, s \in DOMAIN slot : slot[r].arg = slot[s].arg => r = s
  <2>1. SUFFICES Carried' /\ Injective' /\ MainItemOK'
    BY <2>0 DEF OneOwner
  <2>2. CASE UNCHANGED <<slot, entry>> /\ cur.pArg = NoArg /\ cur'.pArg = NoArg
    BY <1>1, <2>2 DEF MainItemOK, Clearing
  <2>3. CASE CreateTable \/ Join \/ PrintEntry \/ Sum \/ FilterKeep \/ ClearBucket \/ Advance \/ FreeTable
             \/ Leave
    <3>1. UNCHANGED <<slot, entry>>
      BY <2>3 DEF CreateTable, Join, PrintEntry, Sum, FilterKeep, ClearBucket, ResetBucket, Advance,
                  FreeTable, Leave, hashVars
    <3>2. cur.pArg = NoArg
      BY <2>3, BucketAssumption
         DEF CreateTable, Join, PrintEntry, Sum, FilterKeep, ClearBucket, Advance, FreeTable, Leave,
             Printing, Summing, AtBucketEnd, AtTableEnd, MainItemOK
    <3>3. cur'.pArg = NoArg
      BY <2>3, <3>2 DEF CreateTable, Join, PrintEntry, Sum, FilterKeep, ClearBucket, Advance,
                        FreeTable, Leave, Start, NextBucket, TypeOK
    <3> QED
      BY <2>2, <3>1, <3>2, <3>3
  <2>4. CASE FilterOut
    <3>1. /\ cur.p \in DOMAIN slot
          /\ DOMAIN slot' = DOMAIN slot \ {cur.p}
          /\ \A s \in DOMAIN slot \ {cur.p} : slot'[s].key = slot[s].key /\ slot'[s].arg = slot[s].arg
      BY <2>4, FilterTable DEF Chain
    <3>2. /\ phase = "filter" /\ phase' = phase /\ entry' = entry
          /\ cur.pArg = NoArg /\ cur'.pArg = slot[cur.p].arg /\ cur'.b = cur.b /\ cur.b < nMaxBucket
      BY <2>4 DEF FilterOut, AtSlot, TypeOK
    <3>3. Carried' /\ Injective'
      BY <1>1, <3>1, <3>2 DEF Clearing
    <3>4. slot[cur.p].arg \in DOMAIN entry
      BY <1>1, <3>1, <3>2 DEF Clearing
    <3>5. ~InTable(cur.pArg)'
      BY <1>1, <3>1, <3>2 DEF InTable
    <3> QED
      BY <3>2, <3>3, <3>4, <3>5 DEF MainItemOK
  <2>5. CASE FilterDtor
    <3>1. /\ phase = "filter" /\ phase' = phase /\ slot' = slot /\ cur'.pArg = NoArg
          /\ DOMAIN entry' = DOMAIN entry \ {cur.pArg} /\ cur.pArg # NoArg
          /\ \A x \in DOMAIN entry \ {cur.pArg} : entry'[x] = entry[x]
      BY <2>5 DEF FilterDtor, uidEntry_destroy, hashVars, TypeOK
    <3>2. \A s \in DOMAIN slot : slot[s].arg # cur.pArg
      BY <3>1 DEF MainItemOK, InTable, Clearing
    <3> QED
      BY <1>1, <3>1, <3>2 DEF MainItemOK, Clearing
  <2>6. CASE ClearItem
    <3>1. /\ phase = "destroy" /\ phase' = phase /\ slot' = slot /\ cur.pArg = NoArg
          /\ cur.p # NULL /\ cur.p \in DOMAIN slot /\ cur.b < nMaxBucket
          /\ cur'.pArg = slot[cur.p].arg /\ cur'.p = cur.p /\ cur'.b = cur.b
          /\ DOMAIN entry' = DOMAIN entry \ {slot[cur.p].arg}
          /\ \A x \in DOMAIN entry \ {slot[cur.p].arg} : entry'[x] = entry[x]
      BY <2>6 DEF ClearItem, uidEntry_destroy, hashVars, TypeOK, AtSlot, NoDanglingSlot
    <3>2. slot[cur.p].arg # NoArg
      BY <1>0, <3>1, NoneAssumption
    <3>3. Carried'
      BY <1>1, <3>1, <3>2 DEF Clearing
    <3> QED
      BY <1>1, <3>1, <3>3 DEF MainItemOK
  <2>7. CASE ClearSlot
    <3>1. /\ phase = "destroy" /\ phase' = phase /\ entry' = entry /\ cur'.pArg = NoArg
          /\ DOMAIN slot' = DOMAIN slot \ {cur.p}
          /\ \A s \in DOMAIN slot \ {cur.p} : slot'[s] = slot[s]
      BY <2>7 DEF ClearSlot, vslot_destroy, TypeOK
    <3> QED
      BY <1>1, <3>1 DEF MainItemOK, Clearing
  <2> QED
    BY <1>m, <2>3, <2>4, <2>5, <2>6, <2>7 DEF Main
<1>u. CASE UNCHANGED vars
  BY <1>1, <1>u DEF vars, OneOwner, MainItemOK, InTable, Clearing, Holds, e
<1> QED
  BY <1>t, <1>m, <1>u DEF Next, Exited

------------------------------------------------------------------------------
LEMMA StepInvariant == IndInv /\ [Next]_vars => IndInv'
<1> SUFFICES ASSUME IndInv, [Next]_vars PROVE IndInv'
  OBVIOUS
<1>1. TypeOK'
  BY StepTypeOK
<1>2. ThreadsOK' /\ MutexHeld'
  BY StepThreads
<1>3. AddressesFresh'
  BY StepAddresses
<1>4. ChainsWellLinked' /\ UniqueKeys'
  BY StepChains
<1>5. SearchExact' /\ SearchSafe'
  BY StepSearch
<1>6. MainSafe' /\ MainSlotOK' /\ RestWellLinked'
  BY StepMain
<1>7. OneOwner' /\ MainItemOK'
  BY StepOwner
<1>8. NoDanglingSlot'
  BY <1>5, <1>6 DEF NoDanglingSlot, SearchSafe, MainSafe
<1> QED
  BY <1>1, <1>2, <1>3, <1>4, <1>5, <1>6, <1>7, <1>8 DEF IndInv

(* The inductive invariant holds in every state of every execution of      *)
(* main.c.                                                                 *)
THEOREM Invariance == Spec => []IndInv
<1>1. Init => IndInv
  BY InitInvariant
<1>2. IndInv /\ [Next]_vars => IndInv'
  BY StepInvariant
<1> QED
  BY <1>1, <1>2, PTL DEF Spec

(* Every variable of main.c and vhash.c keeps its type. *)
THEOREM TypeCorrect == Spec => []TypeOK
<1>1. IndInv => TypeOK
  BY DEF IndInv
<1> QED
  BY <1>1, Invariance, PTL

(* Until vhashtable_destroy takes it apart, every bucket is a doubly       *)
(* linked list of exactly its slots in the order of insertion.             *)
THEOREM ChainsCorrect == Spec => []ChainsWellLinked
<1>1. IndInv => ChainsWellLinked
  BY DEF IndInv
<1> QED
  BY <1>1, Invariance, PTL

(* vhashtable_insert never stores a key that is stored already. *)
THEOREM KeysNeverTwice == Spec => []UniqueKeys
<1>1. IndInv => UniqueKeys
  BY DEF IndInv
<1> QED
  BY <1>1, Invariance, PTL

(* No slot is read after vslot_destroy has freed it, by the searches of    *)
(* the threads or by the loops of main.                                    *)
THEOREM NoSlotReadAfterFree == Spec => []NoDanglingSlot
<1>1. IndInv => NoDanglingSlot
  BY DEF IndInv
<1> QED
  BY <1>1, Invariance, PTL

(* An entry is never in the table and in a thread's hands, nor in two      *)
(* hands, and what the table carries has not been destroyed.               *)
THEOREM OwnershipCorrect == Spec => []OneOwner
<1>1. IndInv => OneOwner
  BY DEF IndInv
<1> QED
  BY <1>1, Invariance, PTL

------------------------------------------------------------------------------
(* What is allocated, in bytes. *)
Allocated ==
    SlotSize * Cardinality(DOMAIN slot) + EntrySize * Cardinality(DOMAIN entry)

(* A step allocates or frees at most one slot or one entry, in a table     *)
(* that exists.                                                            *)
StepAllocates ==
    \/ /\ UNCHANGED <<memUsage, DOMAIN slot, DOMAIN entry>>
    \/ /\ DOMAIN slot' = DOMAIN slot
       /\ \E x : x \notin DOMAIN entry /\ DOMAIN entry' = DOMAIN entry \cup {x}
       /\ memUsage' = memUsage + EntrySize
    \/ /\ DOMAIN slot' = DOMAIN slot
       /\ \E x \in DOMAIN entry : DOMAIN entry' = DOMAIN entry \ {x}
       /\ memUsage' = memUsage - EntrySize
    \/ /\ DOMAIN entry' = DOMAIN entry
       /\ \E q : q \notin DOMAIN slot /\ DOMAIN slot' = DOMAIN slot \cup {q}
       /\ memUsage' = memUsage + SlotSize
    \/ /\ DOMAIN entry' = DOMAIN entry
       /\ \E q \in DOMAIN slot : DOMAIN slot' = DOMAIN slot \ {q}
       /\ memUsage' = memUsage - SlotSize

LEMMA StepMemory ==
    ASSUME memUsage \in Int, IsFiniteSet(DOMAIN slot), IsFiniteSet(DOMAIN entry), StepAllocates
    PROVE  /\ IsFiniteSet(DOMAIN slot') /\ IsFiniteSet(DOMAIN entry')
           /\ memUsage' - memUsage = Allocated' - Allocated
<1> DEFINE S == Cardinality(DOMAIN slot)  E == Cardinality(DOMAIN entry)
<1>0. S \in Nat /\ E \in Nat
  BY FS_CardinalityType
<1>1. CASE UNCHANGED <<memUsage, DOMAIN slot, DOMAIN entry>>
  BY <1>0, <1>1 DEF Allocated, SlotSize, EntrySize
<1>2. ASSUME NEW x, x \notin DOMAIN entry, DOMAIN entry' = DOMAIN entry \cup {x},
             DOMAIN slot' = DOMAIN slot, memUsage' = memUsage + EntrySize
      PROVE  /\ IsFiniteSet(DOMAIN slot') /\ IsFiniteSet(DOMAIN entry')
             /\ memUsage' - memUsage = Allocated' - Allocated
  <2>1. IsFiniteSet(DOMAIN entry') /\ Cardinality(DOMAIN entry') = E + 1
    BY <1>2, CardinalityAdd
  <2> QED
    BY <1>0, <1>2, <2>1 DEF Allocated, SlotSize, EntrySize
<1>3. ASSUME NEW x \in DOMAIN entry, DOMAIN entry' = DOMAIN entry \ {x},
             DOMAIN slot' = DOMAIN slot, memUsage' = memUsage - EntrySize
      PROVE  /\ IsFiniteSet(DOMAIN slot') /\ IsFiniteSet(DOMAIN entry')
             /\ memUsage' - memUsage = Allocated' - Allocated
  <2>1. IsFiniteSet(DOMAIN entry') /\ Cardinality(DOMAIN entry') = E - 1
    BY <1>3, CardinalityRemove
  <2> QED
    BY <1>0, <1>3, <2>1 DEF Allocated, SlotSize, EntrySize
<1>4. ASSUME NEW q, q \notin DOMAIN slot, DOMAIN slot' = DOMAIN slot \cup {q},
             DOMAIN entry' = DOMAIN entry, memUsage' = memUsage + SlotSize
      PROVE  /\ IsFiniteSet(DOMAIN slot') /\ IsFiniteSet(DOMAIN entry')
             /\ memUsage' - memUsage = Allocated' - Allocated
  <2>1. IsFiniteSet(DOMAIN slot') /\ Cardinality(DOMAIN slot') = S + 1
    BY <1>4, CardinalityAdd
  <2> QED
    BY <1>0, <1>4, <2>1 DEF Allocated, SlotSize, EntrySize
<1>5. ASSUME NEW q \in DOMAIN slot, DOMAIN slot' = DOMAIN slot \ {q},
             DOMAIN entry' = DOMAIN entry, memUsage' = memUsage - SlotSize
      PROVE  /\ IsFiniteSet(DOMAIN slot') /\ IsFiniteSet(DOMAIN entry')
             /\ memUsage' - memUsage = Allocated' - Allocated
  <2>1. IsFiniteSet(DOMAIN slot') /\ Cardinality(DOMAIN slot') = S - 1
    BY <1>5, CardinalityRemove
  <2> QED
    BY <1>0, <1>5, <2>1 DEF Allocated, SlotSize, EntrySize
<1> QED
  BY <1>1, <1>2, <1>3, <1>4, <1>5 DEF StepAllocates

(* Every step but vhashtable_create and the end of vhashtable_destroy      *)
(* allocates or frees one slot or one entry at most, and counts it.        *)
LEMMA StepOne ==
    ASSUME IndInv, [Next]_vars, ~CreateTable, ~FreeTable
    PROVE  StepAllocates
<1> USE DEF IndInv
<1>0. phase = "filter" \/ phase = "destroy" \/ phase \notin {"filter", "destroy"}
  OBVIOUS
<1>1. ASSUME NEW t \in Threads, NEW k \in Keys, NEW id \in Draws[t], Create(t, k, id)
      PROVE  StepAllocates
  <2>1. e(t) \notin DOMAIN entry
    <3>1. i[t] \in 0 .. Rounds /\ pc[t] = "idle"
      BY <1>1 DEF TypeOK, Create
    <3> QED
      BY <3>1 DEF AddressesFresh, Reached, e
  <2>2. /\ slot' = slot /\ DOMAIN entry' = DOMAIN entry \cup {e(t)}
        /\ memUsage' = memUsage + EntrySize
    BY <1>1 DEF Create, uidEntry_create, vc_malloc
  <2> QED
    BY <2>1, <2>2 DEF StepAllocates
<1>2. ASSUME NEW t \in Threads, Store(t) PROVE StepAllocates
  BY <1>2, StoreTable DEF StepAllocates, Store, vchain_append, vc_malloc
<1>3. ASSUME NEW t \in Threads, Reject(t) PROVE StepAllocates
  <2>1. e(t) \in DOMAIN entry
    <3>1. e(t) \in Args
      BY <1>3, ArgsAssumption DEF TypeOK, e
    <3> QED
      BY <1>3, <3>1 DEF Reject, Hit, Searching, OneOwner, Holds
  <2> QED
    BY <1>3, <2>1 DEF StepAllocates, Reject, uidEntry_destroy, vc_free
<1>4. ASSUME NEW t \in Threads, Pop(t) PROVE StepAllocates
  BY <1>4, PopTable DEF StepAllocates, Pop, Unlink, vc_free, Chain
<1>5. ASSUME NEW t \in Threads, Dtor(t) PROVE StepAllocates
  <2>1. pArg[t] \in DOMAIN entry
    <3>1. pArg[t] \in Args
      BY <1>5 DEF TypeOK, Dtor, ThreadsOK
    <3> QED
      BY <1>5, <3>1 DEF Dtor, OneOwner, Holds
  <2> QED
    BY <1>5, <2>1 DEF StepAllocates, Dtor, uidEntry_destroy, vc_free
<1>6. CASE FilterOut
  BY <1>6, FilterTable DEF StepAllocates, FilterOut, Unlink, vc_free, Chain
<1>7. CASE FilterDtor
  BY <1>7 DEF StepAllocates, FilterDtor, uidEntry_destroy, vc_free, MainItemOK, hashVars
<1>8. CASE ClearItem
  <2>1. slot[cur.p].arg \in DOMAIN entry
    BY <1>8 DEF ClearItem, AtSlot, NoDanglingSlot, OneOwner, Clearing
  <2> QED
    BY <1>8, <2>1 DEF StepAllocates, ClearItem, uidEntry_destroy, vc_free, hashVars
<1>9. CASE ClearSlot
  <2>1. cur.p \in DOMAIN slot
    BY <1>9 DEF ClearSlot, AtSlot, NoDanglingSlot
  <2> QED
    BY <1>9, <2>1 DEF StepAllocates, ClearSlot, vslot_destroy, vc_free
<1>10. CASE UNCHANGED <<memUsage, slot, entry>>
  BY <1>10 DEF StepAllocates
<1> QED
  BY <1>1, <1>2, <1>3, <1>4, <1>5, <1>6, <1>7, <1>8, <1>9, <1>10
     DEF Next, Main, Thread, Exited, vars, Pick, Lock, Walk, NotFound, Unlock, Join, PrintEntry, Sum,
         FilterKeep, ClearBucket, ResetBucket, Advance, Leave, hashVars

(* Every step keeps track of what is allocated: an entry passes from the   *)
(* thread that creates it to a slot, and from the slot to the thread or to *)
(* main, which destroys it.                                                *)
LEMMA StepNoLostEntry ==
    ASSUME IndInv, NoLostEntry, [Next]_vars
    PROVE  NoLostEntry'
<1> USE DEF IndInv
<1>0. /\ pc \in [Threads -> {"idle", "lock", "search", "dtor", "unlock"}]
      /\ i \in [Threads -> 0 .. Rounds]
      /\ pArg \in [Threads -> Args \cup {NoArg}]
      /\ DOMAIN entry \subseteq Args
      /\ ThreadsOK
      /\ cur \in [b : 0 .. nMaxBucket, p : Nat, pArg : Args \cup {NoArg}]
  BY DEF TypeOK
<1> DEFINE Known(x) == InTable(x) \/ (\E t \in Threads : Holds(t, x)) \/ cur.pArg = x
<1>k. \A x \in DOMAIN entry : Known(x)
  BY DEF NoLostEntry
<1>t. ASSUME NEW t \in Threads, Thread(t) PROVE NoLostEntry'
  <2>0. phase' = "join" /\ cur' = cur /\ cur.pArg = NoArg
    BY <1>t, ThreadsBeforeMain
  <2>n. \A x \in DOMAIN entry : x # NoArg
    BY <1>0, NoneAssumption
  <2>1. /\ \A x : InTable(x) <=> \E s \in DOMAIN slot : slot[s].arg = x
        /\ \A x : InTable(x)' <=> \E s \in DOMAIN slot' : slot'[s].arg = x
    BY <2>0 DEF Clearing, InTable
  <2> DEFINE Mine(x) == (\E s \in DOMAIN slot : slot[s].arg = x) \/ \E u \in Threads : Holds(u, x)
  <2>2. \A x \in DOMAIN entry : Mine(x)
    BY <1>k, <2>0, <2>1, <2>n
  <2>3. SUFFICES ASSUME NEW x \in DOMAIN entry' PROVE Mine(x)'
    BY <2>0, <2>1 DEF NoLostEntry
  <2>4. CASE UNCHANGED slot /\ x \in DOMAIN entry /\ \A u \in Threads : Holds(u, x) => Holds(u, x)'
    BY <2>2, <2>4
  <2>5. ASSUME NEW k \in Keys, NEW id \in Draws[t], Create(t, k, id) PROVE Mine(x)'
    <3>1. /\ pc[t] = "idle" /\ Adder(t) /\ pc' = [pc EXCEPT ![t] = "lock"] /\ i' = i /\ pArg' = pArg
          /\ DOMAIN entry' = DOMAIN entry \cup {e(t)} /\ slot' = slot
      BY <2>5 DEF Create, uidEntry_create, Goto
    <3>2. \A u \in Threads : Holds(u, x) => Holds(u, x)'
      BY <1>0, <3>1 DEF Holds, e
    <3>3. Holds(t, e(t))'
      BY <1>0, <3>1 DEF Holds, e
    <3>4. e(t)' = e(t)
      BY <3>1 DEF e
    <3> QED
      BY <2>4, <3>1, <3>2, <3>3, <3>4
  <2>6. CASE (\E k \in Keys : Pick(t, k)) \/ Lock(t) \/ Walk(t) \/ NotFound(t) \/ Unlock(t)
    <3>1. UNCHANGED <<slot, entry>>
      BY <2>6 DEF Pick, Lock, Walk, NotFound, Unlock
    <3>2. ASSUME NEW u \in Threads, Holds(u, x) PROVE Holds(u, x)'
      <4>1. CASE \E k \in Keys : Pick(t, k)
        BY <1>0, <3>2, <4>1 DEF Pick, MoreRounds, Goto, Holds, e
      <4>2. CASE Lock(t)
        BY <1>0, <3>2, <4>2 DEF Lock, Goto, Holds, e
      <4>3. CASE Walk(t)
        BY <1>0, <3>2, <4>3 DEF Walk, Holds, e
      <4>4. CASE NotFound(t)
        BY <1>0, <3>2, <4>4 DEF NotFound, Missed, Searching, Goto, Holds, e
      <4>5. CASE Unlock(t)
        BY <1>0, <3>2, <4>5 DEF Unlock, Goto, Holds, e
      <4> QED
        BY <2>6, <4>1, <4>2, <4>3, <4>4, <4>5
    <3> QED
      BY <2>4, <3>1, <3>2
  <2>7. CASE Store(t)
    <3>1. /\ DOMAIN slot' = DOMAIN slot \cup {nSlot + 1} /\ slot'[nSlot + 1].arg = e(t)
          /\ \A s \in DOMAIN slot : slot'[s].arg = slot[s].arg
      BY <2>7, StoreTable
    <3>2. /\ pc[t] = "search" /\ Adder(t) /\ pc' = [pc EXCEPT ![t] = "unlock"]
          /\ entry' = entry /\ i' = i /\ pArg' = pArg
      BY <2>7 DEF Store, Missed, Searching, Goto
    <3>3. \A u \in Threads : Holds(u, x) => Holds(u, x)' \/ x = e(t)
      BY <1>0, <3>2 DEF Holds, e
    <3> QED
      BY <2>2, <2>3, <3>1, <3>2, <3>3
  <2>8. CASE Reject(t)
    <3>1. /\ pc[t] = "search" /\ Adder(t) /\ pc' = [pc EXCEPT ![t] = "unlock"]
          /\ DOMAIN entry' = DOMAIN entry \ {e(t)} /\ slot' = slot /\ i' = i /\ pArg' = pArg
      BY <2>8 DEF Reject, Hit, Searching, Goto, uidEntry_destroy
    <3>2. \A u \in Threads : Holds(u, x) => Holds(u, x)' \/ x = e(t)
      BY <1>0, <3>1 DEF Holds, e
    <3> QED
      BY <2>3, <2>4, <3>1, <3>2
  <2>9. CASE Pop(t)
    <3>1. /\ DOMAIN slot' = DOMAIN slot \ {p[t]}
          /\ \A s \in DOMAIN slot \ {p[t]} : slot'[s].arg = slot[s].arg
      BY <2>9, PopTable
    <3>2. /\ pc[t] = "search" /\ ~Adder(t) /\ pc' = [pc EXCEPT ![t] = "dtor"]
          /\ pArg' = [pArg EXCEPT ![t] = slot[p[t]].arg]
          /\ entry' = entry /\ i' = i
      BY <2>9 DEF Pop, Hit, Searching, Goto
    <3>3. \A u \in Threads : Holds(u, x) => Holds(u, x)'
      BY <1>0, <3>2 DEF Holds, e
    <3>4. x = slot[p[t]].arg => Holds(t, x)'
      BY <1>0, <3>2 DEF Holds
    <3> QED
      BY <2>2, <2>3, <3>1, <3>2, <3>3, <3>4
  <2>10. CASE Dtor(t)
    <3>1. /\ pc[t] = "dtor" /\ pc' = [pc EXCEPT ![t] = "unlock"]
          /\ DOMAIN entry' = DOMAIN entry \ {pArg[t]}
          /\ slot' = slot /\ i' = i /\ pArg' = [pArg EXCEPT ![t] = NoArg]
      BY <2>10 DEF Dtor, Goto, uidEntry_destroy
    <3>2. \A u \in Threads : Holds(u, x) => Holds(u, x)' \/ x = pArg[t]
      BY <1>0, <3>1 DEF Holds, ThreadsOK, e
    <3> QED
      BY <2>3, <2>4, <3>1, <3>2
  <2> QED
    BY <1>t, <2>5, <2>6, <2>7, <2>8, <2>9, <2>10 DEF Thread
<1>m. ASSUME Main PROVE NoLostEntry'
  <2>0. \A t \in Threads : \A x : ~Holds(t, x)
    BY <1>m, MainHolders
  <2>1. \A x \in DOMAIN entry : InTable(x) \/ cur.pArg = x
    BY <1>k, <2>0
  <2>2. CASE CreateTable \/ Join \/ PrintEntry \/ Sum \/ FilterKeep \/ ClearBucket \/ Advance \/ Leave
    <3>1. UNCHANGED <<slot, entry>> /\ phase' # "end"
      BY <2>2 DEF CreateTable, Join, PrintEntry, Sum, FilterKeep, ClearBucket, ResetBucket, Advance,
                  Leave, hashVars, Following, Printing, Summing
    <3>2. cur.pArg = NoArg
      BY <2>2, BucketAssumption
         DEF CreateTable, Join, PrintEntry, Sum, FilterKeep, ClearBucket, Advance, Leave,
             Printing, Summing, AtBucketEnd, AtTableEnd, MainItemOK
    <3>3. cur'.pArg = NoArg
      BY <2>2, <3>2, <1>0 DEF CreateTable, Join, PrintEntry, Sum, FilterKeep, ClearBucket, Advance,
                        Leave, Start, NextBucket
    <3> QED
      BY <1>0, <2>1, <3>1, <3>2, <3>3, NoneAssumption DEF NoLostEntry, InTable, Clearing
  <2>3. CASE FilterOut
    <3>1. /\ DOMAIN slot' = DOMAIN slot \ {cur.p}
          /\ \A s \in DOMAIN slot \ {cur.p} : slot'[s].arg = slot[s].arg
      BY <2>3, FilterTable
    <3>2. /\ phase = "filter" /\ phase' = phase /\ entry' = entry
          /\ cur.pArg = NoArg /\ cur'.pArg = slot[cur.p].arg
      BY <1>0, <2>3 DEF FilterOut
    <3> QED
      BY <1>0, <2>1, <3>1, <3>2, NoneAssumption DEF NoLostEntry, InTable, Clearing
  <2>4. CASE FilterDtor
    <3>1. /\ phase = "filter" /\ phase' = phase /\ slot' = slot
          /\ DOMAIN entry' = DOMAIN entry \ {cur.pArg}
      BY <2>4 DEF FilterDtor, uidEntry_destroy, hashVars
    <3> QED
      BY <2>1, <3>1 DEF NoLostEntry, InTable, Clearing
  <2>5. CASE ClearItem
    <3>1. /\ phase = "destroy" /\ phase' = phase /\ slot' = slot /\ cur.pArg = NoArg
          /\ cur'.p = cur.p /\ DOMAIN entry' = DOMAIN entry \ {slot[cur.p].arg}
      BY <1>0, <2>5 DEF ClearItem, uidEntry_destroy, hashVars
    <3> QED
      BY <1>0, <2>1, <3>1, NoneAssumption DEF NoLostEntry, InTable, Clearing
  <2>6. CASE ClearSlot
    <3>1. /\ phase = "destroy" /\ phase' = phase /\ entry' = entry /\ cur'.pArg = NoArg
          /\ DOMAIN slot' = DOMAIN slot \ {cur.p} /\ cur.pArg # NoArg
          /\ \A s \in DOMAIN slot \ {cur.p} : slot'[s] = slot[s]
      BY <1>0, <2>6 DEF ClearSlot, vslot_destroy
    <3>2. cur.pArg \notin DOMAIN entry
      BY <3>1 DEF MainItemOK
    <3> QED
      BY <2>1, <3>1, <3>2 DEF NoLostEntry, InTable, Clearing
  <2>7. CASE FreeTable
    <3>1. /\ phase = "destroy" /\ cur.b = nMaxBucket /\ UNCHANGED <<slot, entry, cur>>
      BY <2>7 DEF FreeTable, AtTableEnd, hashVars
    <3>2. DOMAIN slot = {}
      <4>1. \A s \in DOMAIN slot : BucketOf(s) \in Buckets
        BY HashAssumption DEF TypeOK, HashTypeOK, BucketOf, Buckets, SlotType
      <4>2. \A b \in Buckets : Chain(b) = {}
        BY <3>1, BucketAssumption DEF RestWellLinked, Buckets
      <4> QED
        BY <4>1, <4>2 DEF Chain
    <3>3. cur.pArg = NoArg
      BY <3>1, BucketAssumption DEF MainItemOK
    <3>4. \A x \in DOMAIN entry : FALSE
      BY <1>0, <2>1, <3>2, <3>3, NoneAssumption DEF InTable
    <3> QED
      BY <3>1, <3>2, <3>4 DEF NoLostEntry
  <2> QED
    BY <1>m, <2>2, <2>3, <2>4, <2>5, <2>6, <2>7 DEF Main
<1>u. CASE UNCHANGED vars
  BY <1>u DEF vars, NoLostEntry, InTable, Clearing, Holds, e
<1> QED
  BY <1>t, <1>m, <1>u DEF Next, Exited

(* Before the first step of a loop nothing has been visited, and after the *)
(* last one everything has; in between the slots are visited in order,     *)
(* each once.                                                              *)
LEMMA BehindStart ==
    ASSUME IndInv, WellLinked, UNCHANGED <<slot, bucket>>, cur' = Start
    PROVE  Behind' = {}
<1>1. /\ 0 \in Buckets /\ EndsOK(0)
      /\ \A s \in DOMAIN slot : s \in Nat /\ BucketOf(s) \in Buckets
  BY BucketAssumption, SlotFacts DEF IndInv, TypeOK, WellLinked, Buckets
<1>2. cur'.b = 0 /\ cur'.p = bucket[0].head
  BY DEF Start
<1>3. Behind' = {s \in DOMAIN slot : BucketOf(s) < 0 \/ (BucketOf(s) = 0 /\ (bucket[0].head = NULL \/ s < bucket[0].head))}
  BY <1>2 DEF Behind, BucketOf
<1> QED
  BY <1>1, <1>3 DEF EndsOK, Chain, Buckets

LEMMA BehindSlot ==
    ASSUME IndInv, WellLinked, AtSlot, UNCHANGED <<slot, bucket>>,
           cur' = [cur EXCEPT !.p = slot[cur.p].next]
    PROVE  Behind' = Behind \cup {cur.p} /\ cur.p \notin Behind /\ cur.p \in DOMAIN slot
<1>1. /\ cur \in [b : 0 .. nMaxBucket, p : Nat, pArg : Args \cup {NoArg}]
      /\ cur.p \in DOMAIN slot /\ BucketOf(cur.p) = cur.b
      /\ \A s \in DOMAIN slot : s \in Nat \ {0} /\ BucketOf(s) \in Buckets
  BY SlotFacts DEF IndInv, TypeOK, AtSlot, NoDanglingSlot
<1>2. NextOK(cur.p)
  BY <1>1 DEF WellLinked
<1>3. cur'.b = cur.b /\ cur'.p = slot[cur.p].next
  BY <1>1
<1>4. Behind' = {s \in DOMAIN slot : BucketOf(s) < cur.b
                    \/ (BucketOf(s) = cur.b /\ (slot[cur.p].next = NULL \/ s < slot[cur.p].next))}
  BY <1>3 DEF Behind, BucketOf
<1>5. \A s \in Chain(cur.b) : slot[cur.p].next = NULL \/ s < slot[cur.p].next <=> s < cur.p \/ s = cur.p
  BY <1>1, <1>2 DEF NextOK, Chain, NULL
<1>6. cur.p # NULL
  BY DEF AtSlot
<1> QED
  BY <1>1, <1>4, <1>5, <1>6, BucketAssumption DEF Behind, Chain, Buckets

LEMMA BehindBucket ==
    ASSUME IndInv, WellLinked, AtBucketEnd, UNCHANGED <<slot, bucket>>, cur' = NextBucket
    PROVE  Behind' = Behind
<1>1. /\ cur.b \in 0 .. nMaxBucket /\ cur.b < nMaxBucket /\ cur.p = NULL
      /\ \A s \in DOMAIN slot : s \in Nat \ {0} /\ BucketOf(s) \in Buckets
  BY SlotFacts DEF IndInv, TypeOK, AtBucketEnd
<1>2. cur.b + 1 < nMaxBucket => cur.b + 1 \in Buckets /\ EndsOK(cur.b + 1)
  BY <1>1, BucketAssumption DEF WellLinked, Buckets
<1>3. /\ cur'.b = cur.b + 1
      /\ cur'.p = IF cur.b + 1 < nMaxBucket THEN bucket[cur.b + 1].head ELSE NULL
  BY DEF NextBucket
<1>4. ASSUME NEW s \in DOMAIN slot
      PROVE  BucketOf(s) = cur.b + 1 => ~(cur'.p = NULL \/ s < cur'.p)
  BY <1>1, <1>2, <1>3, BucketAssumption DEF EndsOK, Chain, Buckets
<1>5. Behind' = {s \in DOMAIN slot : BucketOf(s) < cur.b + 1
                    \/ (BucketOf(s) = cur.b + 1 /\ (cur'.p = NULL \/ s < cur'.p))}
  BY <1>3 DEF Behind, BucketOf
<1>6. \A s \in DOMAIN slot : BucketOf(s) < cur.b + 1 <=> BucketOf(s) < cur.b \/ BucketOf(s) = cur.b
  BY <1>1, BucketAssumption DEF Buckets
<1> QED
  BY <1>1, <1>4, <1>5, <1>6 DEF Behind

LEMMA BehindEnd ==
    ASSUME IndInv, AtTableEnd
    PROVE  /\ Behind = DOMAIN slot
           /\ {s \in DOMAIN slot : BucketOf(s) < cur.b} = DOMAIN slot
<1>1. \A s \in DOMAIN slot : BucketOf(s) \in Buckets
  BY SlotFacts DEF IndInv, TypeOK
<1> QED
  BY <1>1, BucketAssumption DEF Behind, AtTableEnd, Buckets

(* What the counters count, and what main's loops have established. *)
CountInv == CountersExact /\ LoopsExact

LEMMA InitCounts == Init => CountInv
<1> SUFFICES ASSUME Init PROVE CountInv
  OBVIOUS
<1>1. /\ DOMAIN slot = {} /\ DOMAIN entry = {} /\ phase = "create" /\ memUsage = 0 /\ tally = 0
      /\ bucket = [b \in Buckets |-> [size |-> 0, head |-> NULL, tail |-> NULL]]
  BY DEF Init, EmptyTable
<1>2. IsFiniteSet({}) /\ Cardinality({}) = 0
  BY FS_EmptySet
<1>3. SizesExact
  <2>1. \A b : Chain(b) = {}
    BY <1>1 DEF Chain
  <2> QED
    BY <1>1, <1>2, <2>1 DEF SizesExact
<1>4. CountersExact
  BY <1>1, <1>2, <1>3 DEF CountersExact, NoLostEntry, SlotSize, EntrySize
<1> QED
  BY <1>1, <1>4 DEF CountInv, LoopsExact, Printing, Summing

(* The sizes of the buckets, under every step. *)
LEMMA StepSizes ==
    ASSUME IndInv, CountersExact, [Next]_vars
    PROVE  phase' \notin {"destroy", "end"} => SizesExact'
<1> USE DEF IndInv
<1>0. /\ HashTypeOK /\ IsFiniteSet(DOMAIN slot)
      /\ phase' \notin {"destroy", "end"} => phase \notin {"destroy", "end"}
      /\ phase \notin {"destroy", "end"} => SizesExact
  <2>1. phase' \notin {"destroy", "end"} => phase \notin {"destroy", "end"}
    BY ZenonT(30) DEF Next, Main, Thread, Create, uidEntry_create, MoreRounds, Pick, Lock, vhashtable_lock, Walk, Store, Reject, Pop, Dtor, NotFound,
           Unlock, vhashtable_unlock, CreateTable, Join, PrintEntry, Sum, FilterOut, FilterDtor, FilterKeep,
           ClearItem, ClearSlot, ClearBucket, Advance, Leave, FreeTable, Exited, vars, Following
  <2> QED
    BY <2>1 DEF TypeOK, CountersExact
<1>1. ASSUME NEW t \in Threads, Store(t) PROVE SizesExact'
  <2>1. phase = "join"
    BY <1>1, ThreadsBeforeMain DEF Thread
  <2>2. buf[t] \in Keys /\ e(t) \in Args /\ vchain_append(buf[t], e(t))
    BY <1>1, StoreTable DEF Store
  <2> QED
    BY <1>0, <2>1, <2>2, AppendSizes
<1>2. ASSUME NEW t \in Threads, Pop(t) PROVE SizesExact'
  <2>1. phase = "join"
    BY <1>2, ThreadsBeforeMain DEF Thread
  <2>2. p[t] \in Chain(Hash[buf[t]]) /\ Hash[buf[t]] \in Buckets /\ Unlink(Hash[buf[t]], p[t])
    BY <1>2, PopTable, HashAssumption DEF Pop, Buckets
  <2> QED
    BY <1>0, <2>1, <2>2, UnlinkSizes
<1>3. CASE FilterOut
  <2>1. phase = "filter" /\ cur.b \in Buckets /\ cur.p \in Chain(cur.b) /\ Unlink(cur.b, cur.p)
    BY <1>3, FilterTable DEF FilterOut
  <2> QED
    BY <1>0, <2>1, UnlinkSizes
<1>4. CASE ClearSlot \/ ClearBucket
  BY <1>4 DEF ClearSlot, ClearBucket
<1>5. CASE UNCHANGED hashVars
  BY <1>0, <1>5 DEF hashVars, SizesExact, Chain, BucketOf
<1> QED
  BY <1>1, <1>2, <1>3, <1>4, <1>5, TableFrame

(* Every step keeps the counters exact. *)
LEMMA StepCounters == ASSUME IndInv, CountersExact, [Next]_vars PROVE CountersExact'
<1> DEFINE TableBytes == IF phase \in {"create", "end"} THEN 0 ELSE TableSize + nMaxBucket * BucketSize
<1>0. /\ NoLostEntry /\ IsFiniteSet(DOMAIN slot) /\ IsFiniteSet(DOMAIN entry)
      /\ memUsage \in Int /\ memUsage = TableBytes + Allocated
      /\ nMaxBucket \in Nat
      /\ Allocated \in Int
  <2>1. Cardinality(DOMAIN slot) \in Nat /\ Cardinality(DOMAIN entry) \in Nat
    BY FS_CardinalityType DEF CountersExact
  <2>2. TableBytes \in Int
    BY BucketAssumption DEF TableSize, BucketSize
  <2> QED
    BY <2>1, <2>2, BucketAssumption DEF CountersExact, IndInv, TypeOK, Allocated, SlotSize, EntrySize
<1>1. NoLostEntry'
  BY <1>0, StepNoLostEntry
<1>2. phase' \notin {"destroy", "end"} => SizesExact'
  BY StepSizes
<1>3. CASE CreateTable \/ FreeTable
  <2>1. /\ slot' = slot /\ entry' = entry
        /\ \/ phase = "create" /\ phase' = "join" /\ memUsage' = memUsage + (TableSize + nMaxBucket * BucketSize)
           \/ phase = "destroy" /\ phase' = "end" /\ memUsage' = memUsage - (TableSize + nMaxBucket * BucketSize)
    BY <1>3 DEF CreateTable, FreeTable, vc_malloc, vc_free, hashVars
  <2>2. memUsage' = TableBytes' + Allocated'
    BY <1>0, <2>1 DEF Allocated, TableSize, BucketSize
  <2> QED
    <3>1. Cardinality(DOMAIN slot') \in Nat /\ Cardinality(DOMAIN entry') \in Nat
      BY <1>0, <2>1, FS_CardinalityType
    <3>2. TableBytes' \in Int
      BY <1>0 DEF TableSize, BucketSize
    <3>3. memUsage' = TableBytes' + SlotSize * Cardinality(DOMAIN slot') + EntrySize * Cardinality(DOMAIN entry')
      BY <2>2, <3>1, <3>2 DEF Allocated, SlotSize, EntrySize
    <3> QED
      BY <1>0, <1>1, <1>2, <2>1, <3>3 DEF CountersExact
<1>4. CASE ~CreateTable /\ ~FreeTable
  <2>1. StepAllocates
    BY <1>4, StepOne
  <2>2. /\ IsFiniteSet(DOMAIN slot') /\ IsFiniteSet(DOMAIN entry')
        /\ memUsage' - memUsage = Allocated' - Allocated
    BY <1>0, <2>1, StepMemory
  <2>3. TableBytes' = TableBytes
    <3>1. ASSUME NEW t \in Threads, Thread(t) PROVE phase' = phase
      BY <3>1, ThreadsBeforeMain
    <3>2. ASSUME Main PROVE phase' \in {"create", "end"} <=> phase \in {"create", "end"}
      BY <1>4, <3>2 DEF Main, Join, PrintEntry, Sum, FilterOut, FilterDtor, FilterKeep,
           ClearItem, ClearSlot, ClearBucket, Advance, Leave, Following, Printing, Summing
    <3>3. CASE UNCHANGED vars
      BY <3>3 DEF vars
    <3> QED
      BY <3>1, <3>2, <3>3 DEF Next, Exited
  <2>4. Allocated' \in Int
    <3>1. Cardinality(DOMAIN slot') \in Nat /\ Cardinality(DOMAIN entry') \in Nat
      BY <2>2, FS_CardinalityType
    <3> QED
      BY <3>1 DEF Allocated, SlotSize, EntrySize
  <2>5. memUsage' \in Int /\ TableBytes \in Int
    BY StepTypeOK, BucketAssumption DEF TypeOK, TableSize, BucketSize
  <2>6. memUsage' = TableBytes + Allocated'
    <3>1. PICK T \in Int : T = TableBytes
      BY <2>5
    <3>2. PICK a \in Int : a = Allocated'
      BY <2>4
    <3>3. memUsage = T + Allocated /\ memUsage' - memUsage = a - Allocated
      BY <1>0, <2>2, <3>1, <3>2
    <3>4. memUsage' = T + a
      BY <1>0, <2>5, <3>3
    <3> QED
      BY <3>1, <3>2, <3>4
  <2> QED
    <3>1. Cardinality(DOMAIN slot') \in Nat /\ Cardinality(DOMAIN entry') \in Nat
      BY <2>2, FS_CardinalityType
    <3>2. memUsage' = TableBytes' + SlotSize * Cardinality(DOMAIN slot') + EntrySize * Cardinality(DOMAIN entry')
      BY <2>3, <2>5, <2>6, <3>1 DEF Allocated, SlotSize, EntrySize
    <3> QED
      BY <1>1, <1>2, <2>2, <3>2 DEF CountersExact
<1> QED
  BY <1>3, <1>4

LEMMA StepLoops ==
    ASSUME IndInv, CountersExact, LoopsExact, [Next]_vars
    PROVE  LoopsExact'
<1> USE DEF IndInv
<1>0. /\ HashTypeOK /\ ChainsWellLinked
      /\ cur \in [b : 0 .. nMaxBucket, p : Nat, pArg : Args \cup {NoArg}]
      /\ IsFiniteSet(DOMAIN slot)
      /\ Cardinality({}) = 0
  BY FS_EmptySet DEF TypeOK, CountersExact
<1> DEFINE Summed == {s \in DOMAIN slot : BucketOf(s) < cur.b}
<1>1. ASSUME NEW t \in Threads, Thread(t) PROVE LoopsExact'
  <2>1. phase = "join" /\ phase' = "join"
    BY <1>1, ThreadsBeforeMain
  <2>2. tally' = tally
    BY <1>1 DEF Thread, Create, Pick, Lock, Walk, Store, Reject, Pop, Dtor, NotFound, Unlock
  <2> QED
    BY <2>1, <2>2 DEF LoopsExact, Printing, Summing
<1>2. CASE CreateTable \/ ClearItem \/ ClearSlot \/ ClearBucket \/ FreeTable
  BY <1>2 DEF CreateTable, ClearItem, ClearSlot, ClearBucket, FreeTable, LoopsExact, Printing, Summing
<1>3. CASE Join \/ Leave
  <2>1. /\ UNCHANGED <<slot, bucket, entry>> /\ cur' = Start /\ tally' = 0
        /\ phase \notin {"destroy", "end"} /\ phase' \notin {"create", "join"}
    BY <1>3 DEF Join, Leave, Following, hashVars, LoopsExact
  <2>2. Behind' = {}
    BY <1>0, <2>1, BehindStart DEF ChainsWellLinked
  <2>3. Summed' = {}
    <3>1. cur'.b = 0 /\ \A s \in DOMAIN slot : BucketOf(s)' = BucketOf(s) /\ BucketOf(s) \in Buckets
      BY <1>0, <2>1, SlotFacts DEF Start, BucketOf
    <3> QED
      BY <2>1, <3>1, BucketAssumption DEF Buckets
  <2> QED
    BY <1>0, <2>1, <2>2, <2>3 DEF LoopsExact
<1>4. CASE PrintEntry
  <2>1. /\ Printing /\ WellLinked /\ phase' = phase /\ tally' = tally + 1
        /\ Behind' = Behind \cup {cur.p} /\ cur.p \notin Behind
    BY <1>0, <1>4, BehindSlot DEF PrintEntry, Printing, ChainsWellLinked, hashVars
  <2>2. IsFiniteSet(Behind)
    BY <1>0, FS_Subset DEF Behind
  <2>3. Cardinality(Behind') = Cardinality(Behind) + 1
    BY <2>1, <2>2, CardinalityAdd
  <2> QED
    BY <2>1, <2>3 DEF LoopsExact, Printing, Summing
<1>5. CASE Sum
  <2>1. /\ Summing /\ SizesExact /\ phase' = phase /\ UNCHANGED slot
        /\ cur.b \in Buckets /\ tally' = tally + bucket[cur.b].size /\ cur'.b = cur.b + 1
    BY <1>0, <1>5, BucketAssumption DEF Sum, Summing, CountersExact, hashVars, NextBucket, Buckets
  <2>2. \A s \in DOMAIN slot : BucketOf(s) < cur.b + 1 <=> BucketOf(s) < cur.b \/ BucketOf(s) = cur.b
    BY <1>0, <2>1, SlotFacts, BucketAssumption DEF Buckets
  <2>3. Summed' = Summed \cup Chain(cur.b) /\ Summed \cap Chain(cur.b) = {}
    BY <1>0, <2>1, <2>2, SlotFacts, BucketAssumption DEF Chain, BucketOf, Buckets
  <2>4. IsFiniteSet(Summed) /\ IsFiniteSet(Chain(cur.b))
    BY <1>0, FS_Subset DEF Chain
  <2>5. Cardinality(Summed') = Cardinality(Summed) + Cardinality(Chain(cur.b))
    <3>1. Cardinality(Summed \cup Chain(cur.b)) = Cardinality(Summed) + Cardinality(Chain(cur.b))
      <4> HIDE DEF Summed
      <4> QED
        BY <2>3, <2>4, CardinalityDisjoint
    <3> QED
      BY <2>3, <3>1
  <2>6. tally' = Cardinality(Summed')
    BY <2>1, <2>5 DEF LoopsExact, SizesExact
  <2> QED
    BY <2>1, <2>6 DEF LoopsExact, Printing, Summing
<1>6. CASE FilterOut
  <2>1. /\ phase = "filter" /\ phase' = phase /\ entry' = entry /\ tally' = tally
        /\ cur'.b = cur.b /\ cur'.p = slot[cur.p].next /\ cur.p # NULL
    BY <1>0, <1>6 DEF FilterOut, AtSlot
  <2>2. /\ cur.p \in Chain(cur.b) /\ WellLinked
        /\ DOMAIN slot' = DOMAIN slot \ {cur.p}
        /\ \A s \in DOMAIN slot \ {cur.p} : slot'[s].key = slot[s].key /\ slot'[s].arg = slot[s].arg
    BY <1>6, FilterTable
  <2>3. cur.p \in DOMAIN slot /\ BucketOf(cur.p) = cur.b /\ NextOK(cur.p)
    BY <2>2 DEF Chain, WellLinked
  <2>4. Behind' \subseteq Behind
    <3>1. \A s \in Chain(cur.b) : slot[cur.p].next = NULL \/ s < slot[cur.p].next => s < cur.p \/ s = cur.p
      BY <1>0, <2>1, <2>3, SlotFacts DEF NextOK, Chain, NULL
    <3> QED
      BY <2>1, <2>2, <3>1 DEF Behind, BucketOf, Chain
  <2>5. cur.p \notin Behind'
    BY <2>2 DEF Behind
  <2>6. \A s \in Behind' : slot'[s].arg = slot[s].arg
    BY <2>2 DEF Behind
  <2> QED
    BY <2>1, <2>4, <2>5, <2>6 DEF LoopsExact, filter, Printing, Summing
<1>7. CASE FilterDtor
  <2>1. /\ phase = "filter" /\ phase' = phase /\ tally' = tally /\ slot' = slot /\ cur.pArg # NoArg
        /\ cur'.b = cur.b /\ cur'.p = cur.p
        /\ \A x \in DOMAIN entry \ {cur.pArg} : entry'[x] = entry[x]
    BY <1>0, <1>7 DEF FilterDtor, hashVars, uidEntry_destroy
  <2>2. Behind' = Behind
    BY <2>1 DEF Behind, BucketOf
  <2>3. \A s \in DOMAIN slot : slot[s].arg # cur.pArg /\ slot[s].arg \in DOMAIN entry
    BY <2>1 DEF MainItemOK, InTable, Clearing, OneOwner
  <2>4. \A s \in Behind : entry'[slot[s].arg] = entry[slot[s].arg]
    BY <2>1, <2>3 DEF Behind
  <2> QED
    BY <2>1, <2>2, <2>4 DEF LoopsExact, filter, Printing, Summing
<1>8. CASE FilterKeep
  <2>1. /\ phase = "filter" /\ phase' = phase /\ UNCHANGED <<slot, entry, tally>>
        /\ WellLinked /\ ~filter(slot[cur.p].arg)
        /\ Behind' = Behind \cup {cur.p}
    BY <1>0, <1>8, BehindSlot DEF FilterKeep, ChainsWellLinked, hashVars
  <2> QED
    BY <2>1 DEF LoopsExact, filter, Printing, Summing
<1>9. CASE Advance
  <2>1. /\ Printing \/ phase = "filter"
        /\ UNCHANGED <<phase, slot, entry, tally>>
        /\ Behind' = Behind
    BY <1>0, <1>9, BehindBucket DEF Advance, Printing, ChainsWellLinked, hashVars
  <2> QED
    BY <2>1 DEF LoopsExact, filter, Printing, Summing
<1>10. CASE UNCHANGED vars
  <2>1. Behind' = Behind /\ Summed' = Summed
    BY <1>10 DEF vars, Behind, BucketOf
  <2> QED
    BY <1>10, <2>1 DEF vars, LoopsExact, filter, Printing, Summing
<1> QED
  BY <1>1, <1>2, <1>3, <1>4, <1>5, <1>6, <1>7, <1>8, <1>9, <1>10 DEF Next, Main, Exited

(* The counters, and what the loops have established, hold in every state. *)
LEMMA CountInvariance == Spec => [](IndInv /\ CountInv)
<1>1. Init => IndInv /\ CountInv
  BY InitInvariant, InitCounts
<1>2. IndInv /\ CountInv /\ [Next]_vars => (IndInv /\ CountInv)'
  BY StepInvariant, StepCounters, StepLoops DEF CountInv
<1> QED
  BY <1>1, <1>2, PTL DEF Spec

(* gMemUsage is the sum of the sizes of what is allocated, the size of     *)
(* each bucket is the length of its chain, and no entry is lost.           *)
THEOREM CountersCorrect == Spec => []CountersExact
<1>1. CountInv => CountersExact
  BY DEF CountInv
<1> QED
  BY <1>1, CountInvariance, PTL

(* What main's loops have printed, counted or filtered is what they have   *)
(* passed.                                                                 *)
THEOREM LoopsCorrect == Spec => []LoopsExact
<1>1. CountInv => LoopsExact
  BY DEF CountInv
<1> QED
  BY <1>1, CountInvariance, PTL

(* When main leaves a loop that prints or sums, the tally is the number of *)
(* slots in the table.                                                     *)
THEOREM TallyCorrect == Spec => TallyExact
<1>1. ASSUME IndInv, CountInv, [Next]_vars
      PROVE  [phase' # phase /\ (Printing \/ Summing) => tally = Cardinality(DOMAIN slot)]_vars
  <2>1. SUFFICES ASSUME phase' # phase, Printing \/ Summing
                 PROVE  tally = Cardinality(DOMAIN slot)
    OBVIOUS
  <2>2. AtTableEnd
    <3>1. ASSUME NEW t \in Threads, Thread(t) PROVE FALSE
      BY <1>1, <2>1, <3>1, ThreadsBeforeMain
    <3>2. CASE Main
      BY <2>1, <3>2 DEF Main, CreateTable, Join, PrintEntry, Sum, FilterOut, FilterDtor, FilterKeep,
         ClearItem, ClearSlot, ClearBucket, Advance, Leave, FreeTable, Printing, Summing
    <3> QED
      BY <1>1, <2>1, <3>1, <3>2 DEF Next, Exited, vars
  <2> QED
    BY <1>1, <2>1, <2>2, BehindEnd DEF CountInv, LoopsExact
<1> QED
  BY <1>1, CountInvariance, PTL DEF Spec, TallyExact

------------------------------------------------------------------------------
(* The map.                                                                *)

(* A name is bound to the id of the entry its slot carries. *)
Carries(s, k) == s \in DOMAIN slot /\ slot[s].key = k /\ ~Clearing(s)

StoredExact ==
    \A k \in Keys :
        /\ \A s : Carries(s, k) => Stored(k) = entry[slot[s].arg].id /\ Stored(k) # Absent
        /\ (\A s : ~Carries(s, k)) => Stored(k) = Absent

LEMMA StoredFacts == IndInv => StoredExact
<1> SUFFICES ASSUME IndInv, NEW k \in Keys
             PROVE  /\ \A s : Carries(s, k) => Stored(k) = entry[slot[s].arg].id /\ Stored(k) # Absent
                    /\ (\A s : ~Carries(s, k)) => Stored(k) = Absent
  BY DEF StoredExact
<1>1. ASSUME NEW s, Carries(s, k) PROVE Stored(k) = entry[slot[s].arg].id /\ Stored(k) # Absent
  <2> DEFINE c == CHOOSE r \in DOMAIN slot : slot[r].key = k /\ ~Clearing(r)
  <2>1. c \in DOMAIN slot /\ slot[c].key = k
    BY <1>1 DEF Carries
  <2>2. c = s
    BY <1>1, <2>1 DEF IndInv, UniqueKeys, KeysUnique, Carries
  <2>3. Stored(k) = entry[slot[s].arg].id
    BY <1>1, <2>2 DEF Stored, Carries
  <2>4. slot[s].arg \in DOMAIN entry
    BY <1>1 DEF IndInv, OneOwner, Carries
  <2>5. entry[slot[s].arg].id \in Ids
    BY <2>4 DEF IndInv, TypeOK, EntryType
  <2> QED
    BY <2>3, <2>5, AbsentAssumption
<1>2. ASSUME \A s : ~Carries(s, k) PROVE Stored(k) = Absent
  BY <1>2 DEF Stored, Carries
<1> QED
  BY <1>1, <1>2

LEMMA StoredFactsNext == IndInv' => StoredExact'
BY StoredFacts, PTL

(* The operation a thread has in progress, by where it is. *)
OpExact ==
    \A t \in Threads :
        /\ pc[t] = "idle" => Op(t) = [do |-> "none"]
        /\ pc[t] = "unlock" => Op(t) = [do |-> "return", ret |-> ret[t]]
        /\ pc[t] = "dtor" => Op(t) = [do |-> "return", ret |-> "OKAY"]
        /\ pc[t] \in {"lock", "search"} /\ Adder(t) =>
             Op(t) = [do |-> "add", key |-> buf[t], id |-> entry[e(t)].id]
        /\ pc[t] \in {"lock", "search"} /\ ~Adder(t) =>
             Op(t) = [do |-> "delete", key |-> buf[t]]

LEMMA OpFacts == OpExact
BY DEF OpExact, Op

LEMMA OpFactsNext == OpExact'
BY OpFacts, PTL

LEMMA OpChange ==
    ASSUME NEW t \in Threads, NEW v, Op(t)' = v,
           \A u \in Threads \ {t} : Op(u)' = Op(u)
    PROVE  mapOp' = [mapOp EXCEPT ![t] = v]
BY DEF mapOp

LEMMA StoreChange ==
    ASSUME NEW k \in Keys, NEW v, Stored(k)' = v,
           \A j \in Keys \ {k} : Stored(j)' = Stored(j)
    PROVE  mapStore' = [mapStore EXCEPT ![k] = v]
BY DEF mapStore

LEMMA StoreSame ==
    ASSUME \A k \in Keys : Stored(k)' = Stored(k)
    PROVE  mapStore' = mapStore
BY DEF mapStore

LEMMA OpSame ==
    ASSUME \A t \in Threads : Op(t)' = Op(t)
    PROVE  mapOp' = mapOp
BY DEF mapOp

(* A step of one thread leaves the operations of the others alone: what    *)
(* it destroys is not what they hold.                                      *)
LEMMA OthersKeepOp ==
    ASSUME IndInv, NEW t \in Threads, Thread(t), NEW u \in Threads, u # t
    PROVE  Op(u)' = Op(u)
<1> USE DEF IndInv
<1>0. /\ pc \in [Threads -> {"idle", "lock", "search", "dtor", "unlock"}]
      /\ i \in [Threads -> 0 .. Rounds]
      /\ buf \in [Threads -> Keys \cup {NoName}]
      /\ ret \in [Threads -> {"none", "OKAY", "FAIL"}]
      /\ pArg \in [Threads -> Args \cup {NoArg}]
      /\ DOMAIN entry \subseteq Args
  BY DEF TypeOK
<1>1. pc'[u] = pc[u] /\ i'[u] = i[u] /\ buf'[u] = buf[u] /\ ret'[u] = ret[u]
  BY <1>0 DEF Thread, Create, Pick, Lock, Walk, Store, Reject, Pop, Dtor, NotFound, Unlock, Goto
<1>e. \A w \in Threads : e(w) \in Args /\ (e(w) = e(u) => w = u)
  BY <1>0, ArgsAssumption DEF e
<1>2. ASSUME Adder(u), pc[u] \in {"lock", "search"} PROVE entry'[e(u)] = entry[e(u)]
  <2>1. Holds(u, e(u)) /\ e(u) \in DOMAIN entry /\ \A w \in Threads : Holds(w, e(u)) => w = u
    BY <1>2, <1>e DEF Holds, OneOwner
  <2>2. CASE entry' = entry
    BY <2>2
  <2>3. ASSUME NEW k \in Keys, NEW id \in Draws[t], Create(t, k, id) PROVE entry'[e(u)] = entry[e(u)]
    BY <1>e, <2>1, <2>3 DEF Create, uidEntry_create
  <2>4. CASE Reject(t)
    BY <1>e, <2>1, <2>4 DEF Reject, uidEntry_destroy
  <2>5. CASE Dtor(t)
    <3>1. Holds(t, pArg[t])
      BY <2>5 DEF Dtor, Holds
    <3>2. pArg[t] # e(u)
      BY <2>1, <3>1
    <3> QED
      BY <2>1, <2>5, <3>2 DEF Dtor, uidEntry_destroy
  <2> QED
    BY <2>2, <2>3, <2>4, <2>5 DEF Thread, Pick, Lock, Walk, Store, Pop, NotFound, Unlock
<1>3. e(u)' = e(u)
  BY <1>1 DEF e
<1>4. CASE Adder(u) /\ pc[u] \in {"lock", "search"}
  <2>1. Op(u) = [do |-> "add", key |-> buf[u], id |-> entry[e(u)].id]
    BY <1>4, OpFacts DEF OpExact
  <2>2. Op(u)' = [do |-> "add", key |-> buf'[u], id |-> entry'[e(u)'].id]
    BY <1>1, <1>4, OpFactsNext DEF OpExact
  <2> QED
    BY <1>1, <1>2, <1>3, <1>4, <2>1, <2>2
<1>5. CASE ~(Adder(u) /\ pc[u] \in {"lock", "search"})
  BY <1>0, <1>1, <1>5, OpFacts, OpFactsNext DEF OpExact
<1> QED
  BY <1>4, <1>5

(* The stage of the map, by the phase of main. *)
StageExact ==
    /\ phase \in {"create", "join", "print1", "size1"} => mapStage = "serve"
    /\ phase = "filter" => mapStage = "filter"
    /\ phase \in {"size2", "print2", "destroy", "end"} => mapStage = "clear"

LEMMA StageFacts == StageExact
BY DEF StageExact, mapStage

LEMMA StageFactsNext == StageExact'
BY StageFacts, PTL

(* What a name is bound to only changes with the slot that carries it. *)
LEMMA StoredSame ==
    ASSUME IndInv, IndInv', NEW k \in Keys,
           \A s : Carries(s, k)' <=> Carries(s, k),
           \A s : Carries(s, k) =>
                    slot'[s].arg = slot[s].arg /\ entry'[slot[s].arg].id = entry[slot[s].arg].id
    PROVE  Stored(k)' = Stored(k)
<1>1. CASE \E s : Carries(s, k)
  <2>1. PICK s : Carries(s, k)
    BY <1>1
  <2>2. Stored(k) = entry[slot[s].arg].id
    BY <2>1, StoredFacts DEF StoredExact
  <2>3. Stored(k)' = entry'[slot'[s].arg].id
    BY <2>1, StoredFactsNext DEF StoredExact
  <2> QED
    BY <2>1, <2>2, <2>3
<1>2. CASE \A s : ~Carries(s, k)
  <2>1. Stored(k) = Absent
    BY <1>2, StoredFacts DEF StoredExact
  <2>2. Stored(k)' = Absent
    BY <1>2, StoredFactsNext DEF StoredExact
  <2> QED
    BY <2>1, <2>2
<1> QED
  BY <1>1, <1>2

(* A step that only creates or destroys an entry no slot carries, or none, *)
(* leaves the map alone.                                                   *)
LEMMA StoreKept ==
    ASSUME IndInv, IndInv', UNCHANGED slot,
           \A s \in DOMAIN slot : Clearing(s)' <=> Clearing(s),
           \A s \in DOMAIN slot : ~Clearing(s) => entry'[slot[s].arg] = entry[slot[s].arg]
    PROVE  mapStore' = mapStore
<1>1. ASSUME NEW k \in Keys PROVE Stored(k)' = Stored(k)
  <2>1. \A s : Carries(s, k)' <=> Carries(s, k)
    BY DEF Carries
  <2>2. \A s : Carries(s, k) =>
                 slot'[s].arg = slot[s].arg /\ entry'[slot[s].arg].id = entry[slot[s].arg].id
    BY DEF Carries
  <2> QED
    BY <2>1, <2>2, StoredSame
<1> QED
  BY <1>1, StoreSame

(* Every step of a thread is an operation's call, its effect or its        *)
(* return, or changes nothing the map knows of.                            *)
LEMMA ThreadImplements ==
    ASSUME IndInv, IndInv', NEW t \in Threads, Thread(t)
    PROVE  [Map!Next]_(Map!vars)
<1> USE DEF IndInv
<1>0. /\ pc \in [Threads -> {"idle", "lock", "search", "dtor", "unlock"}]
      /\ i \in [Threads -> 0 .. Rounds]
      /\ buf \in [Threads -> Keys \cup {NoName}]
      /\ ret \in [Threads -> {"none", "OKAY", "FAIL"}]
      /\ pArg \in [Threads -> Args \cup {NoArg}]
      /\ DOMAIN entry \subseteq Args
      /\ ThreadsOK
  BY DEF TypeOK
<1>1. phase = "join" /\ phase' = "join" /\ cur' = cur
  BY ThreadsBeforeMain
<1>2. mapStage = "serve" /\ mapStage' = "serve"
  BY <1>1, StageFacts, StageFactsNext DEF StageExact
<1>3. \A s : ~Clearing(s) /\ ~Clearing(s)'
  BY <1>1 DEF Clearing
<1>4. \A s \in DOMAIN slot : slot[s].arg \in DOMAIN entry
  BY <1>3 DEF OneOwner
<1>5. \A u \in Threads \ {t} : Op(u)' = Op(u)
  BY OthersKeepOp
<1>6. mapOp[t] = Op(t)
  BY DEF mapOp
<1>e. e(t) \in Args
  BY <1>0, ArgsAssumption DEF e
<1>7. \A x \in Args : Holds(t, x) => \A s \in DOMAIN slot : slot[s].arg # x
  BY <1>3 DEF OneOwner, InTable
<1>8. ASSUME NEW k \in Keys, NEW id \in Draws[t], Create(t, k, id) PROVE Map!CallAdd(t)
  <2>1. /\ Adder(t) /\ pc[t] = "idle" /\ pc'[t] = "lock" /\ buf'[t] = k /\ i' = i /\ slot' = slot
        /\ entry'[e(t)].id = id
        /\ \A x \in DOMAIN entry \ {e(t)} : entry'[x] = entry[x]
    BY <1>0, <1>8 DEF Create, uidEntry_create, Goto
  <2>2. e(t) \notin DOMAIN entry
    BY <1>0, <2>1 DEF AddressesFresh, Reached, e
  <2>3. mapStore' = mapStore
    BY <1>3, <1>4, <2>1, <2>2, StoreKept
  <2>4. Op(t) = [do |-> "none"]
    BY <2>1, OpFacts DEF OpExact
  <2>5. Op(t)' = [do |-> "add", key |-> k, id |-> id]
    <3>1. e(t)' = e(t)
      BY <2>1 DEF e
    <3> QED
      BY <2>1, <3>1, OpFactsNext DEF OpExact
  <2>6. mapOp' = [mapOp EXCEPT ![t] = [do |-> "add", key |-> k, id |-> id]]
    BY <1>5, <2>5, OpChange
  <2>7. id \in Ids
    BY DrawsAssumption
  <2> QED
    BY <1>2, <1>6, <2>1, <2>3, <2>4, <2>6, <2>7 DEF Map!CallAdd, Map!NoOp, Map!Adding
<1>9. ASSUME NEW k \in Keys, Pick(t, k) PROVE Map!CallDelete(t)
  <2>1. /\ ~Adder(t) /\ pc[t] = "idle" /\ pc'[t] = "lock" /\ buf'[t] = k /\ UNCHANGED <<slot, entry>>
    BY <1>0, <1>9 DEF Pick, Goto
  <2>2. mapStore' = mapStore
    BY <1>3, <2>1, StoreKept
  <2>3. Op(t) = [do |-> "none"]
    BY <2>1, OpFacts DEF OpExact
  <2>4. Op(t)' = [do |-> "delete", key |-> k]
    BY <2>1, OpFactsNext DEF OpExact
  <2>5. mapOp' = [mapOp EXCEPT ![t] = [do |-> "delete", key |-> k]]
    BY <1>5, <2>4, OpChange
  <2> QED
    BY <1>2, <1>6, <2>1, <2>2, <2>3, <2>5 DEF Map!CallDelete, Map!NoOp, Map!Deleting
<1>10. CASE Lock(t) \/ Walk(t)
  <2>1. /\ pc[t] \in {"lock", "search"} /\ pc'[t] \in {"lock", "search"}
        /\ buf' = buf /\ i' = i /\ UNCHANGED <<slot, entry>>
    BY <1>0, <1>10 DEF Lock, Walk, Searching, Goto
  <2>2. mapStore' = mapStore
    BY <1>3, <2>1, StoreKept
  <2>3. e(t)' = e(t)
    BY <2>1 DEF e
  <2>4. Op(t)' = Op(t)
    <3>1. CASE Adder(t)
      BY <2>1, <2>3, <3>1, OpFacts, OpFactsNext DEF OpExact
    <3>2. CASE ~Adder(t)
      BY <2>1, <3>2, OpFacts, OpFactsNext DEF OpExact
    <3> QED
      BY <3>1, <3>2
  <2>5. mapOp' = mapOp
    BY <1>5, <2>4, OpSame
  <2> QED
    BY <1>2, <2>2, <2>5 DEF Map!vars
<1>k. PICK k : k = buf[t]
  OBVIOUS
<1>11. CASE Store(t)
  <2>0. PICK q : q = nSlot + 1
    OBVIOUS
  <2>1. /\ k \in Keys
        /\ DOMAIN slot' = DOMAIN slot \cup {q}
        /\ q \notin DOMAIN slot
        /\ slot'[q].key = k /\ slot'[q].arg = e(t)
        /\ \A s \in DOMAIN slot : slot'[s].key = slot[s].key /\ slot'[s].arg = slot[s].arg
    BY <1>11, <1>k, <2>0, StoreTable
  <2>2. /\ pc[t] = "search" /\ Adder(t) /\ p[t] = NULL /\ pc'[t] = "unlock" /\ ret'[t] = "OKAY"
        /\ entry' = entry
    BY <1>0, <1>11 DEF Store, Missed, Searching, Goto
  <2>3. \A s \in DOMAIN slot : slot[s].key # k
    BY <1>k, <2>2 DEF SearchExact, Searching, Chain, BucketOf
  <2>4. Stored(k) = Absent
    BY <2>1, <2>3, StoredFacts DEF StoredExact, Carries
  <2>5. Carries(q, k)'
    BY <1>3, <2>1 DEF Carries
  <2>6. Stored(k)' = entry[e(t)].id
    BY <2>1, <2>2, <2>5, StoredFactsNext DEF StoredExact
  <2>7. ASSUME NEW j \in Keys \ {k} PROVE Stored(j)' = Stored(j)
    <3>1. \A s : Carries(s, j)' <=> Carries(s, j)
      BY <1>3, <2>1 DEF Carries
    <3>2. \A s : Carries(s, j) =>
                    slot'[s].arg = slot[s].arg /\ entry'[slot[s].arg].id = entry[slot[s].arg].id
      BY <2>1, <2>2 DEF Carries
    <3> QED
      BY <3>1, <3>2, StoredSame
  <2>8. mapStore' = [mapStore EXCEPT ![k] = entry[e(t)].id]
    BY <2>1, <2>6, <2>7, StoreChange
  <2>9. Op(t) = [do |-> "add", key |-> k, id |-> entry[e(t)].id]
    BY <1>k, <2>2, OpFacts DEF OpExact
  <2>10. Op(t)' = [do |-> "return", ret |-> "OKAY"]
    BY <2>2, OpFactsNext DEF OpExact
  <2>11. mapOp' = [mapOp EXCEPT ![t] = [do |-> "return", ret |-> "OKAY"]]
    BY <1>5, <2>10, OpChange
  <2>12. mapStore[k] = Absent
    BY <2>1, <2>4 DEF mapStore
  <2>13. Map!DoAdd(t)
    BY <1>2, <1>6, <2>8, <2>9, <2>11, <2>12 DEF Map!DoAdd, Map!Result
  <2> QED
    BY <2>13 DEF Map!Next
<1>12. CASE Reject(t)
  <2>1. /\ pc[t] = "search" /\ Adder(t) /\ p[t] # NULL /\ slot[p[t]].key = k
        /\ pc'[t] = "unlock" /\ ret'[t] = "FAIL" /\ slot' = slot
        /\ \A x \in DOMAIN entry \ {e(t)} : entry'[x] = entry[x]
    BY <1>0, <1>k, <1>12 DEF Reject, Hit, Searching, Goto, uidEntry_destroy
  <2>2. Holds(t, e(t))
    BY <2>1 DEF Holds
  <2>3. mapStore' = mapStore
    BY <1>3, <1>4, <1>7, <1>e, <2>1, <2>2, StoreKept
  <2>4. k \in Keys /\ p[t] \in DOMAIN slot
    BY <1>k, <2>1 DEF ThreadsOK, NoDanglingSlot, Searching
  <2>5. mapStore[k] # Absent
    BY <1>3, <2>1, <2>4, StoredFacts DEF StoredExact, Carries, mapStore
  <2>6. Op(t) = [do |-> "add", key |-> k, id |-> entry[e(t)].id]
    BY <1>k, <2>1, OpFacts DEF OpExact
  <2>7. Op(t)' = [do |-> "return", ret |-> "FAIL"]
    BY <2>1, OpFactsNext DEF OpExact
  <2>8. mapOp' = [mapOp EXCEPT ![t] = [do |-> "return", ret |-> "FAIL"]]
    BY <1>5, <2>7, OpChange
  <2>9. Map!DoAdd(t)
    BY <1>2, <1>6, <2>3, <2>5, <2>6, <2>8 DEF Map!DoAdd, Map!Result
  <2> QED
    BY <2>9 DEF Map!Next
<1>13. CASE Pop(t)
  <2>0. PICK q : q = p[t]
    OBVIOUS
  <2>1. /\ k \in Keys /\ q \in DOMAIN slot
        /\ DOMAIN slot' = DOMAIN slot \ {q}
        /\ \A s \in DOMAIN slot \ {q} : slot'[s].key = slot[s].key /\ slot'[s].arg = slot[s].arg
    BY <1>13, <1>k, <2>0, PopTable DEF Chain
  <2>2. /\ pc[t] = "search" /\ ~Adder(t) /\ slot[q].key = k /\ pc'[t] = "dtor" /\ entry' = entry
    BY <1>0, <1>13, <1>k, <2>0 DEF Pop, Hit, Searching, Goto
  <2>3. mapStore[k] # Absent
    BY <1>3, <2>1, <2>2, StoredFacts DEF StoredExact, Carries, mapStore
  <2>4. \A s : ~Carries(s, k)'
    BY <2>1, <2>2 DEF Carries, UniqueKeys, KeysUnique
  <2>5. Stored(k)' = Absent
    BY <2>1, <2>4, StoredFactsNext DEF StoredExact
  <2>6. ASSUME NEW j \in Keys \ {k} PROVE Stored(j)' = Stored(j)
    <3>1. \A s : Carries(s, j)' <=> Carries(s, j)
      BY <1>3, <2>1, <2>2 DEF Carries
    <3>2. \A s : Carries(s, j) =>
                    slot'[s].arg = slot[s].arg /\ entry'[slot[s].arg].id = entry[slot[s].arg].id
      BY <2>1, <2>2 DEF Carries
    <3> QED
      BY <3>1, <3>2, StoredSame
  <2>7. mapStore' = [mapStore EXCEPT ![k] = Absent]
    BY <2>1, <2>5, <2>6, StoreChange
  <2>8. Op(t) = [do |-> "delete", key |-> k]
    BY <1>k, <2>2, OpFacts DEF OpExact
  <2>9. Op(t)' = [do |-> "return", ret |-> "OKAY"]
    BY <2>2, OpFactsNext DEF OpExact
  <2>10. mapOp' = [mapOp EXCEPT ![t] = [do |-> "return", ret |-> "OKAY"]]
    BY <1>5, <2>9, OpChange
  <2>11. Map!DoDelete(t)
    BY <1>2, <1>6, <2>3, <2>7, <2>8, <2>10 DEF Map!DoDelete, Map!Result
  <2> QED
    BY <2>11 DEF Map!Next
<1>14. CASE Dtor(t)
  <2>1. /\ pc[t] = "dtor" /\ pc'[t] = "unlock" /\ ret'[t] = "OKAY" /\ slot' = slot
        /\ \A x \in DOMAIN entry \ {pArg[t]} : entry'[x] = entry[x]
    BY <1>0, <1>14 DEF Dtor, Goto, uidEntry_destroy
  <2>2. Holds(t, pArg[t]) /\ pArg[t] \in Args
    BY <1>0, <2>1 DEF Holds, ThreadsOK
  <2>3. mapStore' = mapStore
    BY <1>3, <1>4, <1>7, <2>1, <2>2, StoreKept
  <2>4. Op(t)' = Op(t)
    BY <2>1, OpFacts, OpFactsNext DEF OpExact
  <2>5. mapOp' = mapOp
    BY <1>5, <2>4, OpSame
  <2> QED
    BY <1>2, <2>3, <2>5 DEF Map!vars
<1>15. CASE NotFound(t)
  <2>1. /\ pc[t] = "search" /\ ~Adder(t) /\ p[t] = NULL /\ pc'[t] = "unlock" /\ ret'[t] = "FAIL"
        /\ UNCHANGED <<slot, entry>>
    BY <1>0, <1>15 DEF NotFound, Missed, Searching, Goto
  <2>2. \A s \in DOMAIN slot : slot[s].key # k
    BY <1>k, <2>1 DEF SearchExact, Searching, Chain, BucketOf
  <2>3. k \in Keys
    BY <1>k, <2>1 DEF ThreadsOK
  <2>4. mapStore[k] = Absent
    BY <2>2, <2>3, StoredFacts DEF StoredExact, Carries, mapStore
  <2>5. mapStore' = mapStore
    BY <1>3, <2>1, StoreKept
  <2>6. mapStore' = [mapStore EXCEPT ![k] = Absent]
    BY <2>3, <2>4, <2>5 DEF mapStore
  <2>7. Op(t) = [do |-> "delete", key |-> k]
    BY <1>k, <2>1, OpFacts DEF OpExact
  <2>8. Op(t)' = [do |-> "return", ret |-> "FAIL"]
    BY <2>1, OpFactsNext DEF OpExact
  <2>9. mapOp' = [mapOp EXCEPT ![t] = [do |-> "return", ret |-> "FAIL"]]
    BY <1>5, <2>8, OpChange
  <2>10. Map!DoDelete(t)
    <3>1. mapOp[t].do = "delete" /\ mapOp[t].key = k
      BY <1>6, <2>7
    <3>2. mapOp' = [mapOp EXCEPT ![t] = Map!Result(IF mapStore[k] = Absent THEN "FAIL" ELSE "OKAY")]
      BY <2>4, <2>9 DEF Map!Result
    <3> QED
      BY <1>2, <2>6, <3>1, <3>2 DEF Map!DoDelete
  <2> QED
    BY <2>10 DEF Map!Next
<1>16. CASE Unlock(t)
  <2>1. pc[t] = "unlock" /\ pc'[t] = "idle" /\ UNCHANGED <<slot, entry>>
    BY <1>0, <1>16 DEF Unlock, Goto
  <2>2. mapStore' = mapStore
    BY <1>3, <2>1, StoreKept
  <2>3. Op(t) = [do |-> "return", ret |-> ret[t]]
    BY <2>1, OpFacts DEF OpExact
  <2>4. Op(t)' = [do |-> "none"]
    BY <2>1, OpFactsNext DEF OpExact
  <2>5. mapOp' = [mapOp EXCEPT ![t] = [do |-> "none"]]
    BY <1>5, <2>4, OpChange
  <2>6. Map!Return(t)
    BY <1>2, <1>6, <2>2, <2>3, <2>5 DEF Map!Return, Map!NoOp
  <2> QED
    BY <2>6 DEF Map!Next
<1> QED
  BY <1>8, <1>9, <1>10, <1>11, <1>12, <1>13, <1>14, <1>15, <1>16 DEF Thread, Map!Next

(* Every step of main is the beginning of a stage, the removal of one name *)
(* that the stage removes, or changes nothing the map knows of.            *)
LEMMA MainImplements ==
    ASSUME IndInv, IndInv', LoopsExact, Main
    PROVE  [Map!Next]_(Map!vars)
<1> USE DEF IndInv
<1>0. /\ cur \in [b : 0 .. nMaxBucket, p : Nat, pArg : Args \cup {NoArg}]
      /\ DOMAIN entry \subseteq Args
      /\ \A s \in DOMAIN slot : ~Clearing(s) => slot[s].arg \in DOMAIN entry
      /\ \A r, s \in DOMAIN slot : slot[r].arg = slot[s].arg => r = s
      /\ \A s \in DOMAIN slot : slot[s].key \in Keys /\ slot[s].arg \in Args
  BY DEF TypeOK, OneOwner, HashTypeOK, SlotType
<1>1. \A t \in Threads : pc[t] = "idle" /\ pc'[t] = "idle"
  BY MainFrame DEF ThreadsOK, Ended
<1>2. \A t \in Threads : Op(t) = [do |-> "none"] /\ Op(t)' = [do |-> "none"]
  BY <1>1, OpFacts, OpFactsNext DEF OpExact
<1>3. mapOp' = mapOp
  BY <1>2, OpSame
<1>4. \A t \in Threads : mapOp[t] = [do |-> "none"]
  BY <1>2 DEF mapOp
<1>5. CASE CreateTable \/ Join \/ PrintEntry \/ Sum \/ FilterKeep \/ ClearBucket \/ Advance \/ FreeTable
  <2>1. UNCHANGED <<slot, entry>>
    BY <1>5 DEF CreateTable, Join, PrintEntry, Sum, FilterKeep, ClearBucket, ResetBucket, Advance,
                FreeTable, hashVars
  <2>2. mapStage' = mapStage
    <3>1. \/ phase' = phase
          \/ phase = "create" /\ phase' = "join"
          \/ phase = "join" /\ phase' = "print1"
          \/ phase = "destroy" /\ phase' = "end"
      BY <1>5 DEF CreateTable, Join, PrintEntry, Sum, FilterKeep, ClearBucket, Advance, FreeTable
    <3>2. CASE phase' = phase
      BY <3>2 DEF mapStage
    <3> QED
      BY <3>1, <3>2, StageFacts, StageFactsNext DEF StageExact
  <2>3. cur.pArg = NoArg
    BY <1>5, BucketAssumption
       DEF CreateTable, Join, PrintEntry, Sum, FilterKeep, ClearBucket, Advance, FreeTable,
           Printing, Summing, AtBucketEnd, AtTableEnd, MainItemOK
  <2>4. cur'.pArg = NoArg
    BY <1>0, <1>5, <2>3 DEF CreateTable, Join, PrintEntry, Sum, FilterKeep, ClearBucket, Advance,
                      FreeTable, Start, NextBucket
  <2>5. mapStore' = mapStore
    BY <2>1, <2>3, <2>4, StoreKept DEF Clearing
  <2> QED
    BY <1>3, <2>2, <2>5 DEF Map!vars
<1>6. CASE Leave
  <2>1. UNCHANGED <<slot, entry>> /\ phase \in DOMAIN Following /\ phase' = Following[phase] /\ AtTableEnd
    BY <1>6 DEF Leave, hashVars
  <2>2. mapStore' = mapStore
    <3>1. cur.pArg = NoArg
      BY <2>1, BucketAssumption DEF AtTableEnd, MainItemOK
    <3>2. cur'.pArg = NoArg
      BY <1>6 DEF Leave, Start
    <3> QED
      BY <2>1, <3>1, <3>2, StoreKept DEF Clearing
  <2>3. CASE phase = "print1" \/ phase = "size2" \/ phase = "print2"
    <3>1. mapStage' = mapStage
      BY <2>1, <2>3, StageFacts, StageFactsNext DEF StageExact, Following
    <3> QED
      BY <1>3, <2>2, <3>1 DEF Map!vars
  <2>4. CASE phase = "size1"
    <3>1. mapStage = "serve" /\ mapStage' = "filter"
      BY <2>1, <2>4, StageFacts, StageFactsNext DEF StageExact, Following
    <3>2. Map!StartFilter
      BY <1>3, <1>4, <2>2, <3>1 DEF Map!StartFilter, Map!NoOp
    <3> QED
      BY <3>2 DEF Map!Next
  <2>5. CASE phase = "filter"
    <3>1. mapStage = "filter" /\ mapStage' = "clear"
      BY <2>1, <2>5, StageFacts, StageFactsNext DEF StageExact, Following
    <3>2. \A s \in DOMAIN slot : ~(entry[slot[s].arg].id < Bound)
      BY <2>1, <2>5, BehindEnd DEF LoopsExact, filter
    <3>3. ASSUME NEW k \in Keys PROVE ~Map!Expired(k)
      <4>1. CASE \E s : Carries(s, k)
        <5>1. PICK s : Carries(s, k)
          BY <4>1
        <5> QED
          BY <3>2, <5>1, StoredFacts DEF StoredExact, Carries, mapStore, Map!Expired
      <4>2. CASE \A s : ~Carries(s, k)
        BY <4>2, StoredFacts DEF StoredExact, mapStore, Map!Expired
      <4> QED
        BY <4>1, <4>2
    <3>4. Map!StartClear
      BY <1>3, <2>2, <3>1, <3>3 DEF Map!StartClear
    <3> QED
      BY <3>4 DEF Map!Next
  <2> QED
    BY <2>1, <2>3, <2>4, <2>5 DEF Following
<1>7. CASE FilterOut
  <2>0. PICK q, k : q = cur.p /\ k = slot[cur.p].key
    OBVIOUS
  <2>1. /\ q \in DOMAIN slot
        /\ DOMAIN slot' = DOMAIN slot \ {q}
        /\ \A s \in DOMAIN slot \ {q} : slot'[s].key = slot[s].key /\ slot'[s].arg = slot[s].arg
    BY <1>7, <2>0, FilterTable DEF Chain
  <2>2. /\ phase = "filter" /\ phase' = "filter" /\ entry' = entry
        /\ slot[q].key = k /\ k \in Keys /\ entry[slot[q].arg].id < Bound
    BY <1>0, <1>7, <2>0, <2>1 DEF FilterOut, filter
  <2>3. \A s : ~Clearing(s) /\ ~Clearing(s)'
    BY <2>2 DEF Clearing
  <2>4. Map!Expired(k)
    BY <2>1, <2>2, <2>3, StoredFacts DEF StoredExact, Carries, mapStore, Map!Expired
  <2>5. \A s : ~Carries(s, k)'
    BY <2>1, <2>2 DEF Carries, UniqueKeys, KeysUnique
  <2>6. Stored(k)' = Absent
    BY <2>2, <2>5, StoredFactsNext DEF StoredExact
  <2>7. ASSUME NEW j \in Keys \ {k} PROVE Stored(j)' = Stored(j)
    <3>1. \A s : Carries(s, j)' <=> Carries(s, j)
      BY <2>1, <2>2, <2>3 DEF Carries
    <3>2. \A s : Carries(s, j) =>
                    slot'[s].arg = slot[s].arg /\ entry'[slot[s].arg].id = entry[slot[s].arg].id
      BY <2>1, <2>2 DEF Carries
    <3> QED
      BY <3>1, <3>2, StoredSame
  <2>8. mapStore' = [mapStore EXCEPT ![k] = Absent]
    BY <2>2, <2>6, <2>7, StoreChange
  <2>9. mapStage = "filter" /\ mapStage' = "filter"
    BY <2>2, StageFacts, StageFactsNext DEF StageExact
  <2>10. Map!Expire(k)
    BY <1>3, <2>4, <2>8, <2>9 DEF Map!Expire
  <2> QED
    BY <2>2, <2>10 DEF Map!Next
<1>8. CASE FilterDtor
  <2>1. /\ phase = "filter" /\ phase' = "filter" /\ slot' = slot /\ cur.pArg # NoArg
        /\ \A x \in DOMAIN entry \ {cur.pArg} : entry'[x] = entry[x]
    BY <1>8 DEF FilterDtor, uidEntry_destroy, hashVars
  <2>2. \A s : ~Clearing(s) /\ ~Clearing(s)'
    BY <2>1 DEF Clearing
  <2>3. \A s \in DOMAIN slot : slot[s].arg # cur.pArg
    BY <2>1, <2>2 DEF MainItemOK, InTable
  <2>4. mapStore' = mapStore
    BY <1>0, <2>1, <2>2, <2>3, StoreKept
  <2>5. mapStage' = mapStage
    BY <2>1, StageFacts, StageFactsNext DEF StageExact
  <2> QED
    BY <1>3, <2>4, <2>5 DEF Map!vars
<1>9. CASE ClearItem
  <2>0. PICK q, k : q = cur.p /\ k = slot[cur.p].key
    OBVIOUS
  <2>1. /\ phase = "destroy" /\ phase' = "destroy" /\ slot' = slot /\ cur.pArg = NoArg
        /\ q \in DOMAIN slot /\ cur'.p = q /\ cur'.pArg = slot[q].arg
        /\ \A x \in DOMAIN entry \ {slot[q].arg} : entry'[x] = entry[x]
        /\ slot[q].key = k /\ k \in Keys
    BY <1>0, <1>9, <2>0 DEF ClearItem, uidEntry_destroy, hashVars, AtSlot, NoDanglingSlot
  <2>2. \A s : ~Clearing(s) /\ (Clearing(s)' <=> s = q)
    BY <1>0, <2>1, NoneAssumption DEF Clearing
  <2>3. mapStore[k] # Absent
    BY <2>1, <2>2, StoredFacts DEF StoredExact, Carries, mapStore
  <2>4. \A s : ~Carries(s, k)'
    BY <2>1, <2>2 DEF Carries, UniqueKeys, KeysUnique
  <2>5. Stored(k)' = Absent
    BY <2>1, <2>4, StoredFactsNext DEF StoredExact
  <2>6. ASSUME NEW j \in Keys \ {k} PROVE Stored(j)' = Stored(j)
    <3>1. \A s : Carries(s, j)' <=> Carries(s, j)
      BY <2>1, <2>2 DEF Carries
    <3>2. \A s : Carries(s, j) =>
                    slot'[s].arg = slot[s].arg /\ entry'[slot[s].arg].id = entry[slot[s].arg].id
      <4> SUFFICES ASSUME NEW s, Carries(s, j)
                   PROVE  slot'[s].arg = slot[s].arg /\ entry'[slot[s].arg].id = entry[slot[s].arg].id
        OBVIOUS
      <4>1. s \in DOMAIN slot /\ s # q /\ slot[s].arg \in DOMAIN entry
        BY <1>0, <2>1 DEF Carries
      <4>2. slot[s].arg # slot[q].arg
        BY <1>0, <2>1, <4>1
      <4> QED
        BY <2>1, <4>1, <4>2
    <3> QED
      BY <3>1, <3>2, StoredSame
  <2>7. mapStore' = [mapStore EXCEPT ![k] = Absent]
    BY <2>1, <2>5, <2>6, StoreChange
  <2>8. mapStage = "clear" /\ mapStage' = "clear"
    BY <2>1, StageFacts, StageFactsNext DEF StageExact
  <2>9. Map!Clear(k)
    BY <1>3, <2>3, <2>7, <2>8 DEF Map!Clear
  <2> QED
    BY <2>1, <2>9 DEF Map!Next
<1>10. CASE ClearSlot
  <2>0. PICK q : q = cur.p
    OBVIOUS
  <2>1. /\ phase = "destroy" /\ phase' = "destroy" /\ entry' = entry
        /\ cur.pArg # NoArg /\ cur'.pArg = NoArg
        /\ DOMAIN slot' = DOMAIN slot \ {q}
        /\ \A s \in DOMAIN slot \ {q} : slot'[s] = slot[s]
    BY <1>0, <1>10, <2>0 DEF ClearSlot, vslot_destroy
  <2>2. \A s : (Clearing(s) <=> s = q) /\ ~Clearing(s)'
    BY <2>0, <2>1 DEF Clearing
  <2>3. ASSUME NEW k \in Keys PROVE Stored(k)' = Stored(k)
    <3>1. \A s : Carries(s, k)' <=> Carries(s, k)
      BY <2>1, <2>2 DEF Carries
    <3>2. \A s : Carries(s, k) =>
                    slot'[s].arg = slot[s].arg /\ entry'[slot[s].arg].id = entry[slot[s].arg].id
      BY <2>1, <2>2 DEF Carries
    <3> QED
      BY <3>1, <3>2, StoredSame
  <2>4. mapStore' = mapStore
    BY <2>3, StoreSame
  <2>5. mapStage' = mapStage
    BY <2>1, StageFacts, StageFactsNext DEF StageExact
  <2> QED
    BY <1>3, <2>4, <2>5 DEF Map!vars
<1> QED
  BY <1>5, <1>6, <1>7, <1>8, <1>9, <1>10 DEF Main

(* The initial states of the program are those of the map. *)
LEMMA InitImplements == Init => Map!Init
<1> SUFFICES ASSUME Init PROVE Map!Init
  OBVIOUS
<1>1. /\ DOMAIN slot = {} /\ phase = "create" /\ \A t \in Threads : pc[t] = "idle"
  BY DEF Init, EmptyTable
<1>2. mapStore = [k \in Keys |-> Absent]
  BY <1>1 DEF mapStore, Stored
<1>3. mapOp = [t \in Threads |-> [do |-> "none"]]
  <2>1. \A t \in Threads : Op(t) = [do |-> "none"]
    BY <1>1, OpFacts DEF OpExact
  <2> QED
    BY <2>1 DEF mapOp
<1>4. mapStage = "serve"
  BY <1>1, StageFacts DEF StageExact
<1> QED
  BY <1>2, <1>3, <1>4 DEF Map!Init, Map!NoOp

(* The threaded program is a map whose adds and deletes each take effect   *)
(* at one instant between call and return, whose filter removes the names  *)
(* below the bound and no others, and which is emptied in the end.         *)
THEOREM MapImplemented == Spec => ImplementsMap
<1>1. Init => Map!Init
  BY InitImplements
<1>2. ASSUME IndInv /\ CountInv, (IndInv /\ CountInv)', [Next]_vars PROVE [Map!Next]_(Map!vars)
  <2>1. ASSUME NEW t \in Threads, Thread(t) PROVE [Map!Next]_(Map!vars)
    BY <1>2, <2>1, ThreadImplements
  <2>2. CASE Main
    BY <1>2, <2>2, MainImplements DEF CountInv
  <2>3. CASE UNCHANGED vars
    <3>1. UNCHANGED <<Map!vars>>
      BY <2>3 DEF vars, Map!vars, mapStore, mapOp, mapStage, Stored, Op, Clearing, e
    <3> QED
      BY <3>1
  <2> QED
    BY <1>2, <2>1, <2>2, <2>3 DEF Next, Exited
<1> QED
  BY <1>1, <1>2, CountInvariance, PTL DEF Spec, ImplementsMap, Map!Spec
==============================================================================
