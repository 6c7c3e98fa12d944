------------------------------ MODULE HashMap_proofs ------------------------------
(* hashmap.c keeps its promises for any keys, hash function, sizes and      *)
(* length of chains.  IndInv is the inductive invariant.                    *)
EXTENDS HashMapKeyMap, FiniteSetTheorems, SequenceTheorems, TLAPS

(* Sets of numbers have a least element. *)

LEMMA NatMin ==
    ASSUME NEW S \in SUBSET Nat, S # {}
    PROVE  \E m \in S : \A n \in S : m <= n
<1> DEFINE F == {0 .. n : n \in S}
<1>1. IsWellFoundedOn(StrictSubsetOrdering(Nat), FiniteSubsetsOf(Nat))
  BY FS_StrictSubsetOrderingWellFounded
<1>2. F \subseteq FiniteSubsetsOf(Nat)
  <2>1. ASSUME NEW n \in S PROVE IsFiniteSet(0 .. n)
    BY FS_Interval
  <2> QED
    BY <2>1 DEF FiniteSubsetsOf
<1>3. PICK X \in F : \A Y \in F : ~ (<<Y, X>> \in StrictSubsetOrdering(Nat))
  <2>1. F # {}
    OBVIOUS
  <2> HIDE DEF F
  <2> QED
    BY <1>1, <1>2, <2>1, WFMin
<1>4. PICK m \in S : X = 0 .. m
  OBVIOUS
<1>5. ASSUME NEW n \in S, n < m PROVE FALSE
  <2>1. <<0 .. n, 0 .. m>> \in StrictSubsetOrdering(Nat)
    <3>1. 0 .. n \in SUBSET Nat /\ 0 .. m \in SUBSET Nat
      OBVIOUS
    <3>2. 0 .. n \subseteq 0 .. m /\ m \in 0 .. m /\ m \notin 0 .. n
      BY <1>5
    <3> QED
      BY <3>1, <3>2 DEF StrictSubsetOrdering
  <2> QED
    BY <1>3, <1>4, <2>1
<1> QED
  BY <1>5

LEMMA MinFacts ==
    ASSUME NEW S, S \subseteq Nat, S # {}
    PROVE  Min(S) \in S /\ \A n \in S : Min(S) <= n
BY NatMin DEF Min

(* Tables. *)

TableExact ==
    /\ table_size \in Nat /\ table_size >= 2 /\ table_size > 0
    /\ DOMAIN data = 0 .. table_size - 1 /\ data \in [DOMAIN data -> Elements]
    /\ \A s \in DOMAIN data : data[s] = Free \/ (data[s] # Free /\ data[s].key \in Keys /\ data[s].data \in Values)
    /\ \A s \in DOMAIN data : data[s] = Free <=> data[s].key = NULL
    /\ InUse(data) \subseteq DOMAIN data /\ InUse(data) \subseteq Nat
    /\ IsFiniteSet(InUse(data)) /\ Cardinality(InUse(data)) \in Nat

LEMMA ElementFacts ==
    \A e \in Elements :
        /\ e = Free \/ (e # Free /\ e \in [key : Keys, data : Values])
        /\ e = Free <=> e.key = NULL
BY NULLAssumption DEF Elements, Free

LEMMA TableFacts == TypeOK /\ Typed => TableExact
<1> SUFFICES ASSUME TypeOK, Typed PROVE TableExact
  OBVIOUS
<1>1. /\ table_size \in Nat /\ DOMAIN data = 0 .. table_size - 1 /\ data \in [DOMAIN data -> Elements]
  BY DEF TypeOK, IsTable, table_size
<1>2. table_size >= 2
  BY <1>1, SizeAssumption DEF Typed
<1>3. InUse(data) \subseteq DOMAIN data /\ IsFiniteSet(DOMAIN data) /\ DOMAIN data \subseteq Nat
  <2>1. PICK n \in Nat : n = table_size
    BY <1>1
  <2>2. IsFiniteSet(0 .. n - 1)
    BY FS_Interval
  <2> QED
    BY <1>1, <2>1, <2>2 DEF InUse
<1>4. IsFiniteSet(InUse(data)) /\ Cardinality(InUse(data)) \in Nat
  BY <1>3, FS_Subset, FS_CardinalityType
<1>5. \A s \in DOMAIN data : data[s] \in Elements
  BY <1>1
<1>6. \A e \in Elements : e = Free \/ (e # Free /\ e.key \in Keys /\ e.data \in Values)
  BY ElementFacts
<1>7. \A e \in Elements : e = Free <=> e.key = NULL
  BY ElementFacts
<1>8. table_size > 0 /\ InUse(data) \subseteq Nat
  BY <1>1, <1>2, <1>3
<1> QED
  BY <1>1, <1>2, <1>3, <1>4, <1>5, <1>6, <1>7, <1>8 DEF TableExact

LEMMA TableFactsNext == TypeOK' /\ Typed' => TableExact'
BY TableFacts, PTL

LEMMA SlotFacts ==
    ASSUME TableExact, NEW k \in Keys, NEW i \in Nat
    PROVE  Slot(k, i) \in DOMAIN data
<1>1. HashOf[k] + i \in Nat /\ table_size \in Nat /\ table_size > 0
  BY HashAssumption DEF TableExact
<1>2. (HashOf[k] + i) % table_size \in 0 .. table_size - 1
  BY <1>1
<1> QED
  BY <1>2 DEF Slot, TableExact

LEMMA EmptyFacts ==
    ASSUME NEW n \in Nat
    PROVE  /\ IsTable(Empty(n)) /\ DOMAIN Empty(n) = 0 .. n - 1 /\ Cardinality(DOMAIN Empty(n)) = n
           /\ InUse(Empty(n)) = {}
<1>1. DOMAIN Empty(n) = 0 .. n - 1 /\ \A s \in 0 .. n - 1 : Empty(n)[s] = Free
  BY DEF Empty
<1>2. Cardinality(0 .. n - 1) = n
  BY FS_Interval
<1>3. Empty(n) \in [0 .. n - 1 -> Elements]
  BY DEF Empty, Elements
<1> QED
  BY <1>1, <1>2, <1>3 DEF IsTable, InUse

LEMMA NoTableFacts ==
    /\ IsTable(NoTable) /\ InUse(NoTable) = {} /\ Once(NoTable) /\ DOMAIN NoTable = {}
<1>1. DOMAIN NoTable = {} /\ NoTable \in [{} -> Elements]
  BY DEF NoTable
<1>2. Cardinality(DOMAIN NoTable) = 0 /\ {} = 0 .. 0 - 1
  BY <1>1, FS_EmptySet
<1> QED
  BY <1>1, <1>2 DEF IsTable, InUse, Once

LEMMA InitInvariant == Init => IndInv
<1> SUFFICES ASSUME Init PROVE IndInv
  OBVIOUS
<1> USE DEF Init
<1>1. INITIAL_SIZE \in Nat /\ INITIAL_SIZE >= 2
  BY SizeAssumption
<1>2. IsTable(data) /\ DOMAIN data = 0 .. INITIAL_SIZE - 1 /\ table_size = INITIAL_SIZE /\ InUse(data) = {}
  BY <1>1, EmptyFacts DEF table_size
<1>3. DOMAIN frames = {} /\ frames \in Seq({frames[i] : i \in DOMAIN frames})
  OBVIOUS
<1>4. data # NoTable
  <2>1. 0 \in DOMAIN data
    BY <1>1, <1>2
  <2> QED
    BY <2>1, NoTableFacts
<1>5. TypeOK /\ Typed
  BY <1>1, <1>2, <1>3, <1>4 DEF TypeOK, Typed
<1>6. HalfFree
  <2>1. 0 <= INITIAL_SIZE \div 2
    BY <1>1
  <2> QED
    BY <1>2, <2>1, FS_EmptySet DEF HalfFree
<1>7. Nested /\ Apart /\ Placed
  BY <1>2, <1>3 DEF Nested, Apart, Placed, Once, KeysOf
<1> QED
  BY <1>5, <1>6, <1>7 DEF IndInv

------------------------------------------------------------------------------
(* The steps. *)

(* What holds of the calls in progress. *)
FramesExact ==
    /\ Len(frames) \in Nat /\ DOMAIN frames = 1 .. Len(frames)
    /\ frames # <<>> <=> Len(frames) > 0
    /\ \A i \in DOMAIN frames :
         /\ frames[i].key \in Keys /\ frames[i].data \in Values /\ frames[i].at \in Nat
         /\ frames[i] = [key |-> frames[i].key, data |-> frames[i].data,
                         old |-> frames[i].old, at |-> frames[i].at]
         /\ IsTable(frames[i].old) /\ (frames[i].old # NoTable \/ i = Len(frames))

LEMMA FramesFacts == TypeOK /\ Typed => FramesExact
<1> SUFFICES ASSUME TypeOK, Typed PROVE FramesExact
  OBVIOUS
<1>1. Len(frames) \in Nat /\ DOMAIN frames = 1 .. Len(frames) /\ (frames # <<>> <=> Len(frames) > 0)
  <2> DEFINE S == {frames[i] : i \in DOMAIN frames}
  <2>1. frames \in Seq(S)
    BY DEF Typed
  <2> HIDE DEF S
  <2> QED
    BY <2>1, EmptySeq
<1>2. \A i \in DOMAIN frames :
         /\ frames[i].key \in Keys /\ frames[i].data \in Values /\ frames[i].at \in Nat
         /\ IsTable(frames[i].old) /\ (frames[i].old # NoTable \/ i = Len(frames))
  BY DEF TypeOK
<1>3. ASSUME NEW i \in DOMAIN frames
      PROVE  frames[i] = [key |-> frames[i].key, data |-> frames[i].data,
                          old |-> frames[i].old, at |-> frames[i].at]
  <2>1. frames[i] \in [key : Keys, data : Values, old : {frames[i].old}, at : Nat]
    BY DEF Typed
  <2> QED
    BY <2>1
<1> QED
  BY <1>1, <1>2, <1>3 DEF FramesExact

(* The same frames, told one by one. *)
LEMMA FramesTyped ==
    ASSUME NEW fs, NEW n \in Nat, DOMAIN fs = 1 .. n, fs = [i \in 1 .. n |-> fs[i]]
    PROVE  fs \in Seq({fs[i] : i \in DOMAIN fs}) /\ Len(fs) = n
<1> DEFINE S == {fs[i] : i \in DOMAIN fs}
<1>1. fs \in [1 .. n -> S]
  OBVIOUS
<1> HIDE DEF S
<1>2. fs \in Seq(S) /\ Len(fs) = n
  BY <1>1
<1> QED
  BY <1>2 DEF S

(* A store puts the element into a slot that is free or the key's own. *)
StoreSlot(h) ==
    LET k == Top.key
    IN  /\ h \in DOMAIN data /\ data[h].key \in {NULL, k}
        /\ \E i \in Chain : /\ h = Slot(k, i)
                            /\ \A j \in 0 .. i - 1 : data[Slot(k, j)].key \notin {NULL, k}
        /\ data' = [data EXCEPT ![h] = [key |-> k, data |-> Top.data]]
        /\ k \in Keys /\ Top.data \in Values
        /\ size < table_size \div 2 /\ size' = size + 1

LEMMA StoreFacts ==
    ASSUME IndInv, Store
    PROVE  StoreSlot(hashmap_hash(Top.key)) /\ Len(frames) \in Nat \ {0}
<1> DEFINE k == Top.key
           m == Min(Fits(k))
<1>1. TableExact /\ FramesExact /\ TypeOK
  BY TableFacts, FramesFacts DEF IndInv
<1>2. Len(frames) \in Nat \ {0} /\ k \in Keys /\ Top.data \in Values
  BY <1>1 DEF Store, Idle, FramesExact, Top
<1>3. Fits(k) # {} /\ size < table_size \div 2
  BY <1>1 DEF Store, Full, TableExact, TypeOK
<1>4. MAX_CHAIN_LENGTH \in Nat /\ Chain \subseteq Nat /\ Fits(k) \subseteq Chain
  BY SizeAssumption DEF Chain, Fits
<1>5. m \in Fits(k) /\ \A j \in Fits(k) : m <= j
  BY <1>3, <1>4, MinFacts
<1>6. m \in Chain /\ m \in Nat /\ data[Slot(k, m)].key \in {NULL, k} /\ Slot(k, m) \in DOMAIN data
  BY <1>1, <1>2, <1>4, <1>5, SlotFacts DEF Fits
<1>7. ASSUME NEW j \in 0 .. m - 1 PROVE data[Slot(k, j)].key \notin {NULL, k}
  <2>1. j \in Chain /\ ~(m <= j)
    BY <1>4, <1>6, <1>7 DEF Chain
  <2>2. j \notin Fits(k)
    BY <1>5, <2>1
  <2> QED
    BY <2>1, <2>2 DEF Fits
<1>8. hashmap_hash(k) = Slot(k, m)
  BY DEF hashmap_hash
<1>9. data' = [data EXCEPT ![hashmap_hash(k)] = [key |-> k, data |-> Top.data]] /\ size' = size + 1
  BY DEF Store
<1> HIDE DEF m, k
<1> QED
  BY <1>2, <1>3, <1>6, <1>7, <1>8, <1>9 DEF StoreSlot, k

(* What a store changes in the table, ... *)
StoreTable(h) ==
    /\ DOMAIN data' = DOMAIN data /\ table_size' = table_size
    /\ data'[h] = [key |-> Top.key, data |-> Top.data] /\ data'[h].key = Top.key
    /\ \A s \in DOMAIN data \ {h} : data'[s] = data[s]
    /\ IsTable(data)'
    /\ InUse(data)' = InUse(data) \cup {h}
    /\ KeysOf(data)' = KeysOf(data) \cup {Top.key}

LEMMA StoreTableFacts ==
    ASSUME TableExact, NEW h, StoreSlot(h)
    PROVE  StoreTable(h)
<1> DEFINE e == [key |-> Top.key, data |-> Top.data]
<1>1. /\ h \in DOMAIN data /\ data[h].key \in {NULL, Top.key} /\ data' = [data EXCEPT ![h] = e]
      /\ Top.key \in Keys /\ Top.data \in Values
  BY DEF StoreSlot
<1>2. e \in Elements /\ e # Free /\ e.key = Top.key
  BY <1>1, NULLAssumption DEF Elements, Free
<1>3. /\ DOMAIN data' = DOMAIN data /\ data' \in [DOMAIN data -> Elements]
      /\ data'[h] = e /\ \A s \in DOMAIN data \ {h} : data'[s] = data[s]
  BY <1>1, <1>2 DEF TableExact
<1> HIDE DEF e
<1>4. InUse(data)' = InUse(data) \cup {h}
  BY <1>1, <1>2, <1>3 DEF InUse
<1>5. KeysOf(data)' = KeysOf(data) \cup {Top.key}
  <2>1. KeysOf(data)' = {data'[s].key : s \in InUse(data) \cup {h}}
    BY <1>4 DEF KeysOf
  <2>2. \A s \in InUse(data) : data[s].key = data'[s].key \/ data[s].key = Top.key
    <3>1. \A s \in InUse(data) : data[s].key # NULL /\ s \in DOMAIN data
      BY DEF TableExact, InUse
    <3> QED
      BY <1>1, <1>3, <3>1
  <2>3. \A s \in InUse(data) : data'[s].key \in KeysOf(data) \cup {Top.key}
    BY <1>2, <1>3 DEF KeysOf, InUse
  <2> QED
    BY <1>2, <1>3, <2>1, <2>2, <2>3 DEF KeysOf
<1>6. IsTable(data)' /\ table_size' = table_size
  BY <1>3 DEF IsTable, TableExact, table_size
<1> QED
  BY <1>2, <1>3, <1>4, <1>5, <1>6 DEF StoreTable, e

(* ... and in the calls in progress. *)
StoreFrames ==
    LET n == Len(frames)
    IN  /\ n = 1 => frames' = <<>>
        /\ n > 1 => /\ DOMAIN frames' = 1 .. n - 1 /\ frames' = [i \in 1 .. n - 1 |-> frames'[i]]
                    /\ \A i \in 1 .. n - 2 : frames'[i] = frames[i]
                    /\ frames'[n - 1] = [key |-> frames[n - 1].key, data |-> frames[n - 1].data,
                                         old |-> frames[n - 1].old, at |-> frames[n - 1].at + 1]

LEMMA BelowFacts ==
    ASSUME FramesExact, Len(frames) > 0
    PROVE  /\ Below = [i \in 1 .. Len(frames) - 1 |-> frames[i]]
           /\ DOMAIN Below = 1 .. Len(frames) - 1 /\ Len(Below) = Len(frames) - 1
           /\ Below = <<>> <=> Len(frames) = 1
<1>1. Len(frames) \in Nat /\ DOMAIN frames = 1 .. Len(frames)
  BY DEF FramesExact
<1>2. Below = [i \in 1 .. Len(frames) - 1 |-> frames[i]]
  <2>1. PICK n \in Nat : n = Len(frames)
    BY <1>1
  <2>2. SubSeq(frames, 1, n - 1) = [i \in 1 .. n - 1 |-> frames[i]]
    <3>1. \A i \in 1 .. n - 1 : frames[1 + i - 1] = frames[i]
      OBVIOUS
    <3>2. SubSeq(frames, 1, n - 1) = [i \in 1 .. n - 1 |-> frames[1 + i - 1]]
      BY <2>1
    <3> QED
      BY <3>1, <3>2
  <2> QED
    BY <2>1, <2>2 DEF Below
<1>3. DOMAIN Below = 1 .. Len(frames) - 1 /\ Len(Below) = Len(frames) - 1
  BY <1>1, <1>2
<1>4. Below = <<>> <=> Len(frames) = 1
  <2>1. Len(frames) - 1 = 0 <=> Len(frames) = 1
    BY <1>1
  <2>2. Below = <<>> => Len(Below) = 0
    OBVIOUS
  <2>3. Len(frames) = 1 => Below = <<>>
    <3>1. Len(frames) = 1 => 1 .. Len(frames) - 1 = {}
      OBVIOUS
    <3>2. Len(frames) = 1 => Below = [i \in {} |-> frames[i]]
      BY <1>2, <3>1
    <3> QED
      BY <3>2
  <2> QED
    BY <1>3, <2>1, <2>2, <2>3
<1> QED
  BY <1>2, <1>3, <1>4

LEMMA StoreFramesFacts ==
    ASSUME FramesExact, Store
    PROVE  StoreFrames
<1>0. PICK n : n = Len(frames)
  OBVIOUS
<1>1. n \in Nat /\ n > 0 /\ Len(frames) > 0
  BY <1>0 DEF Store, Idle, FramesExact
<1>2. CASE n = 1
  <2>1. frames' = <<>>
    BY <1>0, <1>1, <1>2, BelowFacts DEF Store
  <2> QED
    BY <1>0, <1>2, <2>1 DEF StoreFrames
<1>3. CASE n > 1
  <2>0. n # 1 /\ n - 1 \in 1 .. n - 1 /\ n - 1 \in DOMAIN frames
    BY <1>0, <1>1, <1>3 DEF FramesExact
  <2>1. frames' = [Below EXCEPT ![Len(Below)].at = @ + 1]
    BY <1>0, <1>1, <2>0, BelowFacts DEF Store
  <2>2. PICK b : b = frames[n - 1]
    OBVIOUS
  <2>3. /\ DOMAIN Below = 1 .. n - 1 /\ Below = [i \in 1 .. n - 1 |-> frames[i]] /\ Len(Below) = n - 1
        /\ Below[n - 1] = b
    BY <1>0, <1>1, <2>0, <2>2, BelowFacts
  <2>4. b = [key |-> b.key, data |-> b.data, old |-> b.old, at |-> b.at]
    BY <2>0, <2>2 DEF FramesExact
  <2>5. [b EXCEPT !.at = b.at + 1] = [key |-> b.key, data |-> b.data, old |-> b.old, at |-> b.at + 1]
    BY <2>4
  <2>6. PICK c : c = [b EXCEPT !.at = b.at + 1]
    OBVIOUS
  <2>7. frames' = [Below EXCEPT ![n - 1] = c]
    BY <2>1, <2>3, <2>6
  <2>8. /\ DOMAIN frames' = 1 .. n - 1 /\ frames' = [i \in 1 .. n - 1 |-> frames'[i]]
        /\ \A i \in 1 .. n - 2 : frames'[i] = frames[i]
        /\ frames'[n - 1] = c
    <3>1. frames' = [i \in 1 .. n - 1 |-> IF i = n - 1 THEN c ELSE frames[i]]
      BY <2>3, <2>7
    <3>2. \A i \in 1 .. n - 2 : i \in 1 .. n - 1 /\ i # n - 1
      BY <1>1
    <3> QED
      BY <2>0, <3>1, <3>2
  <2> QED
    BY <1>0, <2>0, <2>2, <2>5, <2>6, <2>8 DEF StoreFrames
<1> QED
  BY <1>1, <1>2, <1>3

(* The key that a call in the middle of a doubling puts is one that waits  *)
(* to be moved, and so in no other place.                                  *)
LEMMA MovedKey ==
    ASSUME IndInv, usage # "both", NEW n, n = Len(frames), n > 1
    PROVE  /\ Top.key \in ToMove(frames[n - 1]) /\ Top.key \notin KeysOf(data)
           /\ frames[n - 1].at \in InUse(frames[n - 1].old)
           /\ frames[n - 1].old[frames[n - 1].at] = [key |-> Top.key, data |-> Top.data]
           /\ \A i \in DOMAIN frames : i # n - 1 => Top.key \notin ToMove(frames[i])
<1>1. FramesExact /\ Nested /\ Apart /\ n \in Nat /\ n \in DOMAIN frames /\ n - 1 \in DOMAIN frames
  <2>1. FramesExact /\ Nested /\ Apart
    BY FramesFacts DEF IndInv
  <2> QED
    BY <2>1 DEF FramesExact
<1>2. Top = frames[n]
  BY DEF Top
<1>3. /\ frames[n - 1].at \in InUse(frames[n - 1].old)
      /\ frames[n - 1].old[frames[n - 1].at] = [key |-> frames[n].key, data |-> frames[n].data]
  BY <1>1 DEF Nested
<1>4. frames[n - 1].at \in Unmoved(frames[n - 1])
  <2>1. frames[n - 1].at \in Nat
    BY <1>1 DEF FramesExact
  <2>2. PICK x \in Nat : x = frames[n - 1].at
    BY <2>1
  <2>3. x >= x
    OBVIOUS
  <2> QED
    BY <1>3, <2>2, <2>3 DEF Unmoved
<1>5. Top.key \in ToMove(frames[n - 1])
  BY <1>2, <1>3, <1>4 DEF ToMove
<1> QED
  BY <1>1, <1>2, <1>3, <1>5 DEF Apart

(* Where the key was not yet, the slot was free. *)
LEMMA StoreFree ==
    ASSUME TableExact, NEW h, StoreSlot(h), Top.key \notin KeysOf(data)
    PROVE  h \notin InUse(data)
BY DEF TableExact, StoreSlot, KeysOf, InUse

LEMMA StorePlaced ==
    ASSUME TableExact, Placed, NEW h, StoreSlot(h), StoreTable(h), usage' = usage
    PROVE  Placed'
<1>1. \A k, i : Slot(k, i)' = Slot(k, i)
  BY DEF StoreTable, Slot
<1>2. data[h].key \in {NULL, Top.key} /\ h \in DOMAIN data /\ Top.key \in Keys /\ Top.key # NULL
  BY NULLAssumption DEF StoreSlot
<1>3. Chain \subseteq Nat
  BY SizeAssumption DEF Chain
<1>4. ASSUME NEW s \in InUse(data) \cup {h}
      PROVE  \E i \in Chain :
               /\ s = Slot(data'[s].key, i)
               /\ usage = "overwrite" =>
                    \A j \in 0 .. i - 1 : data'[Slot(data'[s].key, j)].key \notin {NULL, data'[s].key}
  <2>1. CASE s = h
    <3>1. PICK i \in Chain : /\ h = Slot(Top.key, i)
                             /\ \A j \in 0 .. i - 1 : data[Slot(Top.key, j)].key \notin {NULL, Top.key}
      BY DEF StoreSlot
    <3>2. ASSUME NEW j \in 0 .. i - 1
          PROVE  data'[Slot(Top.key, j)].key \notin {NULL, Top.key}
      <4>1. Slot(Top.key, j) \in DOMAIN data
        BY <1>2, <1>3, SlotFacts
      <4>2. Slot(Top.key, j) # h
        BY <1>2, <3>1
      <4> QED
        BY <3>1, <4>1, <4>2 DEF StoreTable
    <3> QED
      BY <2>1, <3>1, <3>2 DEF StoreTable
  <2>2. CASE s # h
    <3> DEFINE e == data[s].key
    <3>1. s \in InUse(data) /\ data'[s] = data[s] /\ e \in Keys /\ e # NULL
      BY <1>4, <2>2 DEF StoreTable, TableExact, InUse
    <3>2. PICK i \in Chain : /\ s = Slot(e, i)
                             /\ usage = "overwrite" => \A j \in 0 .. i - 1 : data[Slot(e, j)].key \notin {NULL, e}
      BY <3>1 DEF Placed
    <3> HIDE DEF e
    <3>3. ASSUME usage = "overwrite", NEW j \in 0 .. i - 1
          PROVE  data'[Slot(e, j)].key \notin {NULL, e}
      <4>1. Slot(e, j) \in DOMAIN data
        BY <1>3, <3>1, SlotFacts
      <4>2. data[Slot(e, j)].key \notin {NULL, e}
        BY <3>2, <3>3
      <4>3. CASE Slot(e, j) = h
        BY <1>2, <4>2, <4>3 DEF StoreTable
      <4>4. CASE Slot(e, j) # h
        BY <4>1, <4>2, <4>4 DEF StoreTable
      <4> QED
        BY <4>3, <4>4
    <3>4. data'[s].key = e
      BY <3>1 DEF e
    <3> QED
      BY <3>2, <3>3, <3>4
  <2> QED
    BY <2>1, <2>2
<1>5. InUse(data)' = InUse(data) \cup {h}
  BY DEF StoreTable
<1> QED
  BY <1>1, <1>4, <1>5 DEF Placed, Chain

(* Without free slots before them, the elements of one key are one. *)
LEMMA StoreOnce ==
    ASSUME TableExact, Placed, Once(data), NEW h, StoreSlot(h), StoreTable(h),
           usage = "overwrite" \/ Top.key \notin KeysOf(data)
    PROVE  Once(data)'
<1>1. ASSUME NEW s \in InUse(data), data[s].key = Top.key
      PROVE  s = h
  <2>1. usage = "overwrite"
    BY <1>1 DEF KeysOf
  <2>2. PICK i \in Chain : /\ s = Slot(Top.key, i)
                           /\ \A j \in 0 .. i - 1 : data[Slot(Top.key, j)].key \notin {NULL, Top.key}
    BY <1>1, <2>1 DEF Placed
  <2>3. PICK j \in Chain : /\ h = Slot(Top.key, j)
                           /\ \A l \in 0 .. j - 1 : data[Slot(Top.key, l)].key \notin {NULL, Top.key}
    BY DEF StoreSlot
  <2>4. i \in Nat /\ j \in Nat
    BY SizeAssumption DEF Chain
  <2>5. data[h].key \in {NULL, Top.key}
    BY DEF StoreSlot
  <2>6. ~(i < j) /\ ~(j < i)
    <3>1. i < j => i \in 0 .. j - 1
      BY <2>4
    <3>2. j < i => j \in 0 .. i - 1
      BY <2>4
    <3> QED
      BY <1>1, <2>2, <2>3, <2>5, <3>1, <3>2
  <2>7. i = j
    BY <2>4, <2>6
  <2> QED
    BY <2>2, <2>3, <2>7
<1>2. \A s \in InUse(data) : s # h => data'[s].key = data[s].key
  BY DEF StoreTable, InUse
<1>3. data'[h].key = Top.key /\ InUse(data)' = InUse(data) \cup {h}
  BY DEF StoreTable
<1>4. ASSUME NEW r \in InUse(data) \cup {h}, NEW s \in InUse(data) \cup {h}, data'[r].key = data'[s].key
      PROVE  r = s
  BY <1>1, <1>2, <1>3, <1>4 DEF Once
<1> QED
  BY <1>3, <1>4 DEF Once
(* The calls below: the last of them is past the element it moved. *)
StoreEach(n) ==
    /\ DOMAIN frames' = 1 .. n - 1 /\ Len(frames') = n - 1
    /\ frames' \in Seq({frames'[i] : i \in DOMAIN frames'})
    /\ \A i \in 1 .. n - 1 :
         /\ i \in DOMAIN frames /\ frames[i].old # NoTable
         /\ frames'[i].key = frames[i].key /\ frames'[i].data = frames[i].data
         /\ frames'[i].old = frames[i].old /\ frames'[i].at \in Nat
         /\ frames'[i] \in [key : Keys, data : Values, old : {frames'[i].old}, at : Nat]
         /\ ToMove(frames'[i]) \subseteq ToMove(frames[i])
    /\ \A i \in 1 .. n - 2 : frames'[i] = frames[i]
    /\ n > 1 => \A s \in Unmoved(frames'[n - 1]) :
                  s \in Unmoved(frames[n - 1]) /\ s # frames[n - 1].at

LEMMA StoreEachFacts ==
    ASSUME FramesExact, StoreFrames, NEW n, n = Len(frames), n > 0
    PROVE  StoreEach(n)
<1>1. n \in Nat /\ DOMAIN frames = 1 .. n
  BY DEF FramesExact
<1>2. CASE n = 1
  <2>1. frames' = <<>>
    BY <1>2 DEF StoreFrames
  <2>2. 1 .. n - 1 = {} /\ 1 .. n - 2 = {} /\ ~(n > 1) /\ n - 1 = 0
    BY <1>2
  <2>3. DOMAIN frames' = {} /\ Len(frames') = 0 /\ frames' \in Seq({frames'[i] : i \in DOMAIN frames'})
    BY <2>1
  <2> QED
    BY <2>2, <2>3 DEF StoreEach
<1>3. CASE n > 1
  <2> DEFINE b == frames[n - 1]
             c == [key |-> b.key, data |-> b.data, old |-> b.old, at |-> b.at + 1]
  <2>1. /\ DOMAIN frames' = 1 .. n - 1 /\ frames' = [i \in 1 .. n - 1 |-> frames'[i]]
        /\ \A i \in 1 .. n - 2 : frames'[i] = frames[i]
        /\ frames'[n - 1] = c
    BY <1>3 DEF StoreFrames
  <2>2. frames' \in Seq({frames'[i] : i \in DOMAIN frames'}) /\ Len(frames') = n - 1
    BY <1>1, <1>3, <2>1, FramesTyped
  <2>3. \A i \in 1 .. n - 1 : /\ i \in DOMAIN frames /\ i # n
                              /\ i \in 1 .. n - 2 \/ i = n - 1
    BY <1>1
  <2>4. \A i \in DOMAIN frames : i # n => frames[i].old # NoTable
    BY DEF FramesExact
  <2>5. /\ b.key \in Keys /\ b.data \in Values /\ b.at \in Nat
        /\ c.key = b.key /\ c.data = b.data /\ c.old = b.old /\ c.at = b.at + 1
    BY <1>1, <1>3 DEF FramesExact
  <2>6. \A i \in DOMAIN frames :
          /\ frames[i].at \in Nat
          /\ frames[i] \in [key : Keys, data : Values, old : {frames[i].old}, at : Nat]
    <3>1. ASSUME NEW i \in DOMAIN frames
          PROVE  frames[i] \in [key : Keys, data : Values, old : {frames[i].old}, at : Nat]
      <4>1. /\ frames[i].key \in Keys /\ frames[i].data \in Values /\ frames[i].at \in Nat
            /\ frames[i] = [key |-> frames[i].key, data |-> frames[i].data,
                            old |-> frames[i].old, at |-> frames[i].at]
        BY DEF FramesExact
      <4> QED
        BY <4>1
    <3> QED
      BY <3>1 DEF FramesExact
  <2>7. \A s \in Unmoved(c) : s \in Unmoved(b) /\ s # b.at
    <3>1. IsTable(b.old)
      BY <1>1, <1>3 DEF FramesExact
    <3>2. InUse(b.old) \subseteq Int
      BY <3>1 DEF IsTable, InUse
    <3>3. PICK x \in Nat : x = b.at
      BY <2>5
    <3>4. \A s \in Int : s >= x + 1 => s >= x /\ s # x
      OBVIOUS
    <3> HIDE DEF b, c
    <3> QED
      BY <2>5, <3>2, <3>3, <3>4 DEF Unmoved
  <2>8. ToMove(c) \subseteq ToMove(b)
    <3> HIDE DEF b, c
    <3> QED
      BY <2>5, <2>7 DEF ToMove
  <2>9. c \in [key : Keys, data : Values, old : {c.old}, at : Nat]
    BY <2>5
  <2> HIDE DEF c
  <2>10. ASSUME NEW i \in 1 .. n - 1
         PROVE  /\ i \in DOMAIN frames /\ frames[i].old # NoTable
                /\ frames'[i].key = frames[i].key /\ frames'[i].data = frames[i].data
                /\ frames'[i].old = frames[i].old /\ frames'[i].at \in Nat
                /\ frames'[i] \in [key : Keys, data : Values, old : {frames'[i].old}, at : Nat]
                /\ ToMove(frames'[i]) \subseteq ToMove(frames[i])
    <3>1. CASE i \in 1 .. n - 2
      BY <2>1, <2>3, <2>4, <2>6, <3>1
    <3>2. CASE i = n - 1
      BY <2>1, <2>3, <2>4, <2>5, <2>8, <2>9, <3>2
    <3> QED
      BY <2>3, <3>1, <3>2
  <2> QED
    BY <2>1, <2>2, <2>7, <2>10 DEF StoreEach
<1> QED
  BY <1>1, <1>2, <1>3

LEMMA StoreStep ==
    ASSUME IndInv, Store
    PROVE  IndInv'
<1> DEFINE k == Top.key
<1>0. PICK n : n = Len(frames)
  OBVIOUS
<1>1. TableExact /\ FramesExact /\ TypeOK /\ Typed /\ HalfFree /\ Nested /\ usage' = usage
  BY TableFacts, FramesFacts DEF IndInv, Store
<1>2. PICK h : StoreSlot(h)
  BY StoreFacts
<1>3. StoreTable(h) /\ n \in Nat /\ n > 0 /\ DOMAIN frames = 1 .. n
  BY <1>0, <1>1, <1>2, StoreTableFacts, StoreFacts DEF FramesExact
<1>4. StoreEach(n)
  BY <1>0, <1>1, <1>3, StoreFramesFacts, StoreEachFacts
<1>5. k \in Keys /\ size' = size + 1 /\ size < table_size \div 2 /\ h \in DOMAIN data
  BY <1>2 DEF StoreSlot
<1>6. usage # "both" => Apart /\ Placed
  BY DEF IndInv
<1>7. usage # "both" /\ (usage = "remove" \/ n > 1) => k \notin KeysOf(data)
  <2>1. n > 1 /\ usage # "both" => k \notin KeysOf(data)
    BY <1>0, MovedKey
  <2>2. n = 1 /\ usage = "remove" => k \notin KeysOf(data)
    BY <1>0, <1>3, <1>6 DEF Apart, Top
  <2> QED
    BY <1>3, <2>1, <2>2
<1> HIDE DEF k
<1>8. TypeOK'
  <2>1. data' # NoTable
    BY <1>3, <1>5, NoTableFacts DEF StoreTable
  <2>2. \A i \in DOMAIN frames' :
          /\ frames'[i].key \in Keys /\ frames'[i].data \in Values
          /\ IsTable(frames'[i].old) /\ frames'[i].at \in Nat
          /\ frames'[i].old # NoTable
    BY <1>1, <1>4 DEF TypeOK, StoreEach
  <2>3. size' \in Nat
    BY <1>1, <1>5 DEF TypeOK
  <2> QED
    BY <1>1, <1>3, <2>1, <2>2, <2>3 DEF TypeOK, StoreTable
<1>9. Typed'
  BY <1>1, <1>3, <1>4 DEF Typed, StoreTable, StoreEach
<1>10. HalfFree'
  <2>1. /\ InUse(data)' = InUse(data) \cup {h} /\ IsFiniteSet(InUse(data))
        /\ Cardinality(InUse(data)) \in Nat /\ size \in Nat
        /\ Cardinality(InUse(data)) <= size /\ (usage = "remove" => size = Cardinality(InUse(data)))
        /\ table_size \in Nat /\ table_size' = table_size
    BY <1>1, <1>3 DEF TableExact, StoreTable, TypeOK, HalfFree
  <2>2. /\ h \in InUse(data) => Cardinality(InUse(data)') = Cardinality(InUse(data))
        /\ h \notin InUse(data) => Cardinality(InUse(data)') = Cardinality(InUse(data)) + 1
    BY <2>1, FS_AddElement
  <2>3. usage = "remove" => h \notin InUse(data)
    BY <1>1, <1>2, <1>7, StoreFree DEF k
  <2>4. PICK half : half = table_size \div 2
    OBVIOUS
  <2>5. half \in Int
    BY <2>1, <2>4
  <2>6. size' <= half /\ Cardinality(InUse(data)') <= size'
        /\ (usage = "remove" => size' = Cardinality(InUse(data)'))
    BY <1>5, <2>1, <2>2, <2>3, <2>4, <2>5
  <2> QED
    BY <1>1, <2>1, <2>4, <2>6 DEF HalfFree
<1>11. Nested'
  <2>1. ASSUME NEW i \in 1 .. n - 1
        PROVE  /\ frames'[i].old = NoTable => frames'[i].at = 0
               /\ i > 1 => LET below == frames'[i - 1]
                           IN  /\ below.at \in InUse(below.old)
                               /\ below.old[below.at] = [key |-> frames'[i].key, data |-> frames'[i].data]
    <3>1. frames'[i].old # NoTable /\ i \in DOMAIN frames
          /\ frames'[i].key = frames[i].key /\ frames'[i].data = frames[i].data
      BY <1>4 DEF StoreEach
    <3>2. i > 1 => i - 1 \in 1 .. n - 2
      BY <1>3
    <3>3. i > 1 => frames'[i - 1] = frames[i - 1]
      BY <1>4, <3>2 DEF StoreEach
    <3> QED
      BY <1>1, <3>1, <3>3 DEF Nested
  <2> QED
    BY <1>4, <2>1 DEF Nested, StoreEach
<1>12. ASSUME usage # "both"
       PROVE  Apart'
  <2>1. Once(data)'
    <3>1. usage = "overwrite" \/ k \notin KeysOf(data)
      BY <1>1, <1>7, <1>12, UsageAssumption DEF TypeOK
    <3> QED
      BY <1>1, <1>2, <1>3, <1>6, <1>12, <3>1, StoreOnce DEF Apart, k
  <2>2. \A i \in 1 .. n - 1 : Once(frames'[i].old)
    BY <1>4, <1>6, <1>12 DEF StoreEach, Apart
  <2>3. \A i \in 1 .. n - 1 : k \notin ToMove(frames'[i])
    <3>1. ASSUME NEW i \in 1 .. n - 1, i # n - 1 PROVE k \notin ToMove(frames'[i])
      <4>1. n > 1 /\ i \in DOMAIN frames /\ ToMove(frames'[i]) \subseteq ToMove(frames[i])
        BY <1>3, <1>4 DEF StoreEach
      <4> QED
        BY <1>0, <1>12, <3>1, <4>1, MovedKey DEF k
    <3>2. ASSUME n > 1 PROVE k \notin ToMove(frames'[n - 1])
      <4> DEFINE b == frames[n - 1]
                 c == frames'[n - 1]
      <4>1. b.at \in InUse(b.old) /\ b.old[b.at].key = k /\ Once(b.old) /\ n - 1 \in 1 .. n - 1
        <5>1. n - 1 \in DOMAIN frames /\ n - 1 \in 1 .. n - 1
          BY <1>3, <3>2
        <5> QED
          BY <1>0, <1>6, <1>12, <3>2, <5>1, MovedKey DEF k, Apart
      <4>2. c.old = b.old /\ \A s \in Unmoved(c) : s \in Unmoved(b) /\ s # b.at
        BY <1>4, <3>2, <4>1 DEF StoreEach
      <4> HIDE DEF b, c
      <4>3. \A s \in Unmoved(c) : s \in InUse(b.old) /\ s # b.at
        BY <4>2 DEF Unmoved
      <4>4. \A s \in Unmoved(c) : c.old[s].key # k
        BY <4>1, <4>2, <4>3 DEF Once
      <4>5. k \notin ToMove(c)
        BY <4>4 DEF ToMove
      <4> QED
        BY <4>5 DEF c
    <3>3. \A i \in 1 .. n - 1 : i = n - 1 => n > 1
      BY <1>3
    <3> QED
      BY <3>1, <3>2, <3>3
  <2>4. \A i \in 1 .. n - 1 : ToMove(frames'[i]) \cap KeysOf(data)' = {}
    BY <1>3, <1>4, <1>6, <1>12, <2>3, SMTT(20) DEF StoreEach, StoreTable, Apart, k
  <2>5. \A i, j \in 1 .. n - 1 : i # j => ToMove(frames'[i]) \cap ToMove(frames'[j]) = {}
    BY <1>4, <1>6, <1>12 DEF StoreEach, Apart
  <2>6. ASSUME usage = "remove", NEW i \in 1 .. n - 1
        PROVE  frames'[1].key \notin KeysOf(data)' \cup ToMove(frames'[i])
    <3>1. n > 1 /\ 1 \in 1 .. n - 1 /\ n - 1 \in DOMAIN frames
      BY <1>3
    <3>2. frames'[1].key = frames[1].key /\ i \in DOMAIN frames /\ ToMove(frames'[i]) \subseteq ToMove(frames[i])
      BY <1>4, <3>1 DEF StoreEach
    <3>3. frames[1].key \notin KeysOf(data) /\ frames[1].key \notin ToMove(frames[i])
          /\ frames[1].key \notin ToMove(frames[n - 1])
      BY <1>6, <1>12, <2>6, <3>1, <3>2 DEF Apart
    <3>4. k \in ToMove(frames[n - 1])
      BY <1>0, <1>12, <3>1, MovedKey DEF k
    <3> QED
      BY <1>3, <3>2, <3>3, <3>4 DEF StoreTable, k
  <2> QED
    BY <1>1, <1>4, <2>1, <2>2, <2>4, <2>5, <2>6 DEF Apart, StoreEach
<1>13. usage # "both" => Placed' /\ InUse(data)' # {}
  BY <1>1, <1>2, <1>3, <1>6, StorePlaced DEF StoreTable
<1> QED
  BY <1>1, <1>8, <1>9, <1>10, <1>11, <1>12, <1>13 DEF IndInv

(* Steps that leave the table as it is. *)
LEMMA TableKept ==
    ASSUME IndInv, UNCHANGED <<data, size, usage>>
    PROVE  /\ table_size' = table_size /\ IsTable(data)' /\ (data # NoTable)' /\ (size \in Nat)'
           /\ (usage \in Usages)' /\ (table_size >= INITIAL_SIZE)'
           /\ HalfFree' /\ KeysOf(data)' = KeysOf(data) /\ InUse(data)' = InUse(data)
           /\ usage # "both" => Placed' /\ Once(data)' /\ (size > 0 => InUse(data) # {})'
<1>1. IsTable(data) /\ data # NoTable /\ size \in Nat /\ usage \in Usages /\ table_size >= INITIAL_SIZE /\ HalfFree
  BY DEF IndInv, TypeOK, Typed
<1>2. table_size' = table_size /\ KeysOf(data)' = KeysOf(data) /\ InUse(data)' = InUse(data)
  BY DEF table_size, KeysOf, InUse
<1>3. IsTable(data)' /\ HalfFree'
  BY <1>1, <1>2 DEF IsTable, HalfFree
<1>4. \A k, i : Slot(k, i)' = Slot(k, i)
  BY <1>2 DEF Slot
<1>5. ASSUME usage # "both" PROVE Placed' /\ Once(data)' /\ (size > 0 => InUse(data) # {})'
  <2>1. Placed /\ Once(data) /\ (size > 0 => InUse(data) # {})
    BY <1>5 DEF IndInv, Apart
  <2> QED
    BY <1>2, <1>4, <2>1 DEF Placed, Once, Chain
<1> QED
  BY <1>1, <1>2, <1>3, <1>5

(* Whenever no call is in progress, little is asked. *)
LEMMA NoCall ==
    ASSUME frames' = <<>>, IsTable(data)', (data # NoTable)', (size \in Nat)', (usage \in Usages)',
           (table_size >= INITIAL_SIZE)', HalfFree', usage' = usage,
           usage # "both" => Placed' /\ Once(data)' /\ (size > 0 => InUse(data) # {})'
    PROVE  IndInv'
<1>1. DOMAIN frames' = {} /\ frames' \in Seq({frames'[i] : i \in DOMAIN frames'})
  OBVIOUS
<1>2. TypeOK' /\ Typed' /\ Nested' /\ (usage # "both" => Apart')
  BY <1>1 DEF TypeOK, Typed, Nested, Apart
<1> QED
  BY <1>2 DEF IndInv

LEMMA QuietStep ==
    ASSUME IndInv, UNCHANGED <<data, size, usage>>, frames' = <<>>
    PROVE  IndInv'
BY TableKept, NoCall

LEMMA PutStarts ==
    ASSUME IndInv, NEW k \in Keys, NEW v \in Values, Put(k, v)
    PROVE  IndInv'
<1>1. /\ table_size' = table_size /\ IsTable(data)' /\ (data # NoTable)' /\ (size \in Nat)'
      /\ (usage \in Usages)' /\ (table_size >= INITIAL_SIZE)'
      /\ HalfFree' /\ KeysOf(data)' = KeysOf(data) /\ InUse(data)' = InUse(data)
      /\ usage # "both" => Placed' /\ Once(data)' /\ (size > 0 => InUse(data) # {})'
  BY TableKept DEF Put
<1>2. PICK f : f = Frame(k, v)
  OBVIOUS
<1>3. f.key = k /\ f.data = v /\ f.old = NoTable /\ f.at = 0
      /\ f \in [key : Keys, data : Values, old : {f.old}, at : Nat]
  BY <1>2 DEF Frame
<1>4. frames' = <<f>> /\ DOMAIN frames' = {1} /\ frames'[1] = f /\ Len(frames') = 1
  BY <1>2 DEF Put
<1>5. frames' \in Seq({frames'[i] : i \in DOMAIN frames'})
  <2>1. {frames'[i] : i \in DOMAIN frames'} = {f}
    BY <1>4
  <2>2. <<f>> \in Seq({f})
    OBVIOUS
  <2> QED
    BY <1>4, <2>1, <2>2
<1>6. TypeOK' /\ Typed'
  BY <1>1, <1>3, <1>4, <1>5, NoTableFacts DEF TypeOK, Typed
<1>7. Nested'
  BY <1>3, <1>4 DEF Nested
<1>8. usage' = usage
  BY DEF Put
<1>9. ASSUME usage # "both" PROVE Apart'
  <2>1. ToMove(f) = {} /\ Once(f.old)
    BY <1>3, NoTableFacts DEF ToMove, Unmoved
  <2>2. usage = "remove" => k \notin KeysOf(data)
    BY DEF Put, KeysOf, InUse
  <2>3. \A i \in DOMAIN frames' : i = 1 /\ ToMove(frames'[i]) = {} /\ Once(frames'[i].old)
    BY <1>4, <2>1
  <2>4. usage' = "remove" => frames'[1].key \notin KeysOf(data)'
    BY <1>1, <1>3, <1>4, <1>8, <2>2
  <2> QED
    BY <1>1, <1>9, <2>3, <2>4 DEF Apart
<1> QED
  BY <1>1, <1>6, <1>7, <1>8, <1>9 DEF IndInv

(* An element is taken out: nobody's place changes. *)
LEMMA RemoveStep ==
    ASSUME IndInv, NEW k \in Keys, hashmap_remove(k)
    PROVE  IndInv'
<1>0. frames' = <<>> /\ usage' = usage /\ usage # "overwrite"
  BY DEF hashmap_remove, Idle
<1>1. CASE Found(k) = {}
  BY <1>0, <1>1, QuietStep DEF hashmap_remove
<1>2. CASE Found(k) # {}
  <2> DEFINE m == Min(Found(k))
             s == Slot(k, m)
  <2>1. TableExact /\ TypeOK /\ Typed /\ HalfFree
    BY TableFacts DEF IndInv
  <2>2. data' = [data EXCEPT ![s] = Free] /\ size' = size - 1
    BY <1>2 DEF hashmap_remove, FirstFound, SizeAfterRemoval
  <2>3. Found(k) \subseteq Chain /\ Chain \subseteq Nat
    BY SizeAssumption DEF Found, Chain
  <2>4. m \in Found(k) /\ m \in Nat
    BY <1>2, <2>3, MinFacts
  <2>5. s \in DOMAIN data /\ data[s].key = k
    BY <2>1, <2>4, SlotFacts DEF Found
  <2>6. s \in InUse(data)
    BY <2>1, <2>5, NULLAssumption DEF TableExact, InUse
  <2> HIDE DEF m, s
  <2>7. /\ DOMAIN data' = DOMAIN data /\ data' \in [DOMAIN data -> Elements]
        /\ data'[s] = Free /\ \A r \in DOMAIN data \ {s} : data'[r] = data[r]
    BY <2>1, <2>2, <2>5 DEF TableExact, Elements
  <2>8. InUse(data)' = InUse(data) \ {s} /\ \A r \in InUse(data)' : data'[r] = data[r]
    BY <2>7 DEF InUse
  <2>9. IsTable(data)' /\ table_size' = table_size /\ (data # NoTable)'
    <3>1. data' # NoTable
      BY <2>5, <2>7, NoTableFacts
    <3> QED
      BY <2>1, <2>7, <3>1 DEF IsTable, TableExact, table_size
  <2>10. /\ Cardinality(InUse(data)') = Cardinality(InUse(data)) - 1 /\ Cardinality(InUse(data)') \in Nat
         /\ IsFiniteSet(InUse(data)')
    <3>1. IsFiniteSet(InUse(data)) /\ Cardinality(InUse(data)) \in Nat
      BY <2>1 DEF TableExact
    <3>2. IsFiniteSet(InUse(data) \ {s}) /\ Cardinality(InUse(data) \ {s}) = Cardinality(InUse(data)) - 1
      BY <2>6, <3>1, FS_RemoveElement
    <3>3. Cardinality(InUse(data) \ {s}) \in Nat
      BY <3>2, FS_CardinalityType
    <3> QED
      BY <2>8, <3>2, <3>3
  <2>11. HalfFree' /\ size' \in Nat /\ (usage = "remove" => size' = Cardinality(InUse(data)'))
    <3>1. PICK half : half = table_size \div 2
      OBVIOUS
    <3>2. half \in Int /\ size \in Nat /\ Cardinality(InUse(data)) \in Nat
      BY <2>1, <3>1 DEF TableExact, TypeOK
    <3>3. /\ Cardinality(InUse(data)') <= size' /\ size' <= half /\ size' \in Nat
          /\ usage = "remove" => size' = Cardinality(InUse(data)')
      BY <2>1, <2>2, <2>10, <3>1, <3>2 DEF HalfFree
    <3> QED
      BY <1>0, <2>9, <3>1, <3>3 DEF HalfFree
  <2>12. ASSUME usage # "both"
         PROVE  Placed' /\ Once(data)' /\ (size > 0 => InUse(data) # {})'
    <3>1. usage = "remove"
      BY <1>0, <2>1, <2>12, UsageAssumption DEF TypeOK
    <3>2. \A l, i : Slot(l, i)' = Slot(l, i)
      BY <2>9 DEF Slot
    <3>3. Placed /\ Once(data)
      BY <2>12 DEF IndInv, Apart
    <3>4. Placed'
      <4>1. ASSUME NEW r \in InUse(data)' PROVE \E i \in Chain : r = Slot(data'[r].key, i)
        <5>1. r \in InUse(data) /\ data'[r] = data[r]
          BY <2>8
        <5> QED
          BY <3>3, <5>1 DEF Placed
      <4> QED
        BY <1>0, <3>1, <3>2, <4>1 DEF Placed, Chain
    <3>5. Once(data)'
      BY <2>8, <3>3 DEF Once
    <3>6. size' > 0 => InUse(data)' # {}
      BY <2>11, <3>1, FS_EmptySet
    <3> QED
      BY <3>4, <3>5, <3>6
  <2>13. (table_size >= INITIAL_SIZE)' /\ (usage \in Usages)'
    BY <1>0, <2>1, <2>9 DEF Typed, TypeOK
  <2> QED
    BY <1>0, <2>9, <2>11, <2>12, <2>13, NoCall
<1> QED
  BY <1>1, <1>2

(* A change of the frame on top, the others as they were. *)
TopChanged(n, f) ==
    /\ DOMAIN frames' = 1 .. n /\ Len(frames') = n
    /\ frames' \in Seq({frames'[i] : i \in DOMAIN frames'})
    /\ \A i \in 1 .. n - 1 : frames'[i] = frames[i] /\ i \in DOMAIN frames
    /\ frames'[n] = f

LEMMA TopChangedFacts ==
    ASSUME FramesExact, NEW n, n = Len(frames), n > 0, NEW f,
           frames' = [i \in 1 .. n |-> IF i = n THEN f ELSE frames[i]]
    PROVE  TopChanged(n, f)
<1>1. n \in Nat /\ DOMAIN frames = 1 .. n /\ DOMAIN frames' = 1 .. n /\ n \in 1 .. n
  <2>1. n \in Nat /\ DOMAIN frames = 1 .. n
    BY DEF FramesExact
  <2> QED
    BY <2>1
<1>2. frames' \in Seq({frames'[i] : i \in DOMAIN frames'}) /\ Len(frames') = n
  BY <1>1, FramesTyped
<1>3. \A i \in 1 .. n - 1 : i \in 1 .. n /\ i # n
  BY <1>1
<1> QED
  BY <1>1, <1>2, <1>3 DEF TopChanged

(* The call on top keeps the old table, ... *)
LEMMA DoubleFrames ==
    ASSUME IndInv, Double, NEW n, n = Len(frames), NEW b, b = frames[n],
           NEW f, f = [key |-> b.key, data |-> b.data, old |-> data, at |-> 0]
    PROVE  /\ n \in Nat /\ n > 0 /\ DOMAIN frames = 1 .. n /\ n \in DOMAIN frames
           /\ b.key \in Keys /\ b.data \in Values /\ b.old = NoTable /\ b.at = 0
           /\ b = [key |-> b.key, data |-> b.data, old |-> b.old, at |-> b.at]
           /\ f.key = b.key /\ f.data = b.data /\ f.old = data /\ f.at = 0
           /\ f \in [key : Keys, data : Values, old : {f.old}, at : Nat]
           /\ TopChanged(n, f)
<1>1. /\ TableExact /\ FramesExact /\ TypeOK /\ Typed /\ HalfFree /\ Nested /\ usage' = usage
      /\ data' = Empty(NewSize) /\ size' = 0
      /\ usage # "both" => Apart
  BY TableFacts, FramesFacts DEF IndInv, Double, SizeAfterDoubling
<1>2. n \in Nat /\ n > 0 /\ DOMAIN frames = 1 .. n /\ n \in DOMAIN frames
  BY <1>1 DEF Double, Idle, FramesExact
<1>3. /\ b.key \in Keys /\ b.data \in Values /\ b.old = NoTable /\ b.at = 0
      /\ b = [key |-> b.key, data |-> b.data, old |-> b.old, at |-> b.at]
  <2>1. b.old = NoTable
    BY DEF Double, Doubling, Top
  <2> QED
    BY <1>1, <1>2, <2>1 DEF FramesExact, Nested
<1>4. f.key = b.key /\ f.data = b.data /\ f.old = data /\ f.at = 0
      /\ f \in [key : Keys, data : Values, old : {f.old}, at : Nat]
  BY <1>3
<1>5. TopChanged(n, f)
  <2>1. [b EXCEPT !.old = data] = f
    BY <1>3
  <2>2. frames' = [frames EXCEPT ![n].old = data]
    BY DEF Double
  <2>3. frames' = [frames EXCEPT ![n] = [b EXCEPT !.old = data]]
    BY <2>2
  <2>4. frames' = [frames EXCEPT ![n] = f]
    BY <2>1, <2>3
  <2>5. frames' = [i \in 1 .. n |-> IF i = n THEN f ELSE frames[i]]
    BY <1>2, <2>4
  <2> QED
    BY <1>1, <1>2, <2>5, TopChangedFacts
<1> QED
  BY <1>2, <1>3, <1>4, <1>5

(* The new table is empty, and what is in the old one waits. *)
LEMMA DoubleStep ==
    ASSUME IndInv, Double
    PROVE  IndInv'
<1>0. PICK n : n = Len(frames)
  OBVIOUS
<1>1. /\ TableExact /\ FramesExact /\ TypeOK /\ Typed /\ HalfFree /\ Nested /\ usage' = usage
      /\ data' = Empty(NewSize) /\ size' = 0
      /\ usage # "both" => Apart
  BY TableFacts, FramesFacts DEF IndInv, Double, SizeAfterDoubling
<1>2. PICK b : b = frames[n]
  OBVIOUS
<1>3. PICK f : f = [key |-> b.key, data |-> b.data, old |-> data, at |-> 0]
  OBVIOUS
<1>4. n \in Nat /\ n > 0 /\ DOMAIN frames = 1 .. n /\ n \in DOMAIN frames
  BY <1>0, <1>2, <1>3, DoubleFrames
<1>5. /\ b.key \in Keys /\ b.data \in Values /\ b.old = NoTable /\ b.at = 0
      /\ b = [key |-> b.key, data |-> b.data, old |-> b.old, at |-> b.at]
  BY <1>0, <1>2, <1>3, DoubleFrames
<1>6. f.key = b.key /\ f.data = b.data /\ f.old = data /\ f.at = 0
      /\ f \in [key : Keys, data : Values, old : {f.old}, at : Nat]
  BY <1>0, <1>2, <1>3, DoubleFrames
<1>7. TopChanged(n, f)
  BY <1>0, <1>2, <1>3, DoubleFrames
<1>8. /\ IsTable(data)' /\ table_size' = NewSize /\ InUse(data)' = {} /\ KeysOf(data)' = {}
      /\ NewSize \in Nat /\ NewSize >= INITIAL_SIZE /\ (data # NoTable)'
  <2>1. NewSize \in Nat /\ NewSize >= INITIAL_SIZE /\ 0 \in 0 .. NewSize - 1
    BY <1>1, SizeAssumption DEF NewSize, TableExact, Typed
  <2>2. IsTable(data') /\ DOMAIN data' = 0 .. NewSize - 1 /\ Cardinality(DOMAIN data') = NewSize /\ InUse(data') = {}
    BY <1>1, <2>1, EmptyFacts
  <2>3. data' # NoTable
    BY <2>1, <2>2, NoTableFacts
  <2> QED
    BY <2>1, <2>2, <2>3 DEF KeysOf, table_size
<1>9. TypeOK'
  <2>1. \A i \in 1 .. n : /\ frames'[i].key \in Keys /\ frames'[i].data \in Values
                          /\ IsTable(frames'[i].old) /\ frames'[i].at \in Nat
                          /\ frames'[i].old # NoTable
    <3>1. \A i \in 1 .. n - 1 : i \in DOMAIN frames /\ i # n /\ frames'[i] = frames[i]
      BY <1>4, <1>7 DEF TopChanged
    <3>2. \A i \in 1 .. n - 1 : /\ frames'[i].key \in Keys /\ frames'[i].data \in Values
                          /\ IsTable(frames'[i].old) /\ frames'[i].at \in Nat
                          /\ frames'[i].old # NoTable
      BY <1>0, <1>1, <3>1 DEF FramesExact
    <3>3. \A i \in 1 .. n : i \in 1 .. n - 1 \/ i = n
      BY <1>4
    <3>4. IsTable(data) /\ data # NoTable
      BY <1>1 DEF TypeOK
    <3> QED
      BY <1>5, <1>6, <1>7, <3>2, <3>3, <3>4 DEF TopChanged
  <2> QED
    BY <1>1, <1>7, <1>8, <2>1 DEF TypeOK, TopChanged
<1>10. Typed'
  <2>1. \A i \in 1 .. n : frames'[i] \in [key : Keys, data : Values, old : {frames'[i].old}, at : Nat]
    <3>1. \A i \in 1 .. n : i \in 1 .. n - 1 \/ i = n
      BY <1>4
    <3> QED
      BY <1>1, <1>6, <1>7, <3>1 DEF Typed, TopChanged
  <2> QED
    BY <1>7, <1>8, <2>1 DEF Typed, TopChanged
<1>11. HalfFree'
  <2>1. 0 <= NewSize \div 2
    BY <1>8
  <2> QED
    BY <1>1, <1>8, <2>1, FS_EmptySet DEF HalfFree
<1>12. Nested'
  <2>1. ASSUME NEW i \in 1 .. n
        PROVE  /\ frames'[i].old = NoTable => frames'[i].at = 0
               /\ i > 1 => LET below == frames'[i - 1]
                           IN  /\ below.at \in InUse(below.old)
                               /\ below.old[below.at] = [key |-> frames'[i].key, data |-> frames'[i].data]
    <3>1. i > 1 => i - 1 \in 1 .. n - 1
      BY <1>4
    <3>2. i > 1 => frames'[i - 1] = frames[i - 1]
      BY <1>7, <3>1 DEF TopChanged
    <3>3. frames'[i].key = frames[i].key /\ frames'[i].data = frames[i].data
          /\ (frames'[i].old = NoTable => frames'[i].at = 0)
      <4>1. CASE i = n
        BY <1>2, <1>6, <1>7, <4>1 DEF TopChanged
      <4>2. CASE i # n
        <5>1. i \in 1 .. n - 1 /\ i \in DOMAIN frames
          BY <1>4, <4>2
        <5> QED
          BY <1>1, <1>7, <5>1 DEF TopChanged, Nested
      <4> QED
        BY <4>1, <4>2
    <3> QED
      BY <1>1, <1>4, <3>2, <3>3 DEF Nested
  <2> QED
    BY <1>7, <2>1 DEF Nested, TopChanged
<1>13. ASSUME usage # "both"
       PROVE  Apart'
  <2>1. ToMove(f) = KeysOf(data)
    <3>1. \A s \in InUse(data) : s >= 0
      BY <1>1 DEF TableExact
    <3> QED
      BY <1>6, <3>1 DEF ToMove, Unmoved, KeysOf
  <2>2. \A i \in 1 .. n : i = n \/ (i # n /\ i \in DOMAIN frames /\ frames'[i] = frames[i])
    BY <1>4, <1>7 DEF TopChanged
  <2>3. \A i \in 1 .. n : Once(frames'[i].old)
    BY <1>1, <1>6, <1>7, <1>13, <2>2 DEF Apart, TopChanged
  <2>4. \A i, j \in 1 .. n : i # j => ToMove(frames'[i]) \cap ToMove(frames'[j]) = {}
    BY <1>1, <1>7, <1>13, <2>1, <2>2 DEF Apart, TopChanged
  <2>5. ASSUME usage = "remove", NEW i \in 1 .. n
        PROVE  frames'[1].key \notin ToMove(frames'[i])
    <3>1. frames'[1].key = frames[1].key
      BY <1>4, <1>2, <1>6, <1>7, <2>2 DEF TopChanged
    <3>2. frames[1].key \notin KeysOf(data)
      BY <1>1, <1>4, <1>13, <2>5 DEF Apart
    <3>3. CASE i = n
      BY <1>7, <2>1, <3>1, <3>2, <3>3 DEF TopChanged
    <3>4. CASE i # n
      BY <1>1, <1>13, <2>2, <2>5, <3>1, <3>4 DEF Apart
    <3> QED
      BY <3>3, <3>4
  <2>6. Once(data)'
    BY <1>8 DEF Once
  <2> QED
    BY <1>1, <1>7, <1>8, <2>3, <2>4, <2>5, <2>6 DEF Apart, TopChanged
<1>14. Placed' /\ ~(size' > 0)
  BY <1>1, <1>8 DEF Placed
<1> QED
  BY <1>1, <1>9, <1>10, <1>11, <1>12, <1>13, <1>14 DEF IndInv

(* The call on top waits for the one that puts its next element, ... *)
FrameAt(b, s) == [key |-> b.key, data |-> b.data, old |-> b.old, at |-> s]

ReinsertAt(b, s) ==
    /\ b.key \in Keys /\ b.data \in Values /\ b.old # NoTable /\ b.at \in Nat /\ IsTable(b.old)
    /\ b = [key |-> b.key, data |-> b.data, old |-> b.old, at |-> b.at]
    /\ s \in Unmoved(b) /\ s \in InUse(b.old) /\ s \in Nat /\ s >= b.at
    /\ \A x \in Unmoved(b) : s <= x
    /\ b.old[s].key \in Keys /\ b.old[s].data \in Values
    /\ b.old[s] = [key |-> b.old[s].key, data |-> b.old[s].data]
    /\ InUse(b.old) \subseteq Nat

ReinsertFrame(c, f, b, s) ==
    /\ c.key = b.key /\ c.data = b.data /\ c.old = b.old /\ c.at = s
    /\ c \in [key : Keys, data : Values, old : {c.old}, at : Nat]
    /\ f.key = b.old[s].key /\ f.data = b.old[s].data /\ f.old = NoTable /\ f.at = 0
    /\ f \in [key : Keys, data : Values, old : {f.old}, at : Nat]

ReinsertTop(n, c, f) ==
    /\ DOMAIN frames' = 1 .. n + 1 /\ frames' = [i \in 1 .. n + 1 |-> frames'[i]]
    /\ Len(frames') = n + 1
    /\ \A i \in 1 .. n - 1 : frames'[i] = frames[i] /\ i \in DOMAIN frames
    /\ frames'[n] = c /\ frames'[n + 1] = f

LEMMA ReinsertFrames ==
    ASSUME IndInv, Reinsert, NEW n, n = Len(frames), NEW b, b = frames[n],
           NEW s, s = Min(Unmoved(b)),
           NEW c, c = FrameAt(b, s),
           NEW f, f = Frame(b.old[s].key, b.old[s].data)
    PROVE  /\ n \in Nat /\ n > 0 /\ DOMAIN frames = 1 .. n /\ n \in DOMAIN frames
           /\ ReinsertAt(b, s) /\ ReinsertFrame(c, f, b, s) /\ ReinsertTop(n, c, f)
<1>1. /\ TableExact /\ FramesExact /\ TypeOK /\ Typed /\ HalfFree /\ Nested /\ usage' = usage
      /\ usage # "both" => Apart
  BY TableFacts, FramesFacts DEF IndInv, Reinsert
<1>2. n \in Nat /\ n > 0 /\ DOMAIN frames = 1 .. n /\ n \in DOMAIN frames
  BY <1>1 DEF Reinsert, Idle, FramesExact
<1>3. /\ b.key \in Keys /\ b.data \in Values /\ b.old # NoTable /\ b.at \in Nat /\ IsTable(b.old)
      /\ b = [key |-> b.key, data |-> b.data, old |-> b.old, at |-> b.at]
  <2>1. b.old # NoTable
    BY DEF Reinsert, Doubling, Top
  <2> QED
    BY <1>1, <1>2, <2>1 DEF FramesExact
<1>4. /\ s \in Unmoved(b) /\ s \in InUse(b.old) /\ s \in Nat /\ s >= b.at
      /\ \A x \in Unmoved(b) : s <= x
      /\ b.old[s].key \in Keys /\ b.old[s].data \in Values
      /\ b.old[s] = [key |-> b.old[s].key, data |-> b.old[s].data]
      /\ InUse(b.old) \subseteq Nat
  <2>1. DOMAIN b.old \subseteq Nat /\ b.old \in [DOMAIN b.old -> Elements]
    BY <1>3 DEF IsTable
  <2>2. Unmoved(b) \subseteq InUse(b.old) /\ InUse(b.old) \subseteq DOMAIN b.old
    BY DEF Unmoved, InUse
  <2>3. Unmoved(b) # {}
    BY DEF Reinsert, Top
  <2>4. s \in Unmoved(b) /\ \A x \in Unmoved(b) : s <= x
    BY <2>1, <2>2, <2>3, MinFacts
  <2>5. b.old[s] \in [key : Keys, data : Values]
    <3>1. b.old[s] \in Elements /\ b.old[s] # Free
      BY <2>1, <2>2, <2>4 DEF InUse
    <3> QED
      BY <3>1, ElementFacts
  <2>6. s >= b.at
    BY <2>4 DEF Unmoved
  <2> QED
    BY <2>1, <2>2, <2>4, <2>5, <2>6
<1>5. /\ c.key = b.key /\ c.data = b.data /\ c.old = b.old /\ c.at = s
      /\ c \in [key : Keys, data : Values, old : {c.old}, at : Nat]
      /\ f.key = b.old[s].key /\ f.data = b.old[s].data /\ f.old = NoTable /\ f.at = 0
      /\ f \in [key : Keys, data : Values, old : {f.old}, at : Nat]
  BY <1>3, <1>4 DEF Frame, FrameAt
<1>6. /\ DOMAIN frames' = 1 .. n + 1 /\ frames' = [i \in 1 .. n + 1 |-> frames'[i]]
      /\ Len(frames') = n + 1
      /\ \A i \in 1 .. n - 1 : frames'[i] = frames[i] /\ i \in DOMAIN frames
      /\ frames'[n] = c /\ frames'[n + 1] = f
  <2> DEFINE g == [i \in 1 .. n |-> IF i = n THEN c ELSE frames[i]]
             S == {g[i] : i \in 1 .. n} \cup {f}
  <2>1. [b EXCEPT !.at = s] = c
    BY <1>3 DEF FrameAt
  <2>2. frames' = Append([frames EXCEPT ![n].at = s], f)
    BY DEF Reinsert, Top
  <2>3. frames' = Append([frames EXCEPT ![n] = [b EXCEPT !.at = s]], f)
    BY <2>2
  <2>4. [frames EXCEPT ![n] = c] = g
    <3>1. DOMAIN frames = 1 .. n /\ frames = [i \in 1 .. n |-> frames[i]]
      <4>1. frames \in Seq({frames[i] : i \in DOMAIN frames})
        BY <1>1 DEF Typed
      <4> QED
        BY <1>2, <4>1
    <3> QED
      BY <3>1
  <2>5. frames' = Append(g, f)
    BY <2>1, <2>3, <2>4
  <2>6. g \in Seq(S) /\ f \in S /\ Len(g) = n
    <3>1. g \in [1 .. n -> S]
      OBVIOUS
    <3> HIDE DEF S
    <3>2. g \in Seq(S) /\ Len(g) = n
      BY <1>2, <3>1
    <3> QED
      BY <3>2 DEF S
  <2>7. \A i \in 1 .. n - 1 : i \in 1 .. n /\ i # n /\ g[i] = frames[i]
    BY <1>2
  <2>8. g[n] = c
    BY <1>2
  <2> HIDE DEF g, S
  <2>9. /\ frames' \in Seq(S) /\ Len(frames') = n + 1 /\ frames'[n + 1] = f
        /\ \A i \in 1 .. n : frames'[i] = g[i]
    BY <2>5, <2>6
  <2>10. DOMAIN frames' = 1 .. n + 1 /\ frames' = [i \in 1 .. n + 1 |-> frames'[i]]
    BY <2>9
  <2> QED
    BY <1>2, <2>7, <2>8, <2>9, <2>10
<1> QED
  <2>1. ReinsertAt(b, s)
    BY <1>3, <1>4 DEF ReinsertAt
  <2>2. ReinsertFrame(c, f, b, s)
    BY <1>5 DEF ReinsertFrame
  <2>3. ReinsertTop(n, c, f)
    BY <1>6 DEF ReinsertTop
  <2> QED
    BY <1>2, <2>1, <2>2, <2>3

(* The next element is put in a call of its own. *)
LEMMA ReinsertStep ==
    ASSUME IndInv, Reinsert
    PROVE  IndInv'
<1>0. PICK n : n = Len(frames)
  OBVIOUS
<1>1. /\ TableExact /\ FramesExact /\ TypeOK /\ Typed /\ HalfFree /\ Nested /\ usage' = usage
      /\ usage # "both" => Apart
  BY TableFacts, FramesFacts DEF IndInv, Reinsert
<1>2. PICK b : b = frames[n]
  OBVIOUS
<1>3. PICK s : s = Min(Unmoved(b))
  OBVIOUS
<1>4. PICK c : c = FrameAt(b, s)
  OBVIOUS
<1>5. PICK f : f = Frame(b.old[s].key, b.old[s].data)
  OBVIOUS
<1>6. /\ n \in Nat /\ n > 0 /\ DOMAIN frames = 1 .. n /\ n \in DOMAIN frames
      /\ ReinsertAt(b, s) /\ ReinsertFrame(c, f, b, s) /\ ReinsertTop(n, c, f)
  BY <1>0, <1>2, <1>3, <1>4, <1>5, ReinsertFrames
<1>7. n \in Nat /\ n > 0 /\ DOMAIN frames = 1 .. n /\ n \in DOMAIN frames
  BY <1>6 DEF ReinsertAt, ReinsertFrame, ReinsertTop
<1>8. /\ b.key \in Keys /\ b.data \in Values /\ b.old # NoTable /\ b.at \in Nat /\ IsTable(b.old)
      /\ b = [key |-> b.key, data |-> b.data, old |-> b.old, at |-> b.at]
  BY <1>6 DEF ReinsertAt, ReinsertFrame, ReinsertTop
<1>9. /\ s \in Unmoved(b) /\ s \in InUse(b.old) /\ s \in Nat /\ s >= b.at
      /\ \A x \in Unmoved(b) : s <= x
      /\ b.old[s].key \in Keys /\ b.old[s].data \in Values
      /\ b.old[s] = [key |-> b.old[s].key, data |-> b.old[s].data]
      /\ InUse(b.old) \subseteq Nat
  BY <1>6 DEF ReinsertAt, ReinsertFrame, ReinsertTop
<1>10. /\ c.key = b.key /\ c.data = b.data /\ c.old = b.old /\ c.at = s
       /\ c \in [key : Keys, data : Values, old : {c.old}, at : Nat]
       /\ f.key = b.old[s].key /\ f.data = b.old[s].data /\ f.old = NoTable /\ f.at = 0
       /\ f \in [key : Keys, data : Values, old : {f.old}, at : Nat]
  BY <1>6 DEF ReinsertAt, ReinsertFrame, ReinsertTop
<1>11. /\ DOMAIN frames' = 1 .. n + 1 /\ frames' \in Seq({frames'[i] : i \in DOMAIN frames'})
       /\ Len(frames') = n + 1
       /\ \A i \in 1 .. n - 1 : frames'[i] = frames[i] /\ i \in DOMAIN frames
       /\ frames'[n] = c /\ frames'[n + 1] = f
  <2>1. DOMAIN frames' = 1 .. n + 1 /\ frames' = [i \in 1 .. n + 1 |-> frames'[i]] /\ n + 1 \in Nat
    BY <1>6 DEF ReinsertTop
  <2>2. frames' \in Seq({frames'[i] : i \in DOMAIN frames'})
    BY <2>1, FramesTyped
  <2> QED
    BY <1>6, <2>1, <2>2 DEF ReinsertTop
<1>12. \A i \in 1 .. n + 1 : i = n + 1 \/ i = n \/ (i \in 1 .. n - 1 /\ i \in DOMAIN frames /\ i # n)
  BY <1>7
<1>13. /\ table_size' = table_size /\ IsTable(data)' /\ (data # NoTable)' /\ (size \in Nat)'
       /\ (usage \in Usages)' /\ (table_size >= INITIAL_SIZE)'
       /\ HalfFree' /\ KeysOf(data)' = KeysOf(data) /\ InUse(data)' = InUse(data)
       /\ usage # "both" => Placed' /\ Once(data)' /\ (size > 0 => InUse(data) # {})'
  BY TableKept DEF Reinsert
<1>14. TypeOK'
  <2>1. \A i \in 1 .. n + 1 :
          /\ frames'[i].key \in Keys /\ frames'[i].data \in Values
          /\ IsTable(frames'[i].old) /\ frames'[i].at \in Nat
          /\ frames'[i].old # NoTable \/ i = n + 1
    <3>1. \A i \in 1 .. n - 1 : /\ frames'[i].key \in Keys /\ frames'[i].data \in Values
                                /\ IsTable(frames'[i].old) /\ frames'[i].at \in Nat
                                /\ frames'[i].old # NoTable
      <4>1. \A i \in 1 .. n - 1 : i \in DOMAIN frames /\ i # n /\ frames'[i] = frames[i]
        BY <1>7, <1>11
      <4> QED
        BY <1>0, <1>1, <4>1 DEF FramesExact
    <3> QED
      BY <1>8, <1>9, <1>10, <1>11, <1>12, <3>1, NoTableFacts
  <2> QED
    BY <1>11, <1>13, <2>1 DEF TypeOK
<1>15. Typed'
  <2>1. \A i \in 1 .. n + 1 : frames'[i] \in [key : Keys, data : Values, old : {frames'[i].old}, at : Nat]
    BY <1>1, <1>10, <1>11, <1>12 DEF Typed
  <2> QED
    BY <1>11, <1>13, <2>1 DEF Typed
<1>16. Nested'
  <2>1. ASSUME NEW i \in 1 .. n + 1
        PROVE  /\ frames'[i].old = NoTable => frames'[i].at = 0
               /\ i > 1 => LET below == frames'[i - 1]
                           IN  /\ below.at \in InUse(below.old)
                               /\ below.old[below.at] = [key |-> frames'[i].key, data |-> frames'[i].data]
    <3>1. CASE i = n + 1
      <4>1. i - 1 = n
        BY <1>7, <3>1
      <4> QED
        BY <1>9, <1>10, <1>11, <3>1, <4>1
    <3>2. CASE i # n + 1
      <4>1. frames'[i].key = frames[i].key /\ frames'[i].data = frames[i].data /\ i \in DOMAIN frames
            /\ (frames'[i].old = NoTable => frames'[i].at = 0)
        <5>1. CASE i = n
          BY <1>7, <1>2, <1>8, <1>10, <1>11, <5>1
        <5>2. CASE i # n
          BY <1>1, <1>11, <1>12, <3>2, <5>2 DEF Nested
        <5> QED
          BY <5>1, <5>2
      <4>2. i > 1 => i - 1 \in 1 .. n - 1
        BY <1>7, <3>2
      <4>3. i > 1 => frames'[i - 1] = frames[i - 1]
        BY <1>11, <4>2
      <4> QED
        BY <1>1, <4>1, <4>3 DEF Nested
    <3> QED
      BY <3>1, <3>2
  <2> QED
    BY <1>11, <2>1 DEF Nested
<1>17. ASSUME usage # "both"
       PROVE  Apart'
  <2>1. Unmoved(c) = Unmoved(b) /\ ToMove(c) = ToMove(b)
    <3>1. PICK a \in Nat : a = b.at
      BY <1>8
    <3>2. \A x \in InUse(b.old) : x >= s <=> x >= a /\ x \in Unmoved(b)
      <4>1. \A x \in InUse(b.old) : x \in Unmoved(b) <=> x >= a
        BY <3>1 DEF Unmoved
      <4>2. \A x \in InUse(b.old) : x >= s => x >= a
        BY <1>9, <3>1
      <4> QED
        BY <1>9, <4>1, <4>2
    <3>3. Unmoved(c) = Unmoved(b)
      BY <1>10, <3>1, <3>2 DEF Unmoved
    <3> QED
      BY <1>10, <3>3 DEF ToMove
  <2>2. ToMove(f) = {} /\ Once(f.old)
    BY <1>10, NoTableFacts DEF ToMove, Unmoved
  <2>3. \A i \in 1 .. n + 1 :
          i = n + 1 \/ (/\ i # n + 1 /\ i \in DOMAIN frames
                        /\ ToMove(frames'[i]) = ToMove(frames[i]) /\ frames'[i].old = frames[i].old)
    <3>1. \A i \in 1 .. n - 1 : ToMove(frames'[i]) = ToMove(frames[i]) /\ frames'[i].old = frames[i].old
      BY <1>11
    <3>2. ToMove(frames'[n]) = ToMove(frames[n]) /\ frames'[n].old = frames[n].old
      BY <1>2, <1>10, <1>11, <2>1
    <3> QED
      BY <1>7, <1>12, <3>1, <3>2
  <2>4. ToMove(frames'[n + 1]) = {} /\ Once(frames'[n + 1].old)
    BY <1>11, <2>2
  <2>5. frames'[1].key = frames[1].key
    <3>1. 1 = n \/ 1 \in 1 .. n - 1
      BY <1>7
    <3> QED
      BY <1>2, <1>10, <1>11, <3>1
  <2>6. \A i \in 1 .. n + 1 : Once(frames'[i].old) /\ ToMove(frames'[i]) \cap KeysOf(data) = {}
    BY <1>1, <1>17, <2>3, <2>4 DEF Apart
  <2>7. \A i, j \in 1 .. n + 1 : i # j => ToMove(frames'[i]) \cap ToMove(frames'[j]) = {}
    BY <1>1, <1>17, <2>3, <2>4 DEF Apart
  <2>8. usage = "remove" =>
          \A i \in 1 .. n + 1 : frames'[1].key \notin KeysOf(data) \cup ToMove(frames'[i])
    BY <1>1, <1>7, <1>17, <2>3, <2>4, <2>5 DEF Apart
  <2> QED
    BY <1>1, <1>11, <1>13, <1>17, <2>6, <2>7, <2>8 DEF Apart
<1> QED
  BY <1>1, <1>13, <1>14, <1>15, <1>16, <1>17 DEF IndInv

(* The call on top forgets the table it has moved, ... *)
LEMMA RehashedFrames ==
    ASSUME IndInv, Rehashed, NEW n, n = Len(frames), NEW b, b = frames[n], NEW f, f = Frame(b.key, b.data)
    PROVE  /\ n \in Nat /\ n > 0 /\ DOMAIN frames = 1 .. n /\ n \in DOMAIN frames
           /\ b.key \in Keys /\ b.data \in Values
           /\ f.key = b.key /\ f.data = b.data /\ f.old = NoTable /\ f.at = 0
           /\ f \in [key : Keys, data : Values, old : {f.old}, at : Nat]
           /\ TopChanged(n, f)
<1>1. /\ TableExact /\ FramesExact /\ TypeOK /\ Typed /\ HalfFree /\ Nested /\ usage' = usage
      /\ usage # "both" => Apart
  BY TableFacts, FramesFacts DEF IndInv, Rehashed
<1>2. n \in Nat /\ n > 0 /\ DOMAIN frames = 1 .. n /\ n \in DOMAIN frames
  BY <1>1 DEF Rehashed, Idle, FramesExact
<1>3. b.key \in Keys /\ b.data \in Values
  BY <1>1, <1>2 DEF FramesExact
<1>4. /\ f.key = b.key /\ f.data = b.data /\ f.old = NoTable /\ f.at = 0
      /\ f \in [key : Keys, data : Values, old : {f.old}, at : Nat]
  BY <1>3 DEF Frame
<1>5. TopChanged(n, f)
  <2> DEFINE g == [i \in 1 .. n - 1 |-> frames[i]]
             S == {g[i] : i \in 1 .. n - 1} \cup {f}
  <2>1. frames' = Append(g, f)
    BY <1>1, <1>2, BelowFacts DEF Rehashed, Top
  <2>2. g \in Seq(S) /\ f \in S /\ Len(g) = n - 1
    <3>1. g \in [1 .. n - 1 -> S] /\ n - 1 \in Nat
      BY <1>2
    <3> HIDE DEF S
    <3>2. g \in Seq(S) /\ Len(g) = n - 1
      BY <3>1
    <3> QED
      BY <3>2 DEF S
  <2>3. \A i \in 1 .. n - 1 : g[i] = frames[i]
    OBVIOUS
  <2> HIDE DEF g, S
  <2>4. /\ frames' \in Seq(S) /\ Len(frames') = n /\ frames'[n] = f
        /\ \A i \in 1 .. n - 1 : frames'[i] = g[i]
    BY <1>2, <2>1, <2>2
  <2>5. DOMAIN frames' = 1 .. n /\ frames' = [i \in 1 .. n |-> frames'[i]]
    BY <2>4
  <2>6. frames' \in Seq({frames'[i] : i \in DOMAIN frames'})
    BY <1>2, <2>5, FramesTyped
  <2>7. \A i \in 1 .. n - 1 : i \in DOMAIN frames
    BY <1>2
  <2> QED
    BY <2>3, <2>4, <2>5, <2>6, <2>7 DEF TopChanged
<1> QED
  BY <1>2, <1>3, <1>4, <1>5

(* The doubling is over; its put is as it was before. *)
LEMMA RehashedStep ==
    ASSUME IndInv, Rehashed
    PROVE  IndInv'
<1>0. PICK n : n = Len(frames)
  OBVIOUS
<1>1. /\ TableExact /\ FramesExact /\ TypeOK /\ Typed /\ HalfFree /\ Nested /\ usage' = usage
      /\ usage # "both" => Apart
  BY TableFacts, FramesFacts DEF IndInv, Rehashed
<1>2. PICK b : b = frames[n]
  OBVIOUS
<1>3. PICK f : f = Frame(b.key, b.data)
  OBVIOUS
<1>4. n \in Nat /\ n > 0 /\ DOMAIN frames = 1 .. n /\ n \in DOMAIN frames
  BY <1>0, <1>2, <1>3, RehashedFrames
<1>5. b.key \in Keys /\ b.data \in Values
  BY <1>0, <1>2, <1>3, RehashedFrames
<1>6. /\ f.key = b.key /\ f.data = b.data /\ f.old = NoTable /\ f.at = 0
      /\ f \in [key : Keys, data : Values, old : {f.old}, at : Nat]
  BY <1>0, <1>2, <1>3, RehashedFrames
<1>7. TopChanged(n, f)
  BY <1>0, <1>2, <1>3, RehashedFrames
<1>8. \A i \in 1 .. n : i = n \/ (i \in 1 .. n - 1 /\ i # n /\ i \in DOMAIN frames /\ frames'[i] = frames[i])
  BY <1>4, <1>7 DEF TopChanged
<1>9. /\ table_size' = table_size /\ IsTable(data)' /\ (data # NoTable)' /\ (size \in Nat)'
      /\ (usage \in Usages)' /\ (table_size >= INITIAL_SIZE)'
      /\ HalfFree' /\ KeysOf(data)' = KeysOf(data) /\ InUse(data)' = InUse(data)
      /\ usage # "both" => Placed' /\ Once(data)' /\ (size > 0 => InUse(data) # {})'
  BY TableKept DEF Rehashed
<1>10. TypeOK'
  <2>1. \A i \in DOMAIN frames : i # n => frames[i].old # NoTable
    BY <1>0, <1>1 DEF FramesExact
  <2>2. \A i \in 1 .. n :
          /\ frames'[i].key \in Keys /\ frames'[i].data \in Values
          /\ IsTable(frames'[i].old) /\ frames'[i].at \in Nat
          /\ frames'[i].old # NoTable \/ i = n
    BY <1>1, <1>5, <1>6, <1>7, <1>8, <2>1, NoTableFacts DEF FramesExact, TopChanged
  <2> QED
    BY <1>7, <1>9, <2>2 DEF TypeOK, TopChanged
<1>11. Typed'
  <2>1. \A i \in 1 .. n : frames'[i] \in [key : Keys, data : Values, old : {frames'[i].old}, at : Nat]
    BY <1>1, <1>6, <1>7, <1>8 DEF Typed, TopChanged
  <2> QED
    BY <1>7, <1>9, <2>1 DEF Typed, TopChanged
<1>12. Nested'
  <2>1. ASSUME NEW i \in 1 .. n
        PROVE  /\ frames'[i].old = NoTable => frames'[i].at = 0
               /\ i > 1 => LET below == frames'[i - 1]
                           IN  /\ below.at \in InUse(below.old)
                               /\ below.old[below.at] = [key |-> frames'[i].key, data |-> frames'[i].data]
    <3>1. i > 1 => i - 1 \in 1 .. n - 1
      BY <1>4
    <3>2. i > 1 => frames'[i - 1] = frames[i - 1]
      BY <1>7, <3>1 DEF TopChanged
    <3>3. frames'[i].key = frames[i].key /\ frames'[i].data = frames[i].data /\ i \in DOMAIN frames
          /\ (frames'[i].old = NoTable => frames'[i].at = 0)
      <4>1. CASE i = n
        BY <1>4, <1>2, <1>6, <1>7, <4>1 DEF TopChanged
      <4>2. CASE i # n
        BY <1>1, <1>8, <4>2 DEF Nested
      <4> QED
        BY <4>1, <4>2
    <3> QED
      BY <1>1, <3>2, <3>3 DEF Nested
  <2> QED
    BY <1>7, <2>1 DEF Nested, TopChanged
<1>13. ASSUME usage # "both"
       PROVE  Apart'
  <2>1. ToMove(f) = {} /\ Once(f.old)
    BY <1>6, NoTableFacts DEF ToMove, Unmoved
  <2>2. \A i \in 1 .. n : \/ ToMove(frames'[i]) = {} /\ Once(frames'[i].old)
                          \/ i \in DOMAIN frames /\ frames'[i] = frames[i]
    BY <1>7, <1>8, <2>1 DEF TopChanged
  <2>3. frames'[1].key = frames[1].key
    <3>1. 1 = n \/ 1 \in 1 .. n - 1
      BY <1>4
    <3> QED
      BY <1>2, <1>6, <1>7, <3>1 DEF TopChanged
  <2>4. \A i \in 1 .. n : Once(frames'[i].old) /\ ToMove(frames'[i]) \cap KeysOf(data) = {}
    BY <1>1, <1>13, <2>2 DEF Apart
  <2>5. \A i, j \in 1 .. n : i # j => ToMove(frames'[i]) \cap ToMove(frames'[j]) = {}
    BY <1>1, <1>13, <2>2 DEF Apart
  <2>6. usage = "remove" =>
          \A i \in 1 .. n : frames'[1].key \notin KeysOf(data) \cup ToMove(frames'[i])
    BY <1>1, <1>4, <1>13, <2>2, <2>3 DEF Apart
  <2> QED
    BY <1>1, <1>7, <1>9, <1>13, <2>4, <2>5, <2>6 DEF Apart, TopChanged
<1> QED
  BY <1>1, <1>9, <1>10, <1>11, <1>12, <1>13 DEF IndInv

LEMMA StutterStep ==
    ASSUME IndInv, UNCHANGED vars
    PROVE  IndInv'
<1>1. data' = data /\ size' = size /\ frames' = frames /\ usage' = usage
  BY DEF vars
<1>2. table_size' = table_size /\ InUse(data)' = InUse(data)
  BY <1>1 DEF table_size, InUse
<1>5. TypeOK'
  BY <1>1 DEF IndInv, TypeOK, IsTable
<1>6. Typed'
  BY <1>1, <1>2 DEF IndInv, Typed
<1>7. Nested'
  BY <1>1 DEF IndInv, Nested, InUse
<1>8. HalfFree'
  BY <1>1, <1>2 DEF IndInv, HalfFree
<1>3. KeysOf(data)' = KeysOf(data) /\ \A k, i : Slot(k, i)' = Slot(k, i)
  BY <1>1 DEF KeysOf, InUse, Slot, table_size
<1>4. usage # "both" => Apart' /\ Placed' /\ (size > 0 => InUse(data) # {})'
  BY <1>1, <1>3 DEF IndInv, Apart, Placed, Once, InUse, Chain
<1> QED
  BY <1>1, <1>4, <1>5, <1>6, <1>7, <1>8 DEF IndInv

LEMMA StepInvariant == IndInv /\ [Next]_vars => IndInv'
<1> SUFFICES ASSUME IndInv, [Next]_vars PROVE IndInv'
  OBVIOUS
<1>1. CASE Store
  BY <1>1, StoreStep
<1>2. CASE Double
  BY <1>2, DoubleStep
<1>3. CASE OutOfMemory
  BY <1>3, QuietStep DEF OutOfMemory
<1>4. CASE Reinsert
  BY <1>4, ReinsertStep
<1>5. CASE Rehashed
  BY <1>5, RehashedStep
<1>6. ASSUME NEW k \in Keys, NEW v \in Values, Put(k, v) PROVE IndInv'
  BY <1>6, PutStarts
<1>7. ASSUME NEW k \in Keys, hashmap_get(k) PROVE IndInv'
  BY <1>7, QuietStep DEF hashmap_get, Idle
<1>8. ASSUME NEW k \in Keys, hashmap_remove(k) PROVE IndInv'
  BY <1>8, RemoveStep
<1>9. CASE hashmap_iterate
  BY <1>9, QuietStep DEF hashmap_iterate, Idle
<1>10. CASE UNCHANGED vars
  BY <1>10, StutterStep
<1> QED
  BY <1>1, <1>2, <1>3, <1>4, <1>5, <1>6, <1>7, <1>8, <1>9, <1>10 DEF Next, PutStep

(* A search ends at the element. *)
LEMMA FoundThere ==
    ASSUME IndInv, usage # "both", NEW s \in InUse(data)
    PROVE  Found(data[s].key) # {} /\ FirstFound(data[s].key) = s
<1> DEFINE k == data[s].key
           m == Min(Found(k))
<1>1. TableExact /\ Placed /\ Once(data)
  BY TableFacts DEF IndInv, Apart
<1>2. PICK i \in Chain : s = Slot(k, i)
  BY <1>1 DEF Placed
<1>3. i \in Found(k) /\ Found(k) \subseteq Chain /\ Chain \subseteq Nat
  BY <1>2, SizeAssumption DEF Found, Chain
<1>4. m \in Found(k)
  BY <1>3, MinFacts
<1>5. k \in Keys
  BY <1>1 DEF TableExact, InUse
<1> HIDE DEF m
<1>6. Slot(k, m) \in DOMAIN data /\ data[Slot(k, m)].key = k
  BY <1>1, <1>3, <1>4, <1>5, SlotFacts DEF Found
<1>7. Slot(k, m) \in InUse(data)
  BY <1>1, <1>5, <1>6, NULLAssumption DEF TableExact, InUse
<1>8. Slot(k, m) = s
  BY <1>1, <1>6, <1>7 DEF Once
<1> QED
  BY <1>3, <1>8 DEF FirstFound, m

------------------------------------------------------------------------------
(* The refinement. *)

Waiting(frame) == {frame.old[s] : s \in Unmoved(frame)}

(* Held, and the map of what is held. *)
HeldOf(tab, W) == {tab[s] : s \in InUse(tab)} \cup W
Waits == UNION {Waiting(frames[i]) : i \in DOMAIN frames}

StoreOf(held) ==
    [k \in Keys |-> IF \E e \in held : e.key = k
                    THEN (CHOOSE e \in held : e.key = k).data ELSE NULL]

LEMMA HeldFacts == Held = HeldOf(data, Waits) /\ mapStore = StoreOf(Held)
BY DEF Held, HeldOf, Waits, Waiting, mapStore, StoreOf

LEMMA HeldFactsNext == Held' = HeldOf(data', Waits') /\ mapStore' = StoreOf(Held')
<1>1. (Held = HeldOf(data, Waits))' /\ (mapStore = StoreOf(Held))'
  BY HeldFacts, PTL
<1> QED
  BY <1>1 DEF HeldOf, StoreOf, InUse

(* What is held is elements, one for each key. *)
Distinct(held) ==
    /\ \A e \in held : e \in [key : Keys, data : Values]
    /\ \A e, f \in held : e.key = f.key => e = f

LEMMA InTable ==
    ASSUME NEW tab, IsTable(tab)
    PROVE  \A s \in InUse(tab) : tab[s] \in [key : Keys, data : Values] /\ s \in Nat
<1> SUFFICES ASSUME NEW s \in InUse(tab)
             PROVE  tab[s] \in [key : Keys, data : Values] /\ s \in Nat
  OBVIOUS
<1>1. tab[s] \in Elements /\ tab[s] # Free /\ s \in Nat
  BY DEF IsTable, InUse
<1> QED
  BY <1>1, ElementFacts

LEMMA HeldDistinct ==
    ASSUME IndInv, usage # "both"
    PROVE  Distinct(Held)
<1>1. Apart /\ IsTable(data) /\ \A i \in DOMAIN frames : IsTable(frames[i].old)
  BY DEF IndInv, TypeOK
<1>2. \A i \in DOMAIN frames : Unmoved(frames[i]) \subseteq InUse(frames[i].old)
  BY DEF Unmoved
<1>3. ASSUME NEW e \in Held PROVE e \in [key : Keys, data : Values]
  <2>1. CASE \E s \in InUse(data) : e = data[s]
    BY <1>1, <2>1, InTable
  <2>2. CASE \E i \in DOMAIN frames : \E s \in Unmoved(frames[i]) : e = frames[i].old[s]
    BY <1>1, <1>2, <2>2, InTable
  <2> QED
    BY <2>1, <2>2 DEF Held
<1>4. ASSUME NEW e \in Held, NEW f \in Held, e.key = f.key PROVE e = f
  <2>1. ASSUME NEW s \in InUse(data), e = data[s] PROVE e = f
    <3>1. ASSUME NEW r \in InUse(data), f = data[r] PROVE e = f
      BY <1>1, <1>4, <2>1, <3>1 DEF Apart, Once
    <3>2. ASSUME NEW i \in DOMAIN frames, NEW r \in Unmoved(frames[i]), f = frames[i].old[r] PROVE FALSE
      <4>1. f.key \in ToMove(frames[i]) /\ f.key \in KeysOf(data)
        BY <1>4, <2>1, <3>2 DEF ToMove, KeysOf
      <4> QED
        BY <1>1, <4>1 DEF Apart
    <3> QED
      BY <3>1, <3>2 DEF Held
  <2>2. ASSUME NEW i \in DOMAIN frames, NEW s \in Unmoved(frames[i]), e = frames[i].old[s] PROVE e = f
    <3>0. e.key \in ToMove(frames[i])
      BY <2>2 DEF ToMove
    <3>1. ASSUME NEW r \in InUse(data), f = data[r] PROVE FALSE
      <4>1. f.key \in KeysOf(data)
        BY <3>1 DEF KeysOf
      <4> QED
        BY <1>1, <1>4, <3>0, <4>1 DEF Apart
    <3>2. ASSUME NEW j \in DOMAIN frames, NEW r \in Unmoved(frames[j]), f = frames[j].old[r] PROVE e = f
      <4>1. f.key \in ToMove(frames[j])
        BY <3>2 DEF ToMove
      <4>2. i = j
        BY <1>1, <1>4, <3>0, <4>1 DEF Apart
      <4>3. Once(frames[i].old) /\ s \in InUse(frames[i].old) /\ r \in InUse(frames[i].old)
        BY <1>1, <1>2, <2>2, <3>2, <4>2 DEF Apart
      <4> QED
        BY <1>4, <2>2, <3>2, <4>2, <4>3 DEF Once
    <3> QED
      BY <3>1, <3>2 DEF Held
  <2> QED
    BY <2>1, <2>2 DEF Held
<1> QED
  BY <1>3, <1>4 DEF Distinct

LEMMA HeldDistinctNext == (IndInv /\ usage # "both")' => Distinct(Held')
<1>1. IndInv /\ usage # "both" => Distinct(Held)
  BY HeldDistinct
<1>2. (IndInv /\ usage # "both" => Distinct(Held))'
  BY <1>1, PTL
<1> QED
  BY <1>2 DEF Distinct

(* The map of what is held. *)
LEMMA StoreOfFacts ==
    ASSUME NEW held, Distinct(held)
    PROVE  /\ DOMAIN StoreOf(held) = Keys /\ StoreOf(held) = [k \in Keys |-> StoreOf(held)[k]]
           /\ \A e \in held : e.key \in Keys /\ StoreOf(held)[e.key] = e.data /\ e.data # NULL
           /\ \A k \in Keys : (\A e \in held : e.key # k) => StoreOf(held)[k] = NULL
<1>1. DOMAIN StoreOf(held) = Keys /\ StoreOf(held) = [k \in Keys |-> StoreOf(held)[k]]
  BY DEF StoreOf
<1>2. ASSUME NEW e \in held
      PROVE  e.key \in Keys /\ StoreOf(held)[e.key] = e.data /\ e.data # NULL
  <2>1. e.key \in Keys /\ e.data # NULL
    BY NULLAssumption DEF Distinct
  <2>2. (CHOOSE x \in held : x.key = e.key) = e
    BY DEF Distinct
  <2> QED
    BY <2>1, <2>2 DEF StoreOf
<1>3. \A k \in Keys : (\A e \in held : e.key # k) => StoreOf(held)[k] = NULL
  BY DEF StoreOf
<1> QED
  BY <1>1, <1>2, <1>3

LEMMA HeldMember ==
    \A e : e \in Held <=> \/ \E s \in InUse(data) : e = data[s]
                          \/ \E i \in DOMAIN frames : e \in Waiting(frames[i])
BY DEF Held, Waiting

LEMMA HeldMemberNext ==
    \A e : e \in Held' <=> \/ \E s \in InUse(data') : e = data'[s]
                           \/ \E i \in DOMAIN frames' : e \in Waiting(frames'[i])
<1>1. (\A e : e \in Held <=> \/ \E s \in InUse(data) : e = data[s]
                             \/ \E i \in DOMAIN frames : e \in Waiting(frames[i]))'
  BY HeldMember, PTL
<1> QED
  BY <1>1 DEF InUse, Waiting, Unmoved

(* The put that was called. *)
MapOp == IF Idle THEN <<>> ELSE <<[key |-> frames[1].key, data |-> frames[1].data]>>

LEMMA OpKept ==
    ASSUME frames # <<>>, Len(frames') > 0,
           frames'[1].key = frames[1].key, frames'[1].data = frames[1].data
    PROVE  MapOp' = MapOp
<1>1. frames' # <<>>
  <2>1. Len(<<>>) = 0 /\ ~(0 > 0)
    OBVIOUS
  <2> QED
    BY <2>1
<1> QED
  BY <1>1 DEF MapOp, Idle

Stutter == mapStore' = mapStore /\ MapOp' = MapOp /\ ret' = ret

LEMMA SameHeld ==
    ASSUME Held' = Held
    PROVE  mapStore' = mapStore
<1>1. mapStore = StoreOf(Held) /\ mapStore' = StoreOf(Held')
  BY HeldFacts, HeldFactsNext
<1> QED
  BY <1>1

LEMMA NothingWaits ==
    ASSUME NEW f, f.old = NoTable
    PROVE  Waiting(f) = {}
BY NoTableFacts DEF Waiting, Unmoved

(* A doubling holds the elements of the old table. *)
LEMMA DoubleStutters ==
    ASSUME IndInv, Double
    PROVE  Stutter
<1>0. PICK n : n = Len(frames)
  OBVIOUS
<1>1. PICK b : b = frames[n]
  OBVIOUS
<1>2. PICK f : f = [key |-> b.key, data |-> b.data, old |-> data, at |-> 0]
  OBVIOUS
<1>3. n \in Nat /\ n > 0 /\ DOMAIN frames = 1 .. n
  BY <1>0, <1>1, <1>2, DoubleFrames
<1>4. b.old = NoTable /\ f.key = b.key /\ f.data = b.data /\ f.old = data /\ f.at = 0
  BY <1>0, <1>1, <1>2, DoubleFrames
<1>5. TopChanged(n, f)
  BY <1>0, <1>1, <1>2, DoubleFrames
<1>6. InUse(data') = {}
  <2>1. NewSize \in Nat
    BY TableFacts, SizeAssumption DEF IndInv, NewSize, TableExact
  <2> QED
    BY <2>1, EmptyFacts DEF Double
<1>7. Waiting(b) = {} /\ \A e : e \in Waiting(f) <=> \E s \in InUse(data) : e = data[s]
  <2>1. \A s \in InUse(data) : s >= 0
    BY TableFacts DEF IndInv, TableExact
  <2>2. Unmoved(f) = InUse(data)
    BY <1>4, <2>1 DEF Unmoved
  <2> QED
    BY <1>4, <2>2, NothingWaits DEF Waiting
<1>8. \A i \in 1 .. n : i = n \/ (i # n /\ i \in 1 .. n - 1 /\ frames'[i] = frames[i])
  BY <1>3, <1>5 DEF TopChanged
<1>9. DOMAIN frames' = 1 .. n /\ frames'[n] = f /\ Len(frames') = n /\ n \in 1 .. n
  BY <1>3, <1>5 DEF TopChanged
<1>10. Held' = Held
  <2>1. ASSUME NEW e PROVE e \in Held' <=> e \in Held
    <3>1. e \in Held' <=> \E i \in 1 .. n : e \in Waiting(frames'[i])
      BY <1>6, <1>9, HeldMemberNext
    <3>2. e \in Held <=> e \in Waiting(f) \/ \E i \in 1 .. n : e \in Waiting(frames[i])
      BY <1>3, <1>7, HeldMember
    <3>3. \A i \in 1 .. n : i # n => Waiting(frames'[i]) = Waiting(frames[i])
      BY <1>8
    <3>4. Waiting(frames'[n]) = Waiting(f) /\ Waiting(frames[n]) = {}
      BY <1>1, <1>7, <1>9
    <3> QED
      BY <1>9, <3>1, <3>2, <3>3, <3>4
  <2> QED
    BY <2>1
<1>11. frames'[1].key = frames[1].key /\ frames'[1].data = frames[1].data
  BY <1>1, <1>3, <1>4, <1>8, <1>9
<1> QED
  BY <1>3, <1>9, <1>10, <1>11, SameHeld, OpKept DEF Stutter, Double, Idle

(* The element that is put again is held until it is stored. *)
LEMMA ReinsertStutters ==
    ASSUME IndInv, Reinsert
    PROVE  Stutter
<1>0. PICK n : n = Len(frames)
  OBVIOUS
<1>1. PICK b : b = frames[n]
  OBVIOUS
<1>2. PICK s : s = Min(Unmoved(b))
  OBVIOUS
<1>3. PICK c : c = FrameAt(b, s)
  OBVIOUS
<1>4. PICK f : f = Frame(b.old[s].key, b.old[s].data)
  OBVIOUS
<1>5. /\ n \in Nat /\ n > 0 /\ DOMAIN frames = 1 .. n
      /\ ReinsertAt(b, s) /\ ReinsertFrame(c, f, b, s) /\ ReinsertTop(n, c, f)
  BY <1>0, <1>1, <1>2, <1>3, <1>4, ReinsertFrames
<1>6. Waiting(c) = Waiting(b) /\ Waiting(f) = {} /\ c.key = b.key /\ c.data = b.data
  <2>1. c.old = b.old /\ c.at = s /\ f.old = NoTable /\ c.key = b.key /\ c.data = b.data
    BY <1>5 DEF ReinsertFrame
  <2>2. s \in Nat /\ b.at \in Nat /\ s >= b.at /\ InUse(b.old) \subseteq Nat /\ \A x \in Unmoved(b) : s <= x
    BY <1>5 DEF ReinsertAt
  <2>3. \A x \in InUse(b.old) : x >= s <=> x >= b.at
    <3>1. PICK a \in Nat : a = b.at
      BY <2>2
    <3>2. \A x \in InUse(b.old) : x >= a => s <= x
      BY <2>2, <3>1 DEF Unmoved
    <3> QED
      BY <2>2, <3>1, <3>2
  <2>4. Unmoved(c) = Unmoved(b)
    BY <2>1, <2>3 DEF Unmoved
  <2> QED
    BY <2>1, <2>4, NothingWaits DEF Waiting
<1>7. DOMAIN frames' = 1 .. n + 1 /\ Len(frames') = n + 1 /\ frames'[n] = c /\ frames'[n + 1] = f
  BY <1>5 DEF ReinsertTop
<1>8. \A i \in 1 .. n : i = n \/ (i # n /\ frames'[i] = frames[i])
  BY <1>5 DEF ReinsertTop
<1>9. data' = data /\ ret' = ret /\ frames # <<>>
  BY DEF Reinsert, Idle
<1>10. Held' = Held
  <2>1. \A i \in 1 .. n : Waiting(frames'[i]) = Waiting(frames[i])
    BY <1>1, <1>6, <1>7, <1>8
  <2>2. \A i \in 1 .. n + 1 : i \in 1 .. n \/ i = n + 1
    BY <1>5
  <2>3. \A i \in 1 .. n : i \in 1 .. n + 1
    BY <1>5
  <2>4. ASSUME NEW e PROVE e \in Held' <=> e \in Held
    <3>1. (\E i \in 1 .. n + 1 : e \in Waiting(frames'[i])) <=> \E i \in 1 .. n : e \in Waiting(frames[i])
      BY <1>6, <1>7, <2>1, <2>2, <2>3
    <3>2. e \in Held' <=> \/ \E r \in InUse(data) : e = data[r]
                          \/ \E i \in 1 .. n + 1 : e \in Waiting(frames'[i])
      BY <1>7, <1>9, HeldMemberNext
    <3>3. e \in Held <=> \/ \E r \in InUse(data) : e = data[r]
                         \/ \E i \in 1 .. n : e \in Waiting(frames[i])
      BY <1>5, HeldMember
    <3> QED
      BY <3>1, <3>2, <3>3
  <2> QED
    BY <2>4
<1>11. frames'[1].key = frames[1].key /\ frames'[1].data = frames[1].data
  BY <1>1, <1>5, <1>6, <1>7, <1>8
<1> QED
  BY <1>5, <1>7, <1>9, <1>10, <1>11, SameHeld, OpKept DEF Stutter

(* After a doubling nothing of the old table is held. *)
LEMMA RehashedStutters ==
    ASSUME IndInv, Rehashed
    PROVE  Stutter
<1>0. PICK n : n = Len(frames)
  OBVIOUS
<1>1. PICK b : b = frames[n]
  OBVIOUS
<1>2. PICK f : f = Frame(b.key, b.data)
  OBVIOUS
<1>3. /\ n \in Nat /\ n > 0 /\ DOMAIN frames = 1 .. n
      /\ f.key = b.key /\ f.data = b.data /\ f.old = NoTable /\ TopChanged(n, f)
  BY <1>0, <1>1, <1>2, RehashedFrames
<1>4. Waiting(b) = {} /\ Waiting(f) = {}
  <2>1. Unmoved(b) = {}
    BY <1>0, <1>1 DEF Rehashed, Top
  <2> QED
    BY <1>3, <2>1, NothingWaits DEF Waiting
<1>5. \A i \in 1 .. n : i = n \/ (i # n /\ frames'[i] = frames[i])
  BY <1>3 DEF TopChanged
<1>6. DOMAIN frames' = 1 .. n /\ frames'[n] = f /\ Len(frames') = n /\ n \in 1 .. n
  BY <1>3 DEF TopChanged
<1>7. data' = data /\ ret' = ret /\ frames # <<>>
  BY DEF Rehashed, Idle
<1>8. Held' = Held
  <2>1. \A i \in 1 .. n : Waiting(frames'[i]) = Waiting(frames[i])
    BY <1>1, <1>4, <1>5, <1>6
  <2>2. ASSUME NEW e PROVE e \in Held' <=> e \in Held
    BY <1>3, <1>6, <1>7, <2>1, HeldMember, HeldMemberNext
  <2> QED
    BY <2>2
<1>9. frames'[1].key = frames[1].key /\ frames'[1].data = frames[1].data
  BY <1>1, <1>3, <1>5, <1>6
<1> QED
  BY <1>3, <1>6, <1>7, <1>8, <1>9, SameHeld, OpKept DEF Stutter

(* An element that is moved is held before and after. *)
LEMMA MovedStutters ==
    ASSUME IndInv, Store, usage # "both", Len(frames) > 1
    PROVE  Stutter
<1> DEFINE k == Top.key
<1>0. PICK n : n = Len(frames)
  OBVIOUS
<1>1. TableExact /\ FramesExact
  BY TableFacts, FramesFacts DEF IndInv
<1>2. PICK h : StoreSlot(h)
  BY StoreFacts
<1>3. StoreTable(h) /\ n \in Nat /\ n > 1 /\ n > 0 /\ DOMAIN frames = 1 .. n /\ h \in DOMAIN data
  <2>1. StoreTable(h)
    BY <1>1, <1>2, StoreTableFacts
  <2>2. h \in DOMAIN data
    BY <1>2 DEF StoreSlot
  <2> QED
    BY <1>0, <1>1, <2>1, <2>2 DEF FramesExact
<1>4. StoreFrames /\ StoreEach(n)
  BY <1>0, <1>1, <1>3, StoreFramesFacts, StoreEachFacts
<1>5. /\ k \notin KeysOf(data)
      /\ frames[n - 1].at \in InUse(frames[n - 1].old)
      /\ frames[n - 1].old[frames[n - 1].at] = [key |-> k, data |-> Top.data]
  BY <1>0, <1>3, MovedKey
<1>6. PICK e : e = [key |-> k, data |-> Top.data]
  OBVIOUS
<1>7. Waiting(frames[n]) = {}
  <2>1. frames[n].old = NoTable
    BY <1>0 DEF Store, Doubling, Top
  <2> QED
    BY <2>1, NothingWaits
<1>8. \A x : (\E s \in InUse(data') : x = data'[s]) <=> x = e \/ \E s \in InUse(data) : x = data[s]
  <2>1. h \notin InUse(data)
    BY <1>1, <1>2, <1>5, StoreFree DEF k
  <2>2. InUse(data') = InUse(data) \cup {h} /\ data'[h] = e /\ \A s \in InUse(data) : data'[s] = data[s]
    BY <1>3, <1>6, <2>1 DEF StoreTable, InUse, k
  <2> QED
    BY <2>2
<1> HIDE DEF k
<1>9. PICK b : b = frames[n - 1]
  OBVIOUS
<1>10. PICK c : c = frames'[n - 1]
  OBVIOUS
<1>11. c.old = b.old /\ c.at = b.at + 1 /\ b.at \in Nat /\ c.key = b.key /\ c.data = b.data
       /\ b.at \in InUse(b.old) /\ b.old[b.at] = e /\ InUse(b.old) \subseteq Nat
  <2>1. n - 1 \in DOMAIN frames
    BY <1>3
  <2>2. b.at \in Nat /\ IsTable(b.old)
    BY <1>1, <1>9, <2>1 DEF FramesExact
  <2>3. InUse(b.old) \subseteq Nat
    BY <2>2, InTable
  <2>4. c = [key |-> b.key, data |-> b.data, old |-> b.old, at |-> b.at + 1]
    BY <1>0, <1>3, <1>4, <1>9, <1>10 DEF StoreFrames
  <2> QED
    BY <1>5, <1>6, <1>9, <2>2, <2>3, <2>4
<1>12. \A x : x \in Waiting(b) <=> x = e \/ x \in Waiting(c)
  <2>1. PICK a \in Nat : a = b.at
    BY <1>11
  <2>2. \A s \in InUse(b.old) : s >= a <=> s = a \/ s >= a + 1
    BY <1>11, <2>1
  <2>3. \A s : s \in Unmoved(b) <=> s = a \/ s \in Unmoved(c)
    BY <1>11, <2>1, <2>2 DEF Unmoved
  <2> QED
    BY <1>11, <2>1, <2>3 DEF Waiting
<1>13. \A i \in 1 .. n : i = n \/ i = n - 1 \/ (i \in 1 .. n - 2 /\ i # n - 1 /\ i # n)
  BY <1>3
<1>14. DOMAIN frames' = 1 .. n - 1 /\ Len(frames') = n - 1 /\ \A i \in 1 .. n - 2 : frames'[i] = frames[i]
  BY <1>3, <1>4 DEF StoreEach
<1>15. n - 1 \in 1 .. n /\ n - 1 \in 1 .. n - 1 /\ \A i \in 1 .. n - 2 : i \in 1 .. n /\ i \in 1 .. n - 1
  BY <1>3
<1>16. Held' = Held
  <2>1. ASSUME NEW x PROVE x \in Held' <=> x \in Held
    <3>1. (\E i \in 1 .. n : x \in Waiting(frames[i]))
            <=> x \in Waiting(b) \/ \E i \in 1 .. n - 2 : x \in Waiting(frames[i])
      BY <1>7, <1>9, <1>13, <1>15
    <3>2. (\E i \in 1 .. n - 1 : x \in Waiting(frames'[i]))
            <=> x \in Waiting(c) \/ \E i \in 1 .. n - 2 : x \in Waiting(frames[i])
      <4>1. \A i \in 1 .. n - 1 : i = n - 1 \/ i \in 1 .. n - 2
        BY <1>3
      <4> QED
        BY <1>10, <1>14, <1>15, <4>1
    <3>3. x \in Held <=> (\E s \in InUse(data) : x = data[s]) \/ \E i \in 1 .. n : x \in Waiting(frames[i])
      BY <1>3, HeldMember
    <3>4. x \in Held' <=> \/ \E s \in InUse(data') : x = data'[s]
                          \/ \E i \in 1 .. n - 1 : x \in Waiting(frames'[i])
      BY <1>14, HeldMemberNext
    <3> QED
      BY <1>8, <1>12, <3>1, <3>2, <3>3, <3>4
  <2> QED
    BY <2>1
<1>17. frames'[1].key = frames[1].key /\ frames'[1].data = frames[1].data
  <2>1. n - 1 = 1 \/ 1 \in 1 .. n - 2
    BY <1>3
  <2> QED
    BY <1>9, <1>10, <1>11, <1>14, <2>1
<1>18. ret' = ret /\ frames # <<>> /\ Len(frames') > 0
  <2>1. Below # <<>>
    BY <1>0, <1>1, <1>3, BelowFacts
  <2> QED
    BY <1>3, <1>14, <2>1 DEF Store, Idle
<1> QED
  BY <1>16, <1>17, <1>18, SameHeld, OpKept DEF Stutter

(* The element of the put that was called takes the place of its key's. *)
LEMMA StoreIsDoPut ==
    ASSUME IndInv, IndInv', Store, usage # "both", Len(frames) = 1
    PROVE  Map!DoPut
<1> DEFINE k == Top.key
<1>1. TableExact /\ FramesExact /\ usage' = usage /\ DOMAIN frames = {1} /\ Top = frames[1]
  <2>1. TableExact /\ FramesExact /\ usage' = usage
    BY TableFacts, FramesFacts DEF IndInv, Store
  <2>2. DOMAIN frames = 1 .. 1
    BY <2>1 DEF FramesExact
  <2> QED
    BY <2>1, <2>2 DEF Top
<1>2. PICK h : StoreSlot(h)
  BY StoreFacts
<1>3. StoreTable(h) /\ h \in DOMAIN data /\ data[h].key \in {NULL, k} /\ k \in Keys /\ Top.data \in Values
  BY <1>1, <1>2, StoreTableFacts DEF StoreSlot
<1>4. frames' = <<>> /\ frames # <<>> /\ ret' = [call |-> "put", status |-> "OK"]
  <2>1. Below = <<>>
    BY <1>1, BelowFacts
  <2> QED
    BY <2>1 DEF Store, Idle
<1>5. Waiting(frames[1]) = {}
  BY <1>1, NothingWaits DEF Store, Doubling
<1>6. PICK e : e = [key |-> k, data |-> Top.data]
  OBVIOUS
<1>7. e \in Held' /\ e.key = k /\ e.data = Top.data
  <2>1. h \in InUse(data') /\ data'[h] = e
    BY <1>3, <1>6 DEF StoreTable, k
  <2> QED
    BY <1>6, <2>1, HeldMemberNext
<1>8. \A x : x.key # k => (x \in Held' <=> x \in Held)
  <2>1. \A x : x \in Held <=> \E s \in InUse(data) : x = data[s]
    BY <1>1, <1>5, HeldMember
  <2>2. DOMAIN frames' = {}
    BY <1>4
  <2>3. \A x : x \in Held' <=> \E s \in InUse(data') : x = data'[s]
    BY <2>2, HeldMemberNext
  <2>4. \A s \in InUse(data) : s = h => data[s].key = k
    BY <1>1, <1>3 DEF TableExact, InUse
  <2>5. /\ InUse(data') = InUse(data) \cup {h} /\ data'[h].key = k
        /\ \A s \in InUse(data) : s # h => data'[s] = data[s]
    BY <1>3 DEF StoreTable, InUse, k
  <2> QED
    BY <2>1, <2>3, <2>4, <2>5
<1>9. mapStore' = [mapStore EXCEPT ![k] = Top.data]
  <2>1. Distinct(Held) /\ Distinct(Held')
    BY <1>1, HeldDistinct, HeldDistinctNext
  <2>2. mapStore = StoreOf(Held) /\ mapStore' = StoreOf(Held')
    BY HeldFacts, HeldFactsNext
  <2>3. PICK M : M = StoreOf(Held)
    OBVIOUS
  <2>4. PICK N : N = StoreOf(Held')
    OBVIOUS
  <2>5. /\ DOMAIN M = Keys /\ M = [l \in Keys |-> M[l]]
        /\ \A x \in Held : x.key \in Keys /\ M[x.key] = x.data
        /\ \A l \in Keys : (\A x \in Held : x.key # l) => M[l] = NULL
    BY <2>1, <2>3, StoreOfFacts
  <2>6. /\ DOMAIN N = Keys /\ N = [l \in Keys |-> N[l]]
        /\ \A x \in Held' : x.key \in Keys /\ N[x.key] = x.data
        /\ \A l \in Keys : (\A x \in Held' : x.key # l) => N[l] = NULL
    BY <2>1, <2>4, StoreOfFacts
  <2>7. N[k] = Top.data
    BY <1>7, <2>6
  <2>8. ASSUME NEW l \in Keys, l # k PROVE N[l] = M[l]
    <3>1. CASE \E x \in Held : x.key = l
      <4>1. PICK x \in Held : x.key = l
        BY <3>1
      <4>2. x \in Held'
        BY <1>8, <2>8, <4>1
      <4> QED
        BY <2>5, <2>6, <4>1, <4>2
    <3>2. CASE ~ \E x \in Held : x.key = l
      <4>1. ~ \E x \in Held' : x.key = l
        BY <1>8, <2>8, <3>2
      <4> QED
        BY <2>5, <2>6, <3>2, <4>1
    <3> QED
      BY <3>1, <3>2
  <2>9. N = [M EXCEPT ![k] = Top.data]
    <3> HIDE DEF k
    <3> QED
      BY <1>3, <2>5, <2>6, <2>7, <2>8
  <2> QED
    BY <2>2, <2>3, <2>4, <2>9
<1>10. MapOp = <<[key |-> k, data |-> Top.data]>> /\ MapOp' = <<>>
  BY <1>1, <1>4 DEF MapOp, Idle
<1>11. MapOp # <<>> /\ MapOp[1].key = k /\ MapOp[1].data = Top.data
  BY <1>10
<1> QED
  BY <1>4, <1>9, <1>10, <1>11 DEF Map!DoPut, MapOp

(* A put that has no memory loses what its doublings had not moved. *)
LEMMA OutOfMemoryIsFailPut ==
    ASSUME IndInv, IndInv', OutOfMemory, usage # "both"
    PROVE  Map!FailPut
<1>1. data' = data /\ usage' = usage /\ frames # <<>> /\ frames' = <<>> /\ DOMAIN frames' = {}
  BY DEF OutOfMemory, Idle
<1>2. \A x : x \in Held' => x \in Held
  BY <1>1, HeldMember, HeldMemberNext
<1>3. Distinct(Held) /\ Distinct(Held')
  BY <1>1, HeldDistinct, HeldDistinctNext
<1>4. PICK M : M = StoreOf(Held)
  OBVIOUS
<1>5. PICK N : N = StoreOf(Held')
  OBVIOUS
<1>6. mapStore = M /\ mapStore' = N
  BY <1>4, <1>5, HeldFacts, HeldFactsNext
<1>7. /\ DOMAIN M = Keys
      /\ \A x \in Held : x.key \in Keys /\ M[x.key] = x.data /\ x.data # NULL
  BY <1>3, <1>4, StoreOfFacts
<1>8. /\ DOMAIN N = Keys /\ N = [l \in Keys |-> N[l]]
      /\ \A x \in Held' : x.key \in Keys /\ N[x.key] = x.data
      /\ \A l \in Keys : (\A x \in Held' : x.key # l) => N[l] = NULL
  BY <1>3, <1>5, StoreOfFacts
<1> DEFINE kept == {x.key : x \in Held'}
<1>9. kept \in SUBSET {k \in Keys : M[k] # NULL}
  BY <1>2, <1>7
<1>10. \A k \in Keys : N[k] = IF k \in kept THEN M[k] ELSE NULL
  BY <1>2, <1>7, <1>8
<1>11. N = [k \in Keys |-> IF k \in kept THEN M[k] ELSE NULL]
  <2> HIDE DEF kept
  <2> QED
    BY <1>8, <1>10
<1> HIDE DEF kept
<1>12. \E K \in SUBSET Map!Stored : mapStore' = [k \in Keys |-> IF k \in K THEN mapStore[k] ELSE NULL]
  BY <1>6, <1>9, <1>11 DEF Map!Stored
<1>13. MapOp # <<>> /\ MapOp' = <<>>
  BY <1>1 DEF MapOp, Idle
<1> QED
  BY <1>12, <1>13 DEF Map!FailPut, MapOp, OutOfMemory

LEMMA PutIsCallPut ==
    ASSUME NEW k \in Keys, NEW v \in Values, Put(k, v)
    PROVE  Map!CallPut(k, v)
<1>1. frames = <<>> /\ data' = data /\ ret' = Map!NoRet /\ DOMAIN frames = {}
  BY DEF Put, Idle, NoRet, Map!NoRet
<1>2. PICK f : f = Frame(k, v)
  OBVIOUS
<1>3. f.key = k /\ f.data = v /\ f.old = NoTable /\ frames' = <<f>>
  BY <1>2 DEF Frame, Put
<1>4. DOMAIN frames' = {1} /\ frames'[1] = f /\ frames' # <<>>
  BY <1>3
<1>5. Held' = Held
  <2>1. Waiting(f) = {}
    BY <1>3, NothingWaits
  <2>2. ASSUME NEW x PROVE x \in Held' <=> x \in Held
    BY <1>1, <1>4, <2>1, HeldMember, HeldMemberNext
  <2> QED
    BY <2>2
<1>6. mapStore' = mapStore
  BY <1>5, SameHeld
<1>7. MapOp = <<>> /\ MapOp' = <<[key |-> k, data |-> v]>>
  BY <1>1, <1>3, <1>4 DEF MapOp, Idle
<1> QED
  BY <1>1, <1>6, <1>7 DEF Map!CallPut, MapOp

(* Between the calls, a key is found if and only if it is in the map. *)
LEMMA FoundIsStored ==
    ASSUME IndInv, usage # "both", Idle, NEW k \in Keys
    PROVE  /\ mapStore[k] = NULL <=> Found(k) = {}
           /\ Found(k) # {} => /\ FirstFound(k) \in InUse(data) /\ data[FirstFound(k)].key = k
                               /\ mapStore[k] = data[FirstFound(k)].data
<1>1. TableExact /\ Distinct(Held) /\ mapStore = StoreOf(Held)
  BY TableFacts, HeldDistinct, HeldFacts DEF IndInv
<1>2. \A x : x \in Held <=> \E s \in InUse(data) : x = data[s]
  <2>1. DOMAIN frames = {}
    BY DEF Idle
  <2> QED
    BY <2>1, HeldMember
<1>3. PICK M : M = StoreOf(Held)
  OBVIOUS
<1>4. /\ \A x \in Held : M[x.key] = x.data /\ x.data # NULL
      /\ (\A x \in Held : x.key # k) => M[k] = NULL
  BY <1>1, <1>3, StoreOfFacts
<1>5. CASE \E s \in InUse(data) : data[s].key = k
  <2>1. PICK s \in InUse(data) : data[s].key = k
    BY <1>5
  <2>2. Found(k) # {} /\ FirstFound(k) = s
    BY <2>1, FoundThere
  <2>3. data[s] \in Held
    BY <1>2, <2>1
  <2>4. M[k] = data[s].data /\ M[k] # NULL
    BY <1>4, <2>1, <2>3
  <2> QED
    BY <1>1, <1>3, <2>1, <2>2, <2>4
<1>6. CASE ~ \E s \in InUse(data) : data[s].key = k
  <2>1. M[k] = NULL
    BY <1>2, <1>4, <1>6
  <2>2. ASSUME NEW i \in Found(k) PROVE FALSE
    <3>1. i \in Nat /\ data[Slot(k, i)].key = k
      BY SizeAssumption DEF Found, Chain
    <3>2. Slot(k, i) \in DOMAIN data
      BY <1>1, <3>1, SlotFacts
    <3>3. Slot(k, i) \in InUse(data)
      BY <1>1, <3>1, <3>2, NULLAssumption DEF TableExact, InUse
    <3> QED
      BY <1>6, <3>1, <3>3
  <2>3. Found(k) = {}
    BY <2>2
  <2> QED
    BY <1>1, <1>3, <2>1, <2>3
<1> QED
  BY <1>5, <1>6

LEMMA GetIsGet ==
    ASSUME IndInv, usage # "both", NEW k \in Keys, hashmap_get(k)
    PROVE  Map!Get(k)
<1>1. Idle /\ data' = data /\ frames' = frames
  BY DEF hashmap_get
<1>2. Held' = Held
  BY <1>1 DEF Held, InUse, Unmoved
<1>3. mapStore' = mapStore /\ MapOp' = MapOp /\ MapOp = <<>>
  BY <1>1, <1>2, SameHeld DEF MapOp, Idle
<1>4. ret' = [call |-> "get", key |-> k, status |-> Map!Status(k), data |-> mapStore[k]]
  <2>1. CASE Found(k) = {}
    BY <1>1, <2>1, FoundIsStored DEF hashmap_get, Map!Status
  <2>2. CASE Found(k) # {}
    BY <1>1, <2>2, FoundIsStored DEF hashmap_get, Map!Status
  <2> QED
    BY <2>1, <2>2
<1> QED
  BY <1>3, <1>4 DEF Map!Get, MapOp

LEMMA RemoveIsRemove ==
    ASSUME IndInv, IndInv', usage # "both", NEW k \in Keys, hashmap_remove(k)
    PROVE  Map!Remove(k)
<1>1. Idle /\ frames' = frames /\ usage' = usage /\ DOMAIN frames = {}
  BY DEF hashmap_remove, Idle
<1>2. MapOp' = MapOp /\ MapOp = <<>>
  BY <1>1 DEF MapOp, Idle
<1>3. Distinct(Held) /\ Distinct(Held')
  BY <1>1, HeldDistinct, HeldDistinctNext
<1>4. PICK M : M = StoreOf(Held)
  OBVIOUS
<1>5. PICK N : N = StoreOf(Held')
  OBVIOUS
<1>6. mapStore = M /\ mapStore' = N
  BY <1>4, <1>5, HeldFacts, HeldFactsNext
<1>7. /\ DOMAIN M = Keys /\ M = [l \in Keys |-> M[l]]
      /\ \A x \in Held : x.key \in Keys /\ M[x.key] = x.data
      /\ \A l \in Keys : (\A x \in Held : x.key # l) => M[l] = NULL
  BY <1>3, <1>4, StoreOfFacts
<1>8. /\ DOMAIN N = Keys /\ N = [l \in Keys |-> N[l]]
      /\ \A x \in Held' : x.key \in Keys /\ N[x.key] = x.data
      /\ \A l \in Keys : (\A x \in Held' : x.key # l) => N[l] = NULL
  BY <1>3, <1>5, StoreOfFacts
<1>9. CASE Found(k) = {}
  <2>1. data' = data
    BY <1>9 DEF hashmap_remove
  <2>2. Held' = Held
    BY <1>1, <2>1 DEF Held, InUse, Unmoved
  <2>3. M[k] = NULL /\ Map!Status(k) = "MISSING"
    BY <1>1, <1>6, <1>9, FoundIsStored DEF Map!Status
  <2>4. N = [M EXCEPT ![k] = NULL]
    BY <1>4, <1>5, <1>7, <2>2, <2>3
  <2> QED
    BY <1>2, <1>6, <1>9, <2>3, <2>4 DEF Map!Remove, MapOp, hashmap_remove
<1>10. CASE Found(k) # {}
  <2>1. PICK s : s = FirstFound(k)
    OBVIOUS
  <2>2. s \in InUse(data) /\ data[s].key = k /\ mapStore[k] # NULL
    BY <1>1, <1>10, <2>1, FoundIsStored
  <2>3. data' = [data EXCEPT ![s] = Free]
    BY <1>10, <2>1 DEF hashmap_remove
  <2>4. InUse(data') = InUse(data) \ {s} /\ \A r \in InUse(data') : data'[r] = data[r]
    <3>1. DOMAIN data' = DOMAIN data /\ s \in DOMAIN data
      BY <2>2, <2>3 DEF InUse
    <3>2. data'[s] = Free /\ \A r \in DOMAIN data : r # s => data'[r] = data[r]
      BY <2>3, <3>1
    <3> QED
      BY <3>1, <3>2 DEF InUse
  <2>5. \A r \in InUse(data) : data[r].key = k => r = s
    BY <2>2 DEF IndInv, Apart, Once
  <2>6. \A x : x \in Held' <=> x \in Held /\ x.key # k
    <3>1. \A x : x \in Held <=> \E r \in InUse(data) : x = data[r]
      BY <1>1, HeldMember
    <3>2. \A x : x \in Held' <=> \E r \in InUse(data') : x = data'[r]
      BY <1>1, HeldMemberNext
    <3> QED
      BY <2>2, <2>4, <2>5, <3>1, <3>2
  <2>7. \A l \in Keys : N[l] = IF l = k THEN NULL ELSE M[l]
    BY <1>7, <1>8, <2>6
  <2>8. N = [M EXCEPT ![k] = NULL]
    BY <1>7, <1>8, <2>7
  <2> QED
    BY <1>2, <1>6, <1>10, <2>2, <2>8 DEF Map!Remove, Map!Status, MapOp, hashmap_remove
<1> QED
  BY <1>9, <1>10

(* hashmap_iterate visits the slots in use in their order: each has a place. *)
Place(W, s) == Cardinality({r \in W : r <= s})

LEMMA PlaceBounds ==
    ASSUME NEW W, IsFiniteSet(W), W \subseteq Nat, NEW s \in W
    PROVE  Place(W, s) \in 1 .. Cardinality(W)
<1> DEFINE U == {r \in W : r <= s}
<1>1. U \subseteq W /\ s \in U
  OBVIOUS
<1>2. IsFiniteSet(U) /\ Cardinality(U) <= Cardinality(W) /\ Cardinality(U) \in Nat /\ Cardinality(W) \in Nat
  BY <1>1, FS_Subset, FS_CardinalityType
<1>3. Cardinality(U) # 0
  BY <1>1, <1>2, FS_EmptySet
<1> QED
  BY <1>2, <1>3 DEF Place

LEMMA PlacesDiffer ==
    ASSUME NEW W, IsFiniteSet(W), W \subseteq Nat, NEW r \in W, NEW s \in W, r < s
    PROVE  Place(W, r) # Place(W, s)
<1> DEFINE U == {x \in W : x <= r}
           V == {x \in W : x <= s}
<1>1. U \subseteq V /\ V \subseteq W
  <2>1. \A x \in W : x <= r => x <= s
    OBVIOUS
  <2> QED
    BY <2>1
<1>2. s \in V /\ s \notin U
  OBVIOUS
<1>3. IsFiniteSet(V) /\ (Cardinality(V) = Cardinality(U) => V = U)
  BY <1>1, FS_Subset
<1> QED
  BY <1>2, <1>3 DEF Place

LEMMA PlacesTaken ==
    ASSUME NEW W, IsFiniteSet(W), W \subseteq Nat
    PROVE  \A i \in 1 .. Cardinality(W) : \E s \in W : Place(W, s) = i
<1> DEFINE N == Cardinality(W)
           F == [s \in W |-> Place(W, s)]
<1>1. N \in Nat
  BY FS_CardinalityType
<1>2. F \in [W -> 1 .. N]
  BY PlaceBounds
<1>3. ASSUME NEW r \in W, NEW s \in W, F[r] = F[s] PROVE r = s
  <2>1. r \in Nat /\ s \in Nat
    OBVIOUS
  <2>2. ~(r < s) /\ ~(s < r)
    BY <1>3, PlacesDiffer
  <2> QED
    BY <2>1, <2>2
<1>4. F \in Injection(W, 1 .. N)
  <2> HIDE DEF F
  <2> QED
    BY <1>2, <1>3 DEF Injection, IsInjective
<1>5. IsFiniteSet(1 .. N) /\ Cardinality(1 .. N) = N
  BY <1>1, FS_Interval
<1>6. F \in Surjection(W, 1 .. N)
  BY <1>4, <1>5, FS_Injection
<1> QED
  BY <1>6 DEF Surjection

(* The slots in the order of hashmap_iterate. *)
SlotsOf(W) == [i \in 1 .. Cardinality(W) |-> CHOOSE s \in W : Cardinality({r \in W : r <= s}) = i]

LEMMA SlotsOfFacts ==
    ASSUME NEW W, IsFiniteSet(W), W \subseteq Nat
    PROVE  /\ Cardinality(W) \in Nat /\ Len(SlotsOf(W)) = Cardinality(W)
           /\ \A i \in 1 .. Cardinality(W) : SlotsOf(W)[i] \in W
           /\ \A i, j \in 1 .. Cardinality(W) : SlotsOf(W)[i] = SlotsOf(W)[j] => i = j
<1>1. PICK N : N = Cardinality(W)
  OBVIOUS
<1>2. N \in Nat
  BY <1>1, FS_CardinalityType
<1>3. ASSUME NEW i \in 1 .. N
      PROVE  SlotsOf(W)[i] \in W /\ Place(W, SlotsOf(W)[i]) = i
  <2>1. \E s \in W : Cardinality({r \in W : r <= s}) = i
    BY <1>1, PlacesTaken DEF Place
  <2>2. SlotsOf(W)[i] = CHOOSE s \in W : Cardinality({r \in W : r <= s}) = i
    BY <1>1 DEF SlotsOf
  <2> QED
    BY <2>1, <2>2 DEF Place
<1>4. Len(SlotsOf(W)) = N
  BY <1>1, <1>2 DEF SlotsOf
<1>5. \A i, j \in 1 .. N : SlotsOf(W)[i] = SlotsOf(W)[j] => i = j
  BY <1>3
<1> QED
  BY <1>1, <1>2, <1>3, <1>4, <1>5

(* Between the calls there are as many keys in the map as slots in use. *)
LEMMA StoredCount ==
    ASSUME IndInv, usage # "both", Idle
    PROVE  /\ Cardinality(Map!Stored) = Cardinality(InUse(data))
           /\ Map!Stored = {} <=> InUse(data) = {}
           /\ \A s \in InUse(data) : /\ data[s].key \in Map!Stored
                                     /\ mapStore[data[s].key] = data[s].data
           /\ \A r, s \in InUse(data) : data[r].key = data[s].key => r = s
<1> DEFINE W == InUse(data)
<1>1. TableExact /\ Distinct(Held) /\ mapStore = StoreOf(Held) /\ Once(data)
  BY TableFacts, HeldDistinct, HeldFacts DEF IndInv, Apart
<1>2. \A x : x \in Held <=> \E s \in W : x = data[s]
  <2>1. DOMAIN frames = {}
    BY DEF Idle
  <2> QED
    BY <2>1, HeldMember
<1>3. PICK M : M = StoreOf(Held)
  OBVIOUS
<1>4. /\ \A x \in Held : x.key \in Keys /\ M[x.key] = x.data /\ x.data # NULL
      /\ \A k \in Keys : (\A x \in Held : x.key # k) => M[k] = NULL
  BY <1>1, <1>3, StoreOfFacts
<1>5. PICK T : T = Map!Stored
  OBVIOUS
<1>6. T = {k \in Keys : M[k] # NULL} /\ mapStore = M
  BY <1>1, <1>3, <1>5 DEF Map!Stored
<1>7. \A s \in W : data[s].key \in T /\ M[data[s].key] = data[s].data
  BY <1>2, <1>4, <1>6
<1>8. \A k \in T : \E s \in W : data[s].key = k
  BY <1>2, <1>4, <1>6
<1>9. \A r, s \in W : data[r].key = data[s].key => r = s
  BY <1>1 DEF Once
<1>10. IsFiniteSet(W)
  BY <1>1 DEF TableExact
<1> HIDE DEF W
<1> DEFINE F == [s \in W |-> data[s].key]
<1>11. F \in [W -> T] /\ \A s \in W : F[s] = data[s].key
  BY <1>7
<1> HIDE DEF F
<1>12. F \in Bijection(W, T)
  BY <1>8, <1>9, <1>11 DEF Bijection, Injection, Surjection, IsInjective
<1>13. Cardinality(T) = Cardinality(W)
  BY <1>10, <1>12, FS_Bijection DEF ExistsBijection
<1> QED
  BY <1>5, <1>6, <1>7, <1>8, <1>9, <1>13 DEF W

(* KeyMap counts as HashMap does. *)
LEMMA SameCount == \A S : Map!Cardinality(S) = Cardinality(S)
BY Zenon DEF Cardinality, Map!Cardinality

LEMMA IterateIsIterate ==
    ASSUME IndInv, usage # "both", hashmap_iterate
    PROVE  Map!Iterate
<1>1. Idle /\ data' = data /\ frames' = frames
  BY DEF hashmap_iterate
<1>2. Held' = Held
  BY <1>1 DEF Held, InUse, Unmoved
<1>3. mapStore' = mapStore /\ MapOp' = MapOp /\ MapOp = <<>>
  BY <1>1, <1>2, SameHeld DEF MapOp, Idle
<1>4. PICK W : W = InUse(data)
  OBVIOUS
<1>5. PICK N : N = Cardinality(W)
  OBVIOUS
<1>6. PICK T : T = Map!Stored
  OBVIOUS
<1>7. PICK M : M = mapStore
  OBVIOUS
<1>8. IsFiniteSet(W) /\ W \subseteq Nat
  BY <1>4, TableFacts DEF IndInv, TableExact
<1>9. PICK slots : slots = SlotsOf(W)
  OBVIOUS
<1>10. /\ N \in Nat /\ Len(slots) = N
       /\ \A i \in 1 .. N : slots[i] \in W
       /\ \A i, j \in 1 .. N : slots[i] = slots[j] => i = j
  BY <1>5, <1>8, <1>9, SlotsOfFacts
<1>11. /\ Cardinality(T) = N /\ (T = {} <=> W = {})
       /\ \A s \in W : data[s].key \in T /\ M[data[s].key] = data[s].data
       /\ \A r, s \in W : data[r].key = data[s].key => r = s
  BY <1>1, <1>4, <1>5, <1>6, <1>7, StoredCount
<1> DEFINE Visited(n) == [i \in 1 .. n |-> data[slots[i]].data]
<1>12. ASSUME NEW n \in 0 .. N
       PROVE  \E order \in Map!Orders(n) : Visited(n) = [i \in 1 .. n |-> M[order[i]]]
  <2> DEFINE order == [i \in 1 .. n |-> data[slots[i]].key]
  <2>1. \A i \in 1 .. n : i \in 1 .. N
    BY <1>10
  <2>2. \A i \in 1 .. n : slots[i] \in W
    BY <1>10, <2>1
  <2>3. order \in [1 .. n -> T] /\ \A i, j \in 1 .. n : order[i] = order[j] => i = j
    BY <1>10, <1>11, <2>1, <2>2
  <2>4. \A i \in 1 .. n : M[order[i]] = data[slots[i]].data
    BY <1>11, <2>2
  <2>5. Visited(n) = [i \in 1 .. n |-> M[order[i]]]
    BY <2>4
  <2>6. order \in Map!Orders(n)
    <3> HIDE DEF order
    <3> QED
      BY <1>6, <2>3 DEF Map!Orders
  <2> HIDE DEF order
  <2> QED
    BY <2>5, <2>6
<1> DEFINE Seen(n, status) == [call |-> "iterate", status |-> status, seen |-> Visited(n)]
<1>13. \/ size <= 0 /\ ret' = Seen(0, "MISSING")
       \/ ~(size <= 0) /\ ret' = Seen(N, "OK")
       \/ ~(size <= 0) /\ \E n \in 1 .. N : ret' = Seen(n, "STOPPED")
  <2>1. LET S == SlotsOf(InUse(data))
        IN  IF size <= 0
            THEN ret' = [call |-> "iterate", status |-> "MISSING",
                         seen |-> [i \in 1 .. 0 |-> data[S[i]].data]]
            ELSE \/ ret' = [call |-> "iterate", status |-> "OK",
                            seen |-> [i \in 1 .. Len(S) |-> data[S[i]].data]]
                 \/ \E n \in 1 .. Len(S) : ret' = [call |-> "iterate", status |-> "STOPPED",
                                                  seen |-> [i \in 1 .. n |-> data[S[i]].data]]
    BY DEF hashmap_iterate, hashmap_length, SlotsOf
  <2>2. SlotsOf(InUse(data)) = slots /\ Len(SlotsOf(InUse(data))) = N
    BY <1>4, <1>9, <1>10
  <2> QED
    BY <2>1, <2>2
<1>14. (size <= 0 => T = {}) /\ (~(size <= 0) => T # {})
  <2>1. size \in Nat /\ N <= size /\ (size > 0 => W # {})
    BY <1>4, <1>5 DEF IndInv, TypeOK, HalfFree
  <2>2. N = 0 => W = {}
    BY <1>5, <1>8, FS_EmptySet
  <2> QED
    BY <1>10, <1>11, <2>1, <2>2
<1> HIDE DEF Visited
<1>15. \E n \in 0 .. N, status \in {"OK", "STOPPED", "MISSING"} :
         /\ status = "OK" => n = N
         /\ status = "STOPPED" => n > 0
         /\ status = "MISSING" <=> T = {}
         /\ ret' = Seen(n, status)
  <2>1. CASE size <= 0 /\ ret' = Seen(0, "MISSING")
    <3>1. 0 \in 0 .. N /\ T = {}
      BY <1>10, <1>14, <2>1
    <3> QED
      BY <2>1, <3>1
  <2>2. CASE ~(size <= 0) /\ ret' = Seen(N, "OK")
    <3>1. N \in 0 .. N /\ T # {}
      BY <1>10, <1>14, <2>2
    <3> QED
      BY <2>2, <3>1
  <2>3. CASE ~(size <= 0) /\ \E n \in 1 .. N : ret' = Seen(n, "STOPPED")
    <3>1. PICK n \in 1 .. N : ret' = Seen(n, "STOPPED")
      BY <2>3
    <3>2. n \in 0 .. N /\ n > 0 /\ T # {}
      BY <1>10, <1>14, <2>3
    <3> QED
      BY <3>1, <3>2
  <2> QED
    BY <1>13, <2>1, <2>2, <2>3
<1>16. PICK n \in 0 .. N, status \in {"OK", "STOPPED", "MISSING"} :
         /\ status = "OK" => n = N
         /\ status = "STOPPED" => n > 0
         /\ status = "MISSING" <=> T = {}
         /\ ret' = Seen(n, status)
  BY <1>15
<1>17. PICK order \in Map!Orders(n) : Visited(n) = [i \in 1 .. n |-> M[order[i]]]
  BY <1>12
<1>18. ret' = [call |-> "iterate", status |-> status, seen |-> [i \in 1 .. n |-> M[order[i]]]]
  BY <1>16, <1>17
<1>19. Cardinality(Map!Stored) = N /\ Map!Stored = T /\ mapStore = M
  BY <1>6, <1>7, <1>11
<1>20. \E m \in 0 .. Cardinality(Map!Stored), st \in {"OK", "STOPPED", "MISSING"} :
         /\ st = "OK" => m = Cardinality(Map!Stored)
         /\ st = "STOPPED" => m > 0
         /\ st = "MISSING" <=> Map!Stored = {}
         /\ \E o \in Map!Orders(m) :
              ret' = [call |-> "iterate", status |-> st, seen |-> [i \in 1 .. m |-> mapStore[o[i]]]]
  <2>1. n \in 0 .. Cardinality(Map!Stored)
    BY <1>19
  <2>2. ret' = [call |-> "iterate", status |-> status, seen |-> [i \in 1 .. n |-> mapStore[order[i]]]]
    BY <1>18, <1>19
  <2> QED
    BY <1>16, <1>17, <1>19, <2>1, <2>2, ZenonT(30)
<1> QED
  BY <1>3, <1>20, SameCount DEF Map!Iterate, MapOp

LEMMA StutterMap ==
    ASSUME UNCHANGED vars
    PROVE  Stutter
<1>1. data' = data /\ frames' = frames /\ ret' = ret
  BY DEF vars
<1>2. Held' = Held
  BY <1>1 DEF Held, InUse, Unmoved
<1> QED
  BY <1>1, <1>2, SameHeld DEF Stutter, MapOp, Idle

LEMMA InitIsInit == Init => Map!Init
<1> SUFFICES ASSUME Init PROVE Map!Init
  OBVIOUS
<1>1. frames = <<>> /\ DOMAIN frames = {} /\ ret = Map!NoRet
  BY DEF Init, NoRet, Map!NoRet
<1>2. InUse(data) = {}
  <2>1. INITIAL_SIZE \in Nat
    BY SizeAssumption
  <2> QED
    BY <2>1, EmptyFacts DEF Init
<1>3. Held = {}
  BY <1>1, <1>2, HeldMember
<1>4. mapStore = [k \in Keys |-> NULL]
  BY <1>3, HeldFacts DEF StoreOf
<1> QED
  BY <1>1, <1>4 DEF Map!Init, Idle

LEMMA StepIsStep ==
    ASSUME IndInv, IndInv', [Next]_vars, usage # "both"
    PROVE  [Map!Next]_(Map!vars)
<1>0. Stutter => [Map!Next]_(Map!vars)
  BY DEF Stutter, MapOp, Map!vars
<1>1. CASE Store
  <2>1. Len(frames) = 1 \/ Len(frames) > 1
    <3>1. PICK n \in Nat \ {0} : n = Len(frames)
      BY <1>1, StoreFacts
    <3> QED
      BY <3>1
  <2>2. CASE Len(frames) = 1
    BY <1>1, <2>2, StoreIsDoPut DEF Map!Next
  <2>3. CASE Len(frames) > 1
    BY <1>0, <1>1, <2>3, MovedStutters
  <2> QED
    BY <2>1, <2>2, <2>3
<1>2. CASE Double
  BY <1>0, <1>2, DoubleStutters
<1>3. CASE OutOfMemory
  BY <1>3, OutOfMemoryIsFailPut DEF Map!Next
<1>4. CASE Reinsert
  BY <1>0, <1>4, ReinsertStutters
<1>5. CASE Rehashed
  BY <1>0, <1>5, RehashedStutters
<1>6. ASSUME NEW k \in Keys, NEW v \in Values, Put(k, v) PROVE [Map!Next]_(Map!vars)
  BY <1>6, PutIsCallPut DEF Map!Next
<1>7. ASSUME NEW k \in Keys, hashmap_get(k) PROVE [Map!Next]_(Map!vars)
  BY <1>7, GetIsGet DEF Map!Next
<1>8. ASSUME NEW k \in Keys, hashmap_remove(k) PROVE [Map!Next]_(Map!vars)
  BY <1>8, RemoveIsRemove DEF Map!Next
<1>9. CASE hashmap_iterate
  BY <1>9, IterateIsIterate DEF Map!Next
<1>10. CASE UNCHANGED vars
  BY <1>0, <1>10, StutterMap
<1> QED
  BY <1>1, <1>2, <1>3, <1>4, <1>5, <1>6, <1>7, <1>8, <1>9, <1>10 DEF Next, PutStep

------------------------------------------------------------------------------
(* The results. *)

(* Whatever the caller does, the invariant holds (hashmap.c:31-383): the   *)
(* calls of a nested doubling fit together, and if the caller puts no key  *)
(* again or removes none, every key is in one place and in its chain.      *)
THEOREM MapSound == Spec => []IndInv
<1> QED
  BY InitInvariant, StepInvariant, PTL DEF Spec

(* The table is never more than half full, and counts no fewer elements    *)
(* than it holds, for any keys, sizes and hash (hashmap.c:199, 239, 281).  *)
THEOREM HalfFreeCorrect == Spec => []HalfFree
<1>1. IndInv => HalfFree
  BY DEF IndInv
<1> QED
  BY <1>1, MapSound, PTL

(* For a caller that puts no key again or removes none, every element is   *)
(* where a search for its key ends, also while elements are moved          *)
(* (hashmap.c:205-213, 301-312).                                           *)
THEOREM FindableCorrect ==
    ASSUME "both" \notin Usages
    PROVE  Spec => []Findable
<1>1. IndInv => Findable
  <2> SUFFICES ASSUME IndInv PROVE Findable
    OBVIOUS
  <2>1. TypeOK /\ usage # "both"
    BY DEF IndInv, TypeOK
  <2> QED
    BY <2>1, FoundThere DEF Findable
<1> QED
  BY <1>1, MapSound, PTL

(* For a caller that puts no key again or removes none, the map is the     *)
(* abstract one: a put takes effect when its element is stored, a doubling *)
(* and the puts within it change nothing, a put that has no memory changes *)
(* no value, get and remove find what is stored, and iterate visits each   *)
(* value once (hashmap.c:221-383).                                         *)
THEOREM MapImplemented ==
    ASSUME "both" \notin Usages
    PROVE  Spec => ImplementsKeyMap
<1>1. IndInv => usage # "both"
  BY DEF IndInv, TypeOK
<1>2. IndInv /\ IndInv' /\ [Next]_vars => [Map!Next]_(Map!vars)
  BY <1>1, StepIsStep
<1> QED
  BY <1>2, InitIsInit, MapSound, PTL DEF Spec, ImplementsKeyMap, Map!Spec
==============================================================================
