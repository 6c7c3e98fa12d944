-------------------------------- MODULE HashMap --------------------------------
(***************************************************************************)
(* The open-addressing map of hashmap.c: a key is stored in the first slot *)
(* that is free or its own, at most MAX_CHAIN_LENGTH slots from where it   *)
(* is hashed to; a table that is half full, or has no such slot, is        *)
(* doubled and its elements are put again, which may double it once more   *)
(* in the middle.  It has one caller at a time.                            *)
(*                                                                         *)
(* The calls of hashmap_put and hashmap_rehash in progress are the frames  *)
(* of a stack: each is a put, with the table it moves, if it is doubling.  *)
(***************************************************************************)
EXTENDS Integers, Sequences, FiniteSets, FiniteSetsExt

CONSTANTS
    Keys, Values, NULL,
    HashOf,             \* [Keys -> Nat]: crc32 and the mixing after it
    INITIAL_SIZE,
    MAX_CHAIN_LENGTH,
    MaxTable,           \* the largest table there is memory for
    Scarce,             \* whether calloc may fail before
    Usages              \* what the caller does: see usage

ASSUME HashAssumption == HashOf \in [Keys -> Nat]
ASSUME SizeAssumption ==
    /\ INITIAL_SIZE \in Nat \ {0, 1} /\ MaxTable \in Nat
    /\ MAX_CHAIN_LENGTH \in 1 .. INITIAL_SIZE
ASSUME UsageAssumption == Usages \subseteq {"overwrite", "remove", "both"}
ASSUME NULLAssumption == NULL \notin Keys \cup Values

VARIABLES
    data,    \* the table: [0 .. table_size - 1 -> elements]
    size,    \* the number of elements, as the map counts them
    frames,  \* the stack of calls of hashmap_put
    ret,     \* what the last call returned
    usage    \* "overwrite": the caller puts keys again, but removes none;
             \* "remove": it removes, but puts no key that is there; "both"

vars == <<data, size, frames, ret, usage>>

(* An element that is not in use has no key. *)
Free       == [key |-> NULL, data |-> NULL]
NoTable    == [s \in {} |-> Free]
Empty(n)   == [s \in 0 .. n - 1 |-> Free]
InUse(tab) == {s \in DOMAIN tab : tab[s] # Free}
NoRet      == [call |-> "none"]

(* hashmap_new *)
Init ==
    /\ data = Empty(INITIAL_SIZE) /\ size = 0
    /\ frames = <<>>
    /\ ret = NoRet
    /\ usage \in Usages

table_size == Cardinality(DOMAIN data)

------------------------------------------------------------------------------
(* Probing. *)

Slot(k, i) == (HashOf[k] + i) % table_size
Chain      == 0 .. MAX_CHAIN_LENGTH - 1

(* Mutant: a free slot is preferred to the key's own. *)
FitsFree(k) == {i \in Chain : data[Slot(k, i)] = Free}

(* Where the key can go. *)
Fits(k) == {i \in Chain : data[Slot(k, i)].key \in {NULL, k}}

Full(k) == size >= table_size \div 2 \/ Fits(k) = {}

hashmap_hash(k) == Slot(k, Min(Fits(k)))

(* Mutant: the search ends at the first slot that is not in use. *)
FoundBeforeHole(k) == {i \in Chain : /\ data[Slot(k, i)].key = k
                                     /\ \A j \in 0 .. i : data[Slot(k, j)] # Free}

(* Where hashmap_get and hashmap_remove see the key. *)
Found(k) == {i \in Chain : data[Slot(k, i)].key = k}
FirstFound(k) == Slot(k, Min(Found(k)))

------------------------------------------------------------------------------
(* hashmap_put and hashmap_rehash *)

Frame(k, v) == [key |-> k, data |-> v, old |-> NoTable, at |-> 0]

Idle == frames = <<>>
Top  == frames[Len(frames)]
Below == SubSeq(frames, 1, Len(frames) - 1)
Doubling == Top.old # NoTable

Put(k, v) ==
    /\ Idle
    /\ usage = "remove" => k \notin {data[s].key : s \in DOMAIN data}
    /\ frames' = <<Frame(k, v)>>
    /\ ret' = NoRet
    /\ UNCHANGED <<data, size, usage>>

(* Set the data; the call before goes on with its next element. *)
Store ==
    /\ ~Idle /\ ~Doubling /\ ~Full(Top.key)
    /\ data' = [data EXCEPT ![hashmap_hash(Top.key)] = [key |-> Top.key, data |-> Top.data]]
    /\ size' = size + 1
    /\ frames' = IF Below = <<>> THEN <<>> ELSE [Below EXCEPT ![Len(Below)].at = @ + 1]
    /\ ret' = IF Below = <<>> THEN [call |-> "put", status |-> "OK"] ELSE ret
    /\ UNCHANGED usage

(* Mutant: the new table is no larger. *)
SameSize == table_size

NewSize == 2 * table_size

(* Mutant: the number of elements is not reset. *)
SizeKept == size

SizeAfterDoubling == 0

(* Setup the new elements. *)
Double ==
    /\ ~Idle /\ ~Doubling /\ Full(Top.key) /\ NewSize <= MaxTable
    /\ data' = Empty(NewSize) /\ size' = SizeAfterDoubling
    /\ frames' = [frames EXCEPT ![Len(frames)].old = data]
    /\ UNCHANGED <<ret, usage>>

(* calloc fails: every call in progress returns, and the elements that the *)
(* calls below had not moved yet are gone, with the tables they are in.    *)
OutOfMemory ==
    /\ ~Idle /\ ~Doubling /\ Full(Top.key)
    /\ Scarce \/ NewSize > MaxTable
    /\ frames' = <<>>
    /\ ret' = [call |-> "put", status |-> "OMEM"]
    /\ UNCHANGED <<data, size, usage>>

Unmoved(frame) == {s \in InUse(frame.old) : s >= frame.at}

(* Rehash the next element. *)
Reinsert ==
    /\ ~Idle /\ Doubling /\ Unmoved(Top) # {}
    /\ LET s == Min(Unmoved(Top))
       IN  frames' = Append([frames EXCEPT ![Len(frames)].at = s],
                            Frame(Top.old[s].key, Top.old[s].data))
    /\ UNCHANGED <<data, size, ret, usage>>

(* All are moved; the put looks for a place again. *)
Rehashed ==
    /\ ~Idle /\ Doubling /\ Unmoved(Top) = {}
    /\ frames' = Append(Below, Frame(Top.key, Top.data))
    /\ UNCHANGED <<data, size, ret, usage>>

PutStep == Store \/ Double \/ OutOfMemory \/ Reinsert \/ Rehashed

------------------------------------------------------------------------------
hashmap_get(k) ==
    /\ Idle
    /\ ret' = IF Found(k) = {}
              THEN [call |-> "get", key |-> k, status |-> "MISSING", data |-> NULL]
              ELSE [call |-> "get", key |-> k, status |-> "OK",
                    data |-> data[FirstFound(k)].data]
    /\ UNCHANGED <<data, size, frames, usage>>

(* Mutant: the number of elements is not reduced. *)
SizeNotReduced == size

SizeAfterRemoval == size - 1

hashmap_remove(k) ==
    /\ Idle /\ usage # "overwrite"
    /\ IF Found(k) = {}
       THEN /\ ret' = [call |-> "remove", key |-> k, status |-> "MISSING"]
            /\ UNCHANGED <<data, size>>
       ELSE /\ data' = [data EXCEPT ![FirstFound(k)] = Free]
            /\ size' = SizeAfterRemoval
            /\ ret' = [call |-> "remove", key |-> k, status |-> "OK"]
    /\ UNCHANGED <<frames, usage>>

hashmap_length == size

(* The elements in the order of their slots, n of them if the function     *)
(* then asks to stop.                                                      *)
hashmap_iterate ==
    /\ Idle
    /\ LET slots == [i \in 1 .. Cardinality(InUse(data)) |->
                       CHOOSE s \in InUse(data) : Cardinality({r \in InUse(data) : r <= s}) = i]
           Seen(n, status) == [call |-> "iterate", status |-> status,
                               seen |-> [i \in 1 .. n |-> data[slots[i]].data]]
       IN  IF hashmap_length <= 0
           THEN ret' = Seen(0, "MISSING")
           ELSE \/ ret' = Seen(Len(slots), "OK")
                \/ \E n \in 1 .. Len(slots) : ret' = Seen(n, "STOPPED")
    /\ UNCHANGED <<data, size, frames, usage>>

Next ==
    \/ PutStep
    \/ \E k \in Keys, v \in Values : Put(k, v)
    \/ \E k \in Keys : hashmap_get(k) \/ hashmap_remove(k)
    \/ hashmap_iterate

(* Once called, hashmap_put runs. *)
Spec == Init /\ [][Next]_vars /\ WF_vars(PutStep)

------------------------------------------------------------------------------
(* Correctness. *)

Elements == [key : Keys, data : Values] \cup {Free}
IsTable(tab) ==
    /\ Cardinality(DOMAIN tab) \in Nat /\ DOMAIN tab = 0 .. Cardinality(DOMAIN tab) - 1
    /\ tab \in [DOMAIN tab -> Elements]

(* The type invariant of the map, checked with Findable. *)
TypeOK ==
    /\ IsTable(data) /\ data # NoTable
    /\ size \in Nat
    /\ \A i \in DOMAIN frames :
         /\ frames[i].key \in Keys /\ frames[i].data \in Values
         /\ IsTable(frames[i].old) /\ frames[i].at \in Nat
         /\ frames[i].old # NoTable \/ i = Len(frames)
    /\ usage \in Usages

(* Every element is where a search for its key ends, also in the middle of *)
(* a doubling: it is within a chain of its key's first slot, and no other  *)
(* element has its key (hashmap.c:205-213, 301-312), as long as the caller *)
(* either puts no key again or removes none.                               *)
Findable ==
    /\ TypeOK
    /\ \A s \in InUse(data) : Found(data[s].key) # {} /\ FirstFound(data[s].key) = s

(* At most half of the table is in use, so that a doubling ends; the map   *)
(* never counts fewer elements than it holds, and as many unless the       *)
(* caller has put keys again (hashmap.c:199, 239, 281, 374).               *)
HalfFree ==
    /\ Cardinality(InUse(data)) <= size /\ size <= table_size \div 2
    /\ usage = "remove" => size = Cardinality(InUse(data))

(* hashmap_put returns: each doubling ends, and they stop when the key has *)
(* a place or memory is short (hashmap.c:270-275), however the keys        *)
(* collide.                                                                *)
PutReturns == ~Idle ~> Idle

(* hashmap.c:349: hashmap_remove removes the "element with that key". A    *)
(* key that hashmap_remove has found and taken out is not found again.     *)
(* False: a key put again in the free slot of another, removed one is      *)
(* stored twice (hashmap.c:206).                                           *)
RemovedIsGone ==
    ret.call = "remove" => Found(ret.key) = {}

------------------------------------------------------------------------------
(* Why they hold. *)

Typed ==
    /\ table_size >= INITIAL_SIZE
    /\ frames \in Seq({frames[i] : i \in DOMAIN frames})
    /\ \A i \in DOMAIN frames :
         frames[i] \in [key : Keys, data : Values, old : {frames[i].old}, at : Nat]

KeysOf(tab) == {tab[s].key : s \in InUse(tab)}
Once(tab) == \A r, s \in InUse(tab) : tab[r].key = tab[s].key => r = s

(* The keys a doubling has still to move. *)
ToMove(frame) == {frame.old[s].key : s \in Unmoved(frame)}

(* Each call but the first puts the element at which the one below it is.  *)
Nested ==
    \A i \in DOMAIN frames :
        /\ frames[i].old = NoTable => frames[i].at = 0
        /\ i > 1 => LET below == frames[i - 1]
                    IN  /\ below.at \in InUse(below.old)
                        /\ below.old[below.at] = [key |-> frames[i].key, data |-> frames[i].data]

(* No key is in two places, in the table or in those that are moved.       *)
Apart ==
    /\ Once(data) /\ \A i \in DOMAIN frames : Once(frames[i].old)
    /\ \A i \in DOMAIN frames : ToMove(frames[i]) \cap KeysOf(data) = {}
    /\ \A i, j \in DOMAIN frames : i # j => ToMove(frames[i]) \cap ToMove(frames[j]) = {}
    /\ usage = "remove" =>
         \A i \in DOMAIN frames : frames[1].key \notin KeysOf(data) \cup ToMove(frames[i])

(* Every element is in its key's chain; if nothing is removed, there is no *)
(* free slot before it.                                                    *)
Placed ==
    \A s \in InUse(data) :
        \E i \in Chain :
            /\ s = Slot(data[s].key, i)
            /\ usage = "overwrite" =>
                 \A j \in 0 .. i - 1 : data[Slot(data[s].key, j)].key \notin {NULL, data[s].key}

(* The inductive invariant. *)
IndInv ==
    /\ TypeOK /\ HalfFree /\ Typed /\ Nested
    /\ usage # "both" => Apart /\ Placed /\ (size > 0 => InUse(data) # {})
===============================================================================
