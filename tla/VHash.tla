-------------------------------- MODULE VHash --------------------------------
(***************************************************************************)
(* The chained hash table of vhash.c, at the level of its pointers.        *)
(*                                                                         *)
(* A VSlot is named by the number of its allocation: slot 1 is the first   *)
(* ever allocated, and a number is not used again after vslot_destroy, so  *)
(* that a pointer to freed memory never looks like a pointer to live       *)
(* memory.  DOMAIN slot is the set of slots allocated and not yet freed.   *)
(*                                                                         *)
(* The operations here change the table only.  Who holds the mutex when    *)
(* they run is the business of the caller (vhashtable_lock and             *)
(* vhashtable_unlock are called from outside the library), hence of the    *)
(* modules that EXTEND this one.                                           *)
(***************************************************************************)
EXTENDS Integers, FiniteSets

CONSTANTS
    Keys,        \* the strings used as keys
    Args,        \* what a slot may carry: addresses of the caller's items
    nMaxBucket,  \* number of buckets
    Hash         \* the hash function of the table

ASSUME BucketAssumption == nMaxBucket \in Nat \ {0}
ASSUME HashAssumption   == Hash \in [Keys -> 0 .. nMaxBucket - 1]

(* The NULL pointer; slots are numbered from 1. *)
NULL == 0

(* sizeof(VHashTable), sizeof(VBucket) and sizeof(VSlot) of an LP64 build. *)
TableSize  == 96
BucketSize == 24
SlotSize   == 152

VARIABLES
    slot,      \* [live slot -> VSlot]: the slots allocated and not freed
    nSlot,     \* number of slots allocated so far
    bucket,    \* [0..nMaxBucket-1 -> VBucket]
    mutex,     \* the thread holding the table's mutex, or Free
    memUsage   \* gMemUsage of vutil.c: bytes allocated and not freed

hashVars == <<slot, nSlot, bucket>>

Buckets == 0 .. nMaxBucket - 1
Free    == -1

(* vc_malloc and vc_free: a counter of the bytes in use, updated by an     *)
(* atomic add.  Allocation is assumed to succeed.                          *)
vc_malloc(size) == memUsage' = memUsage + size
vc_free(size)   == memUsage' = memUsage - size

(* Mutant: the caller does not wait for the mutex. *)
LockUnguarded(t) == mutex' = t

vhashtable_lock(t) == mutex = Free /\ mutex' = t
vhashtable_unlock  == mutex' = Free

EmptyTable ==
    /\ slot = [s \in {} |-> NULL]
    /\ nSlot = 0
    /\ bucket = [b \in Buckets |-> [size |-> 0, head |-> NULL, tail |-> NULL]]

------------------------------------------------------------------------------
(* Where a search for k begins: vchain_find and vchain_pop start at the    *)
(* head of the bucket k hashes to.                                         *)
Head(k) == bucket[Hash[k]].head

(* Mutant: the new slot does not point back. *)
NewSlotNoPrev(k, a, b) ==
    [key |-> k, arg |-> a, prev |-> NULL, next |-> NULL]

(* The slot vchain_append links behind the tail of bucket b. *)
NewSlot(k, a, b) ==
    [key |-> k, arg |-> a, prev |-> bucket[b].tail, next |-> NULL]

(* vchain_append: a new slot becomes the tail of its bucket. *)
vchain_append(k, a) ==
    LET b == Hash[k]
        l == bucket[b].tail
        p == nSlot + 1
    IN  /\ nSlot' = p
        /\ slot' = [s \in DOMAIN slot \cup {p} |->
                      IF s = p THEN NewSlot(k, a, b)
                      ELSE IF s = l THEN [slot[s] EXCEPT !.next = p]
                      ELSE slot[s]]
        /\ bucket' = [bucket EXCEPT
                        ![b] = [size |-> @.size + 1,
                                head |-> IF l = NULL THEN p ELSE @.head,
                                tail |-> p]]
        /\ vc_malloc(SlotSize)

(* Mutant: p->next->prev is left as it was. *)
BypassForwardOnly(p) ==
    [s \in DOMAIN slot \ {p} |->
       [slot[s] EXCEPT !.next = IF s = slot[p].prev THEN slot[p].next ELSE @]]

(* The slots that remain when p is freed, p's neighbours linked together. *)
Bypass(p) ==
    [s \in DOMAIN slot \ {p} |->
       [slot[s] EXCEPT !.next = IF s = slot[p].prev THEN slot[p].next ELSE @,
                       !.prev = IF s = slot[p].next THEN slot[p].prev ELSE @]]

(* Mutants: head is left at the slot that goes; (b->size)-- is forgotten. *)
BucketStaleHead(b, p) ==
    [size |-> bucket[b].size - 1,
     head |-> bucket[b].head,
     tail |-> IF slot[p].next = NULL THEN slot[p].prev ELSE bucket[b].tail]
BucketUncounted(b, p) ==
    [size |-> bucket[b].size,
     head |-> IF slot[p].prev = NULL THEN slot[p].next ELSE bucket[b].head,
     tail |-> IF slot[p].next = NULL THEN slot[p].prev ELSE bucket[b].tail]

(* Bucket b when slot p is gone. *)
BucketWithout(b, p) ==
    [size |-> bucket[b].size - 1,
     head |-> IF slot[p].prev = NULL THEN slot[p].next ELSE bucket[b].head,
     tail |-> IF slot[p].next = NULL THEN slot[p].prev ELSE bucket[b].tail]

(* The body of the loops of vchain_pop and vchain_filterANDdelete for a    *)
(* slot that goes: unlink it, free it, count one less.                     *)
Unlink(b, p) ==
    /\ slot' = Bypass(p)
    /\ bucket' = [bucket EXCEPT ![b] = BucketWithout(b, p)]
    /\ vc_free(SlotSize)
    /\ UNCHANGED nSlot

(* vslot_destroy as vchain_clear calls it: the chain keeps its pointers,   *)
(* and the bucket its head, until the whole chain is gone.                 *)
vslot_destroy(p) ==
    /\ slot' = [s \in DOMAIN slot \ {p} |-> slot[s]]
    /\ vc_free(SlotSize)
    /\ UNCHANGED <<nSlot, bucket>>

(* The end of vchain_clear: head and tail are reset, size is not. *)
ResetBucket(b) ==
    /\ bucket' = [bucket EXCEPT ![b].head = NULL, ![b].tail = NULL]
    /\ UNCHANGED <<slot, nSlot, memUsage>>

------------------------------------------------------------------------------
SlotType ==
    [key : Keys, arg : Args, prev : Nat, next : Nat]

HashTypeOK ==
    /\ nSlot \in Nat
    /\ DOMAIN slot \subseteq 1 .. nSlot
    /\ slot \in [DOMAIN slot -> SlotType]
    /\ bucket \in [Buckets -> [size : Int, head : Nat, tail : Nat]]

BucketOf(s) == Hash[slot[s].key]
Chain(b)    == {s \in DOMAIN slot : BucketOf(s) = b}

(* The ends of a bucket's chain are its oldest and its newest slot. *)
EndsOK(b) ==
    /\ bucket[b].head = NULL <=> Chain(b) = {}
    /\ bucket[b].tail = NULL <=> Chain(b) = {}
    /\ bucket[b].head # NULL =>
         bucket[b].head \in Chain(b) /\ \A s \in Chain(b) : bucket[b].head <= s
    /\ bucket[b].tail # NULL =>
         bucket[b].tail \in Chain(b) /\ \A s \in Chain(b) : s <= bucket[b].tail

(* next leads to the slot inserted next in the same bucket, NULL at the    *)
(* newest; prev is its inverse.                                            *)
NextOK(s) ==
    IF slot[s].next = NULL
    THEN \A r \in Chain(BucketOf(s)) : r <= s
    ELSE /\ slot[s].next \in Chain(BucketOf(s))
         /\ s < slot[s].next
         /\ \A r \in Chain(BucketOf(s)) : r <= s \/ slot[s].next <= r
PrevOK(s) ==
    IF slot[s].prev = NULL
    THEN \A r \in Chain(BucketOf(s)) : s <= r
    ELSE /\ slot[s].prev \in Chain(BucketOf(s))
         /\ slot[s].prev < s
         /\ \A r \in Chain(BucketOf(s)) : s <= r \/ r <= slot[s].prev

(* Every bucket is one doubly linked list of exactly the slots whose key   *)
(* hashes to it, in the order they were inserted: no slot is lost, none    *)
(* is reachable twice, and both directions agree.                          *)
WellLinked ==
    /\ \A b \in Buckets : EndsOK(b)
    /\ \A s \in DOMAIN slot : NextOK(s) /\ PrevOK(s)

(* A key is stored in at most one slot. *)
KeysUnique ==
    \A r, s \in DOMAIN slot : slot[r].key = slot[s].key => r = s

(* The counter of each bucket is the length of its chain. *)
SizesExact ==
    \A b \in Buckets : bucket[b].size = Cardinality(Chain(b))
==============================================================================
