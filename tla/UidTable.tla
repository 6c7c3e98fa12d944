------------------------------- MODULE UidTable -------------------------------
(***************************************************************************)
(* The program of main.c: NUM threads add entries to one VHashTable and    *)
(* delete entries from it, under the table's mutex; when all of them have  *)
(* ended, main prints the table, throws out the entries whose id is below  *)
(* Bound, prints it again, destroys it and prints the memory still in use. *)
(*                                                                         *)
(* Thread t adds when t is even and deletes when it is odd.  The entry it  *)
(* allocates in round n is named <<t, n>>, so no address is used twice.    *)
(***************************************************************************)
EXTENDS VHash

CONSTANTS
    NUM,      \* number of threads
    Rounds,   \* iterations of routine_add and routine_del
    Ids,      \* the values vrandom(1000) may give an entry's id
    Draws,    \* those of them it gives the entries of each thread
    Bound,    \* the filter's bound
    NoName,   \* not a key: buf between two rounds
    NoArg     \* not an item: pArg when nothing was popped

Threads  == 0 .. NUM - 1
Adder(t) == t % 2 = 0

ASSUME NumAssumption    == NUM \in Nat
ASSUME RoundsAssumption == Rounds \in Nat
ASSUME IdsAssumption    == Ids \subseteq Int /\ Bound \in Int
ASSUME DrawsAssumption  == Draws \in [Threads -> SUBSET Ids]
ASSUME ArgsAssumption   == Args = Threads \X (0 .. Rounds)
ASSUME NoneAssumption   == NoName \notin Keys /\ NoArg \notin Args

EntrySize == 40    \* sizeof(uidEntry)

VARIABLES
    entry,   \* [live entry -> uidEntry]: the entries allocated and not freed
    pc,      \* where each thread is in uidAdd or uidDel
    i,       \* the loop counter of each thread
    buf,     \* the name each thread works on, NoName between two rounds
    p,       \* the slot each thread has reached in its search
    pArg,    \* the item vchain_pop returned to each thread
    ret,     \* the result of each thread's vhashtable_insert or _delete
    phase,   \* what main is doing
    cur,     \* where main's loops over the table are: bucket b, slot p, pArg
    tally    \* the entries printed, or the sizes summed, by main's loop

threadVars == <<pc, i, buf, p, pArg, ret>>
mainVars   == <<phase, cur, tally>>
vars       == <<slot, nSlot, bucket, mutex, memUsage, entry, pc, i, buf, p, pArg,
                ret, phase, cur, tally>>

(* The entry of thread t's current round. *)
e(t) == <<t, i[t]>>

uidEntry_create(x, k, id) ==
    /\ entry' = [y \in DOMAIN entry \cup {x} |->
                    IF y = x THEN [uid |-> k, id |-> id] ELSE entry[y]]
    /\ vc_malloc(EntrySize)

(* Mutant: the destructor gives back the size of a pointer. *)
DestroyPointer(x) ==
    /\ entry' = [y \in DOMAIN entry \ {x} |-> entry[y]]
    /\ vc_free(8)

uidEntry_destroy(x) ==
    /\ entry' = [y \in DOMAIN entry \ {x} |-> entry[y]]
    /\ vc_free(EntrySize)

(* Mutant: the bound itself passes. *)
FilterBound(x) == entry[x].id <= Bound

filter(x) == entry[x].id < Bound

(* The condition of the loops of routine_add and routine_del. *)
MoreRounds(t) == i[t] < Rounds

Init ==
    /\ EmptyTable
    /\ mutex = Free
    /\ memUsage = 0
    /\ entry = [x \in {} |-> NULL]
    /\ pc    = [t \in Threads |-> "idle"]
    /\ i     = [t \in Threads |-> 0]
    /\ buf   = [t \in Threads |-> NoName]
    /\ p     = [t \in Threads |-> NULL]
    /\ pArg  = [t \in Threads |-> NoArg]
    /\ ret   = [t \in Threads |-> "none"]
    /\ phase = "create"
    /\ cur   = [b |-> 0, p |-> NULL, pArg |-> NoArg]
    /\ tally = 0

------------------------------------------------------------------------------
(* The threads. *)

Goto(t, label) == pc' = [pc EXCEPT ![t] = label]

(* routine_add picks a name and uidAdd allocates the entry, before it asks *)
(* for the mutex.                                                          *)
Create(t, k, id) ==
    /\ phase = "join" /\ Adder(t) /\ pc[t] = "idle" /\ MoreRounds(t)
    /\ uidEntry_create(e(t), k, id)
    /\ buf' = [buf EXCEPT ![t] = k]
    /\ Goto(t, "lock")
    /\ UNCHANGED <<slot, nSlot, bucket, mutex, i, p, pArg, ret, phase, cur, tally>>

(* routine_del picks a name and calls uidDel. *)
Pick(t, k) ==
    /\ phase = "join" /\ ~Adder(t) /\ pc[t] = "idle" /\ MoreRounds(t)
    /\ buf' = [buf EXCEPT ![t] = k]
    /\ Goto(t, "lock")
    /\ UNCHANGED <<slot, nSlot, bucket, mutex, memUsage, entry, i, p, pArg, ret,
                   phase, cur, tally>>

(* vhashtable_lock; the search then starts at the head of the bucket. *)
Lock(t) ==
    /\ pc[t] = "lock" /\ vhashtable_lock(t)
    /\ p' = [p EXCEPT ![t] = Head(buf[t])]
    /\ Goto(t, "search")
    /\ UNCHANGED <<slot, nSlot, bucket, memUsage, entry, i, buf, pArg, ret, phase, cur, tally>>

Searching(t) == pc[t] = "search"
Missed(t)    == Searching(t) /\ p[t] = NULL
Hit(t)       == Searching(t) /\ p[t] # NULL /\ slot[p[t]].key = buf[t]

(* Mutant: p = p->next is missing. *)
WalkStuck(t) ==
    /\ Searching(t) /\ p[t] # NULL /\ slot[p[t]].key # buf[t]
    /\ UNCHANGED vars

(* One turn of the loop of vchain_find and vchain_pop: p = p->next. *)
Walk(t) ==
    /\ Searching(t) /\ p[t] # NULL /\ slot[p[t]].key # buf[t]
    /\ p' = [p EXCEPT ![t] = slot[p[t]].next]
    /\ UNCHANGED <<slot, nSlot, bucket, mutex, memUsage, entry, pc, i, buf, pArg, ret,
                   phase, cur, tally>>

(* Mutant of Store: uidAdd destroys the entry although it was stored. *)
StoreAndDestroy(t) ==
    /\ Missed(t) /\ Adder(t)
    /\ vchain_append(buf[t], e(t))
    /\ entry' = [y \in DOMAIN entry \ {e(t)} |-> entry[y]]
    /\ ret' = [ret EXCEPT ![t] = "OKAY"]
    /\ Goto(t, "unlock")
    /\ UNCHANGED <<mutex, i, buf, p, pArg, phase, cur, tally>>

(* The key is not in the table: vhashtable_insert stores the entry. *)
Store(t) ==
    /\ Missed(t) /\ Adder(t)
    /\ vchain_append(buf[t], e(t))
    /\ ret' = [ret EXCEPT ![t] = "OKAY"]
    /\ Goto(t, "unlock")
    /\ UNCHANGED <<mutex, entry, i, buf, p, pArg, phase, cur, tally>>

(* The key is there already: vhashtable_insert fails and uidAdd destroys   *)
(* the entry it allocated.                                                 *)
Reject(t) ==
    /\ Hit(t) /\ Adder(t)
    /\ uidEntry_destroy(e(t))
    /\ p' = [p EXCEPT ![t] = NULL]
    /\ ret' = [ret EXCEPT ![t] = "FAIL"]
    /\ Goto(t, "unlock")
    /\ UNCHANGED <<slot, nSlot, bucket, mutex, i, buf, pArg, phase, cur, tally>>

(* vchain_pop found the key: the slot goes, its item is handed back. *)
Pop(t) ==
    /\ Hit(t) /\ ~Adder(t)
    /\ Unlink(Hash[buf[t]], p[t])
    /\ pArg' = [pArg EXCEPT ![t] = slot[p[t]].arg]
    /\ p' = [p EXCEPT ![t] = NULL]
    /\ Goto(t, "dtor")
    /\ UNCHANGED <<mutex, entry, i, buf, ret, phase, cur, tally>>

(* vhashtable_delete passes the item to the table's destructor. *)
Dtor(t) ==
    /\ pc[t] = "dtor"
    /\ uidEntry_destroy(pArg[t])
    /\ pArg' = [pArg EXCEPT ![t] = NoArg]
    /\ ret' = [ret EXCEPT ![t] = "OKAY"]
    /\ Goto(t, "unlock")
    /\ UNCHANGED <<slot, nSlot, bucket, mutex, i, buf, p, phase, cur, tally>>

(* vchain_pop found nothing: vhashtable_delete fails. *)
NotFound(t) ==
    /\ Missed(t) /\ ~Adder(t)
    /\ ret' = [ret EXCEPT ![t] = "FAIL"]
    /\ Goto(t, "unlock")
    /\ UNCHANGED <<slot, nSlot, bucket, mutex, memUsage, entry, i, buf, p, pArg, phase, cur, tally>>

(* vhashtable_unlock, and the end of the loop's body. *)
Unlock(t) ==
    /\ pc[t] = "unlock"
    /\ vhashtable_unlock
    /\ i' = [i EXCEPT ![t] = @ + 1]
    /\ buf' = [buf EXCEPT ![t] = NoName]
    /\ ret' = [ret EXCEPT ![t] = "none"]
    /\ Goto(t, "idle")
    /\ UNCHANGED <<slot, nSlot, bucket, memUsage, entry, p, pArg, phase, cur, tally>>

Thread(t) ==
    \/ \E k \in Keys, id \in Draws[t] : Create(t, k, id)
    \/ \E k \in Keys : Pick(t, k)
    \/ Lock(t) \/ Walk(t) \/ Store(t) \/ Reject(t) \/ Pop(t) \/ Dtor(t)
    \/ NotFound(t) \/ Unlock(t)

------------------------------------------------------------------------------
(* main.  Its loops visit the buckets in order and every slot of each. *)

Ended(t) == pc[t] = "idle" /\ i[t] = Rounds

Start == [b |-> 0, p |-> bucket[0].head, pArg |-> NoArg]

(* The next bucket, from its head. *)
NextBucket ==
    [b |-> cur.b + 1,
     p |-> IF cur.b + 1 < nMaxBucket THEN bucket[cur.b + 1].head ELSE NULL,
     pArg |-> NoArg]

AtSlot      == cur.b < nMaxBucket /\ cur.p # NULL
AtBucketEnd == cur.b < nMaxBucket /\ cur.p = NULL
AtTableEnd  == cur.b = nMaxBucket

Printing == phase \in {"print1", "print2"}
Summing  == phase \in {"size1", "size2"}

(* vhashtable_create. *)
CreateTable ==
    /\ phase = "create"
    /\ vc_malloc(TableSize + nMaxBucket * BucketSize)
    /\ phase' = "join"
    /\ UNCHANGED <<hashVars, mutex, entry, threadVars, cur, tally>>

(* The last pthread_join returns. *)
Join ==
    /\ phase = "join" /\ \A t \in Threads : Ended(t)
    /\ phase' = "print1"
    /\ cur' = Start
    /\ UNCHANGED <<hashVars, mutex, memUsage, entry, threadVars, tally>>

(* vhashtable_traversal: printHT reads the entry of every slot. *)
PrintEntry ==
    /\ Printing /\ AtSlot
    /\ tally' = tally + 1
    /\ cur' = [cur EXCEPT !.p = slot[cur.p].next]
    /\ UNCHANGED <<hashVars, mutex, memUsage, entry, threadVars, phase>>

(* vhashtable_getsize adds up the counters of the buckets. *)
Sum ==
    /\ Summing /\ cur.b < nMaxBucket
    /\ tally' = tally + bucket[cur.b].size
    /\ cur' = NextBucket
    /\ UNCHANGED <<hashVars, mutex, memUsage, entry, threadVars, phase>>

(* Mutant: the slot after the one that goes is skipped. *)
FilterOutSkips ==
    /\ phase = "filter" /\ AtSlot /\ cur.pArg = NoArg
    /\ filter(slot[cur.p].arg)
    /\ Unlink(cur.b, cur.p)
    /\ LET n == slot[cur.p].next
       IN  cur' = [cur EXCEPT !.p = IF n = NULL THEN n ELSE slot[n].next, !.pArg = slot[cur.p].arg]
    /\ UNCHANGED <<mutex, entry, threadVars, phase, tally>>

(* vchain_filterANDdelete: the slot whose entry the filter accepts goes;   *)
(* p->next was read before the slot is freed.                              *)
FilterOut ==
    /\ phase = "filter" /\ AtSlot /\ cur.pArg = NoArg
    /\ filter(slot[cur.p].arg)
    /\ Unlink(cur.b, cur.p)
    /\ cur' = [cur EXCEPT !.p = slot[cur.p].next, !.pArg = slot[cur.p].arg]
    /\ UNCHANGED <<mutex, entry, threadVars, phase, tally>>

FilterDtor ==
    /\ phase = "filter" /\ cur.pArg # NoArg
    /\ uidEntry_destroy(cur.pArg)
    /\ cur' = [cur EXCEPT !.pArg = NoArg]
    /\ UNCHANGED <<hashVars, mutex, threadVars, phase, tally>>

FilterKeep ==
    /\ phase = "filter" /\ AtSlot /\ cur.pArg = NoArg
    /\ ~filter(slot[cur.p].arg)
    /\ cur' = [cur EXCEPT !.p = slot[cur.p].next]
    /\ UNCHANGED <<hashVars, mutex, memUsage, entry, threadVars, phase, tally>>

(* vchain_clear: the item of a slot is destroyed, then the slot. *)
ClearItem ==
    /\ phase = "destroy" /\ AtSlot /\ cur.pArg = NoArg
    /\ uidEntry_destroy(slot[cur.p].arg)
    /\ cur' = [cur EXCEPT !.pArg = slot[cur.p].arg]
    /\ UNCHANGED <<hashVars, mutex, threadVars, phase, tally>>

ClearSlot ==
    /\ phase = "destroy" /\ AtSlot /\ cur.pArg # NoArg
    /\ vslot_destroy(cur.p)
    /\ cur' = [cur EXCEPT !.p = slot[cur.p].next, !.pArg = NoArg]
    /\ UNCHANGED <<mutex, entry, threadVars, phase, tally>>

ClearBucket ==
    /\ phase = "destroy" /\ AtBucketEnd
    /\ ResetBucket(cur.b)
    /\ cur' = NextBucket
    /\ UNCHANGED <<mutex, entry, threadVars, phase, tally>>

(* The loops over slots that leave the bucket as it is go to the next. *)
Advance ==
    /\ Printing \/ phase = "filter"
    /\ AtBucketEnd /\ cur.pArg = NoArg
    /\ cur' = NextBucket
    /\ UNCHANGED <<hashVars, mutex, memUsage, entry, threadVars, phase, tally>>

(* What main does next when a loop over the table is over. *)
Following ==
    [print1 |-> "size1", size1 |-> "filter", filter |-> "size2",
     size2 |-> "print2", print2 |-> "destroy"]

Leave ==
    /\ phase \in DOMAIN Following /\ AtTableEnd
    /\ phase' = Following[phase]
    /\ cur' = Start
    /\ tally' = 0
    /\ UNCHANGED <<hashVars, mutex, memUsage, entry, threadVars>>

(* The end of vhashtable_destroy. *)
FreeTable ==
    /\ phase = "destroy" /\ AtTableEnd
    /\ vc_free(TableSize + nMaxBucket * BucketSize)
    /\ phase' = "end"
    /\ UNCHANGED <<hashVars, mutex, entry, threadVars, cur, tally>>

Main ==
    \/ CreateTable \/ Join \/ PrintEntry \/ Sum \/ FilterOut \/ FilterDtor \/ FilterKeep
    \/ ClearItem \/ ClearSlot \/ ClearBucket \/ Advance \/ Leave \/ FreeTable

(* The process has exited. *)
Exited == phase = "end" /\ UNCHANGED vars

Next == Main \/ (\E t \in Threads : Thread(t)) \/ Exited

(* As long as main or a thread can take a step, one of them does: nothing  *)
(* is assumed of which.                                                    *)
Fairness == WF_vars(Main \/ (\E t \in Threads : Thread(t)))

Spec == Init /\ [][Next]_vars /\ Fairness

------------------------------------------------------------------------------
(* Correctness. *)

EntryType == [uid : Keys, id : Ids]

(* The type invariant of the program's state, checked with IndInv. *)
TypeOK ==
    /\ HashTypeOK
    /\ memUsage \in Int
    /\ mutex \in Threads \cup {Free}
    /\ DOMAIN entry \subseteq Args
    /\ entry \in [DOMAIN entry -> EntryType]
    /\ pc \in [Threads -> {"idle", "lock", "search", "dtor", "unlock"}]
    /\ i \in [Threads -> 0 .. Rounds]
    /\ buf \in [Threads -> Keys \cup {NoName}]
    /\ p \in [Threads -> Nat]
    /\ pArg \in [Threads -> Args \cup {NoArg}]
    /\ ret \in [Threads -> {"none", "OKAY", "FAIL"}]
    /\ phase \in DOMAIN Following \cup {"create", "join", "destroy", "end"}
    /\ cur \in [b : 0 .. nMaxBucket, p : Nat, pArg : Args \cup {NoArg}]
    /\ tally \in Int

(* The entries a thread alone refers to: the one uidAdd allocated and has  *)
(* not stored yet, the one vhashtable_delete popped and has not destroyed. *)
Holds(t, x) ==
    \/ Adder(t) /\ pc[t] \in {"lock", "search"} /\ x = e(t)
    \/ pc[t] = "dtor" /\ x = pArg[t]

(* The slot whose item vchain_clear has destroyed and which goes next. *)
Clearing(s) == phase = "destroy" /\ cur.pArg # NoArg /\ s = cur.p

InTable(x) == \E s \in DOMAIN slot : slot[s].arg = x /\ ~Clearing(s)

(* The chains are well formed whenever nobody is in the middle of an       *)
(* update: vchain_append (vhash.c:116), vchain_pop (137) and               *)
(* vchain_filterANDdelete (187) leave every bucket a doubly linked list of *)
(* exactly the slots stored and not removed, in the order of insertion.    *)
(* vchain_clear (248) dismantles them.                                     *)
ChainsWellLinked == phase \notin {"destroy", "end"} => WellLinked

(* vhashtable_insert (vhash.c:286) never stores a key twice, although the  *)
(* test and the append are two steps between which other threads run.      *)
UniqueKeys == KeysUnique

(* No pointer that is about to be dereferenced is dangling: the slot a     *)
(* search or a loop of main stands at (vhash.c:137-171, 195, 253) is       *)
(* allocated, and lies in the bucket being searched.                       *)
NoDanglingSlot ==
    /\ \A t \in Threads : Searching(t) /\ p[t] # NULL =>
         p[t] \in DOMAIN slot /\ BucketOf(p[t]) = Hash[buf[t]]
    /\ cur.p # NULL => cur.p \in DOMAIN slot /\ BucketOf(cur.p) = cur.b

(* An entry has one owner at a time, so it is freed once and never used    *)
(* afterwards: what a slot carries is an allocated entry of the slot's     *)
(* name that no other slot carries; what a thread holds is an allocated    *)
(* entry that no slot carries and no other thread holds (the hand-over of  *)
(* main.c:79-84 and vhash.c:340-342).                                      *)
OneOwner ==
    /\ \A s \in DOMAIN slot : ~Clearing(s) =>
         slot[s].arg \in DOMAIN entry /\ entry[slot[s].arg].uid = slot[s].key
    /\ \A r, s \in DOMAIN slot : slot[r].arg = slot[s].arg => r = s
    /\ \A t \in Threads, x \in Args : Holds(t, x) =>
         /\ x \in DOMAIN entry /\ entry[x].uid = buf[t]
         /\ ~InTable(x)
         /\ \A u \in Threads : Holds(u, x) => u = t

(* No entry is lost: whatever is allocated can be reached, from a slot or  *)
(* from the one thread that holds it (or main, between vslot_destroy and   *)
(* dtor in vhash.c:214-217), and nothing is left when main has destroyed   *)
(* the table.  Checked with CountersExact.                                 *)
NoLostEntry ==
    /\ \A x \in DOMAIN entry :
         InTable(x) \/ (\E t \in Threads : Holds(t, x)) \/ cur.pArg = x
    /\ phase = "end" => DOMAIN slot = {} /\ DOMAIN entry = {}

(* What main prints is exact: a traversal visits every stored slot once,   *)
(* and the sum of the sizes is the number of slots (main.c:168, 171).      *)
TallyExact ==
    [][phase' # phase /\ (Printing \/ Summing) => tally = Cardinality(DOMAIN slot)]_vars

(* The threads and main come to an end: nobody waits forever for the       *)
(* mutex, and no walk along a chain goes round in circles.                 *)
Termination == <>(phase = "end")

------------------------------------------------------------------------------
(* The inductive invariant the proofs use. *)

(* What a thread's pc says of its local variables, and main's phase of pc. *)
ThreadsOK ==
    \A t \in Threads :
        /\ phase = "create" => pc[t] = "idle"
        /\ phase \notin {"create", "join"} => Ended(t)
        /\ pc[t] # "idle" => buf[t] \in Keys /\ i[t] < Rounds
        /\ pc[t] = "dtor" => ~Adder(t)
        /\ pc[t] = "dtor" <=> pArg[t] # NoArg
        /\ p[t] # NULL => Searching(t)

(* Exactly the thread that is between vhashtable_lock and vhashtable_unlock *)
(* has the mutex.                                                          *)
MutexHeld == \A t \in Threads : mutex = t <=> pc[t] \in {"search", "dtor", "unlock"}

(* A search has left behind no slot with the key it looks for. *)
SearchExact ==
    \A t \in Threads : Searching(t) =>
        \A s \in Chain(Hash[buf[t]]) : p[t] = NULL \/ s < p[t] => slot[s].key # buf[t]

(* An address <<t, n>> has been allocated only if t has reached round n. *)
Reached(t, n) == n < i[t] \/ (n = i[t] /\ pc[t] # "idle")
AddressesFresh ==
    \A t \in Threads, n \in 0 .. Rounds : <<t, n>> \in DOMAIN entry => Reached(t, n)

(* The item main holds between two steps on a slot. *)
MainItemOK ==
    cur.pArg # NoArg =>
        /\ cur.b < nMaxBucket
        /\ \/ phase = "filter" /\ cur.pArg \in DOMAIN entry /\ ~InTable(cur.pArg)
           \/ /\ phase = "destroy" /\ cur.p # NULL
              /\ cur.pArg = slot[cur.p].arg /\ cur.pArg \notin DOMAIN entry

(* The phases before and after main's loops have no current slot. *)
MainSlotOK ==
    /\ phase \in {"create", "join", "end"} => cur.p = NULL
    /\ phase = "end" => cur.b = nMaxBucket

(* What vchain_clear has left: nothing before the current slot, and from   *)
(* there on every chain as it was.                                         *)
RestWellLinked ==
    phase \in {"destroy", "end"} =>
        /\ \A s \in DOMAIN slot : NextOK(s)
        /\ \A b \in Buckets : b > cur.b => EndsOK(b)
        /\ \A b \in Buckets : b < cur.b => Chain(b) = {}
        /\ \A s \in Chain(cur.b) : cur.p # NULL /\ cur.p <= s

IndInv ==
    /\ TypeOK /\ ThreadsOK /\ MutexHeld /\ SearchExact /\ AddressesFresh
    /\ MainItemOK /\ MainSlotOK /\ RestWellLinked
    /\ ChainsWellLinked /\ UniqueKeys /\ NoDanglingSlot /\ OneOwner

(* The counters are what they count: gMemUsage, which main prints at the   *)
(* end (main.c:210), is the sum of the sizes of what is allocated, and the *)
(* sizes vhashtable_getsize (vhash.c:327) sums are the lengths of the      *)
(* chains until vchain_clear leaves them behind; and what is allocated is  *)
(* not lost.                                                               *)
CountersExact ==
    /\ NoLostEntry
    /\ phase \notin {"destroy", "end"} => SizesExact
    /\ IsFiniteSet(DOMAIN slot) /\ IsFiniteSet(DOMAIN entry)
    /\ memUsage = (IF phase \in {"create", "end"} THEN 0 ELSE TableSize + nMaxBucket * BucketSize)
                  + SlotSize * Cardinality(DOMAIN slot) + EntrySize * Cardinality(DOMAIN entry)

(* The slots a loop of main over the slots has left behind. *)
Behind ==
    {s \in DOMAIN slot :
        BucketOf(s) < cur.b \/ (BucketOf(s) = cur.b /\ (cur.p = NULL \/ s < cur.p))}

(* What main's loops have established of the part of the table they have   *)
(* visited: vhashtable_traversal (vhash.c:379) has printed as many entries *)
(* as it has passed slots, vhashtable_getsize (327) has added as many as   *)
(* there are in the buckets it has read, and vhashtable_filterANDdelete    *)
(* (366) has left no entry below the bound.                                *)
LoopsExact ==
    /\ phase \in {"create", "join", "filter"} => tally = 0
    /\ Printing => tally = Cardinality(Behind)
    /\ Summing => tally = Cardinality({s \in DOMAIN slot : BucketOf(s) < cur.b})
    /\ phase = "filter" => \A s \in Behind : ~filter(slot[s].arg)
==============================================================================
