# vlib in TLA+

`src/` is a small C library: data structures (a hash table, a queue, a stack, a
list, a tree, a table of keyed lists), a log with rotation, wrappers over System V
message queues, base64 and AES helpers, and one program, `main.c`, in which five
threads hammer the hash table. This directory specifies it in TLA+, checks the
specifications with TLC on small instances and proves theorems about them with
TLAPS for instances of every size.

## Inventory

| Component | State | Operations | What makes it hard | What makes it correct |
|---|---|---|---|---|
| `vhash` (`vhash.c`) | buckets of doubly linked slots, a size per bucket, a mutex | create, insert, find, delete, filterANDdelete, traversal, getsize, destroy, lock, unlock | insert is a search and an append that only the caller's lock makes one step; unlinking patches four pointers in two structures; loops free the slot they stand on | every bucket is a doubly linked list of exactly its slots, keys are unique, sizes exact, no freed slot is read, an operation takes effect at one instant |
| `main` (`main.c`) | the table, five threads, the entries they allocate | routine_add, routine_del, then print, filter, print, destroy | entries change owners: uidAdd, the table, the destructor | an entry has one owner, is freed once, and nothing is left at the end |
| `VQueue`, `VStack` (`vutil.c`) | linked `VNode`s, size, nMaxSize, a mutex inside | create, push, pop, getSize, destroy | concurrent callers, the size kept beside the chain, getSize reads without the lock, allocation may fail | a bounded FIFO, a bounded LIFO; the size never passes a bound that is not negative |
| `table` (`table.c`) | a list of lists, one per key, a cursor | put, putBack, get, size, traversal | get moves the cursor and frees a list it empties; a NULL result has two meanings; keys are clipped to 31 bytes | FIFO per key, keys served in turn, no freed list is reached |
| `VList` (`vutil.c`) | linked `VNode`s, cursor, the caller's lock | insert, search, delete, seek, foreach, travel | deletion inside foreach | the links agree, the cursor never dangles, order |
| `VTree` (`vutil.c`) | binary search tree of `VNode`s, cursor, the caller's lock | insert, search, delete, seek, foreach, travel | deletion moves an item to another node and frees that node's donor; the lock unlocks | search order, links, no item lost or visited twice, no freed node is reached |
| `VLog` (`vutil.c`) | path, limits, the time of the last print, the file | print, setPath, setSize, setDay | rotation by size and by day, setPath while others print, restarts, two processes on one path | no line is lost but with a backup that is replaced, lines stay in order |
| memory accounting (`vutil.c`) | one counter | vc_malloc, vc_free | the size is passed again at every free | the counter is what is allocated |
| `hashmap` (`hashmap.c`) | open-addressing array, a count | put, get, remove, iterate, length | a put may double the table and put its elements again, which may double it once more in the middle; chains go round the end; removal leaves holes; allocation may fail | a map from keys to values; every put returns |
| `mq` (`mq.c`) | a kernel queue, an identifier per process | init, send, recv, clear, stat, deinit; push, send_bykey, pop, kill, info | several processes, a blocking send, a non-blocking receive, identifiers that outlive their queue | nothing lost or received twice, order per sender, nothing overlooked |
| `vcrypto` (`vcrypto.c`) | a key and an initial vector | base64, AES-CBC with padding, MD5 | buffer arithmetic at the borders of groups, blocks and chunks; signed chars; strings that end at a NUL | decoding inverts encoding, the message of MD5 is padded as its standard says |
| `VTimer`, `VLock`, formatting, parsing | small | wrappers of the C library | | |
| `aes`, `HttpStatus`, `vmem`, `vlist2`, `sample` | | third-party code, tables, stubs, examples | | |

The components meet in few places: everything allocates through `vc_malloc`; the
hash table, the queue, the stack and the table each hold a pthread mutex, which
the hash table, the list and the tree leave to their callers and the others take
themselves; `main.c` hands its entries to the hash table together with the
function that destroys them.

## Plan

The order is that of importance: first the component that several threads use at
once in the repository's own program, then the other structures that are shared,
then those that leave locking to their callers, then files and kernel queues.

| Step | Modules | Abstract specification | State |
|---|---|---|---|
| 1 | `VHash`, `UidTable` | `UidMap` | modelled, checked |
| 2 | `UidTable_proofs` | | invariants, counters and refinement proved |
| 3 | `VNodeList`, `VQueue`, `VStack`, `VNodeList_proofs` | `BoundedSequence` | modelled, checked; invariants and refinement proved |
| 4 | `Table`, `Table_proofs` | `Turns` | modelled, checked; invariants and refinement proved |
| 5 | `VTree`, `VList`, `VList_proofs`, `VTree_proofs` | | modelled, checked; all properties proved |
| 6 | `VLog`: rotation by size and by day, crash and restart; `VLog_proofs` | | modelled, checked; all its properties proved |
| 7 | `HashMap`, `VCrypto`, `MessageQueue` with its kernel queue; `VLog` with setPath while others print | `KeyMap` | modelled, checked; `HashMap_proofs`, `MessageQueue_proofs`: invariants and refinement proved |
| 8 | as functions of their inputs: the removal of colour codes from a line of the log, the parsing of sizes and durations | | to do |

The modules declare their parameters as constants with named assumptions and have one
action per operation or step; only `VCrypto`, about which there are no theorems, has
RECURSIVE operators.

## The hash table and its program

`VHash` models `vhash.c`: a slot is a record `[key, arg, prev, next]` of the
function `slot`, whose domain is the set of allocated slots, and a slot is named by
the number of its allocation; `bucket` holds head, tail and size of each chain.
`vchain_append`, `Unlink` (the four cases of `vchain_pop`), `vslot_destroy` and
`ResetBucket` are the functions of `vhash.c` on that state. The hash function is an
arbitrary constant function into the buckets.

`UidTable` models `main.c` on top of it. A thread's `uidAdd` is `Create` (allocate
the entry), `Lock`, `Missed` steps along the chain, then `Store` or `Reject`,
`Unlock`; `uidDel` is `Pick`, `Lock`, `Missed` steps, `Pop` or `NotFound`, `Dtor`,
`Unlock`. Every step along a chain is a step of the model, and so is every step of
main's loops, which print, sum, filter (unlink, then the destructor) and destroy
(`vchain_clear`: the destructor, then the slot). A thread's pc, its local pointers
`p` and `pArg`, and main's `cur` are the variables the code keeps between two steps.
The entry thread `t` allocates in round `n` has the address `<<t, n>>`; no address is
used twice, so that using one after `free` is visible as using one that is not
allocated.

`UidMap` is what the table promises: a map on which an add or a delete takes effect
at one instant between its call and its return. `UidTableMap` gives the refinement
mapping: an operation takes effect when its search ends, under the mutex.

Left out: `vhashtable_find` without the lock is called only from code under `#if 0`;
allocation succeeds (a failure makes the program write through NULL and ends it,
`vhash.c:107`, `main.c:17`); what is printed is counted, not formatted.

## Queue and stack

`VNodeList` holds what `vqueue_*` and `vstack_*` share: the chain of `VNode`s, the
size kept beside it, the mutex taken inside each call, `push` in its steps (test,
create, link, count), `getSize` without the mutex, and the destruction that frees
the header only. `VQueue` and `VStack` add where an item leaves. The structure is
created in one of the `Settings`: a kind, a capacity (a negative `nMaxSize` is no
bound, as in the code, which compares for equality), and whether an allocation may
fail. A thread makes `Calls` calls, each of any kind. `BoundedSequence` is the
abstract specification of both, and `VNodeListSequence` maps to it: a node counts
from `size++` to `size--`, which is what makes the unlocked `getSize` linearizable.

`ChainWellLinked` is one invariant for the links in both directions, the counter
against the chain, the capacity, and the memory accounting. `vqueue_destroy` and
`vstack_destroy` free the header, not the nodes: what was not popped stays allocated,
and the invariant says so.

## Table

`Table` models `table.c` at the level of its two kinds of doubly linked lists: lists
hanging from the `Table`, nodes from each `List`, and the cursor `T.cur`. `Before`,
`After` and `Without` are the link operations of `list_pushL`, `list_pushR` and
`list_pop`, which `table_*` repeats for lists. A put is lock, search, a new list if
the key has none, a node, unlock; a get is lock, the cursor's restart or the
leftmost node with the cursor's move, the removal of an emptied list, unlock. `Clip`
is what the 32 bytes of a list's key keep: a longer key is stored clipped and
searched whole, so that it never finds its list (`table.c:18`, 239).

`Turns` is the abstract specification, queues served in turn, and `TableTurns` the
mapping, with history variables for the properties that span several calls.

Two things a user of `table.c` has to know show in the constants and properties.
`table_size` walks the lists without the mutex, and a list it stands at is freed by a
get that empties it: `CountersAssumption` admits only counting threads that are the
only getter. And `InTurn` is about a list, not about a key: a list that is emptied
and made again joins at the end, so that keys which are put again as soon as they
are served can keep the cursor from ever reaching the end, and an earlier list
waiting; no property says that every item is served eventually, because it is not
so. `table_pushL` is called nowhere, `table_traversal` reads under the mutex and
prints, `table_del` frees the header.

## Tree and list

`VTree` and `VList` model the two structures that carry a cursor and leave the lock
to the caller, each as its sample uses it: insertions, searches and deletions, and a
loop `lock; seek; while (foreach) Delete; unlock`. A call is one step; what
interleaves is the sequence of calls. `seen` and `owed` record what a loop has
visited and what it has still to visit.

In `VTree`, `vtree_delete` of a node with two children moves an item into it and frees
another node (`Candidate`), without a look at the cursor. In a loop from the first
node this is safe, because the freed node lies before the one that was asked for and
the cursor after it: `NoDanglingCursor` (a part of `VisitsAll`) holds, and stops
holding if the candidate is taken from the right instead. In a loop from the last node by `vtree_foreachFrom`,
the cursor stands exactly on the candidate; the constant `DeleteFrom` keeps to
deletions in loops from the first, the only ones the tree's method `foreach` offers.
The model has one thread there, because the lock does not lock (see Findings).

`VList` has the real lock and two threads. A loop may also delete other nodes than
the one it came to; if the cursor's goes, the cursor becomes NULL and the loop ends
early, which `VisitsOnce` allows. `from` is where the users of the list insert from:
with the comparison `_lessThan`, from either end, or without one.

`getSize` of both reads a field and `seekNode`, used nowhere, sets the cursor to the
caller's node; they are not modelled. Neither is a failed allocation, which returns
NULL before anything has changed.

## Log

`VLog` models `vlog_print` in the steps another thread, a crash or a reader of the
directory can see: the mutex and the time, the test of size and day, the rename, the
opening that creates a missing file, the append, the unlock. A file is the sequence
of its lines; `files` has the names that exist. A crash stops all threads at any
step and leaves the files; the new process has `lastTs` zero.

A backup is named after the second of the last print, and `rename` replaces a file
of that name, so the log does lose lines. `LostInReplacedOnly` says exactly when: only
with a backup that the next one of the same path replaces, for which `replaced` is the
history. That takes two backups within one second: the first was full, and the second
holds lines of that second only (and is full too, in a log without a period). Or it
takes two restarts, because the first backup after each has the name of second 0. A
log without a period whose files do not fill within a second, started again at most
once, loses nothing. The settings are not restricted: `log_rotation` has one log that
rotates by size and one that rotates by size and by day, as `sample.c` sets it, and
both cases happen in it.

`vlog_setPath` is three steps among those of the threads that print: it clears the
path without the mutex, sets the new one under it, and makes the folder after it has
given the mutex back. A thread that prints meanwhile may test one path, rename under
another and find no file to write to; the line is dropped. `DroppedInSetPathOnly` says
that this is the only way to lose a line before it is written, and
`LostInReplacedOnly` and `LinesInOrder` that the interleaving costs nothing else. The
paths are in different folders, and one thread at a time sets a path.
A second process on the same path is not modelled (between `open` and `creat` in
`fd_open` each may truncate the other's file).

## Hash map

`HashMap` models `hashmap.c`. A call of `hashmap_put` is a stack of frames, each the
put of a key with the table it is moving if it has doubled: `Store`, `Double` (the
calloc, the new table, the count back to zero), `Reinsert` (the recursive put of the
next element), `Rehashed` (the put tries again), `OutOfMemory` (at any depth: the
elements that the frames had not moved are gone with their tables). A table that has
no place for a key within `MAX_CHAIN_LENGTH` slots of its hash is doubled in the
middle of a doubling; `HashOf`, for the crc and the mixing, is an arbitrary function.
Probing is `Fits` for a put and `Found` for a get or a removal.

`KeyMap` is a map from keys to values whose puts may fail and then lose elements,
because they do; `HashMapKeyMap` maps to it, the elements being those in the table
and those in the tables of the frames.

What `hashmap_put` stores is found again only under a condition the header does not
mention: `usage` says whether the caller puts keys again that are there, or removes
keys, or does both. A caller that does both loses `Findable` and the refinement (see
Findings), so `hash_map` has callers that do one of the two. The count is exact for a
caller that does not put a key again: `hashmap.c:281` adds one for a put that replaces
a value, `hashmap_length` (`the current size of a hashmap`, `hashmap.h:76-79`) is then
too large, a table is doubled earlier than it need be, and no property excludes it;
`HalfFree` states what remains true, which is what doubling and iterating rely on.
That every put returns
(`PutReturns`) rests on `MaxTable`, the memory there is: the keys of one chain that
no doubling separates end in `OutOfMemory`.

## Message queue

`MessageQueue` models `mq.c` over a kernel in which each queue has an identifier that
is not used again and the key names one of them at most. A process has two
identifiers: `mqid`, which `MQ_init` gave it and which it keeps over its calls for the
functions of the old interface, and `id`, the one its running call uses. A call is two
steps. The first gets the identifier: `MQ_getid` for the functions of the new
interface, which ask for it (and create the queue) in each call and forget it with
their local variable, so that a process using both interfaces keeps its old one;
`GivenId` for the old interface. If `msgget` fails, the function returns at once. The
second step is the system call, so that another process may remove the queue in
between. `Send` waits while there is no room and fails without a queue; `Receive`
takes the first message of type 1 without waiting; `MQ_clear` takes one message and
drops it; `MQ_kill` and `MQ_deinit` remove the queue, which wakes whoever waits. Any
system call may also fail for a reason of its own (`KernelFails`), at any moment, as
when a signal ends a sender's wait. The kernel's part (`msgget`, `OfType`,
`RemoveQueue`) is external and modelled from how `mq.c` calls it.

`ret` has what a call returned and `errno`: `ENOMSG` for a queue without a message,
`EIDRM` (which stands for `EINVAL` too) for one that is gone, `none` for the -1 that
`mq.c` returns itself for a negative identifier, `other` for the failures that the
model gives no cause. `before` is a history variable, what had been sent when a receive
was called.

`NothingOverlooked` is about the receives that find no message, and the `MQ_pop` whose
queue is removed on its way. It excepts an `MQ_recv` that reports `EIDRM`: a process
that keeps its identifier over a removal gets this for ever, while messages wait in the
new queue of the same key. The value is the -1 of an empty queue, and only `errno` tells
the two apart. `SendReported` says that success means the message was put into a
queue and failure that it was not, and that a send never fails because the queue is
full. That a waiting send ever ends is not so, and no property says it.

## Base64, encryption and MD5's message

`VCrypto` has the algorithms of `vcrypto.c` as operators on sequences of bytes, and a
small machine that gives them texts: a text is a run of a filler byte up to the
borders of groups, blocks and chunks, then bytes of `Chars`, among them NUL, the
padding character and a byte above 127. `needLen` is the size test as C reads it
(`vcrypto.c:11`: the conditional takes the whole sum as its condition), and
`venc_aes128_to_base64` calls it with the size of a pointer: the two mistakes cancel,
and correcting the first alone would make every encoding empty, which is the mutant of
`RoundTrip`. `AES_CBC_encrypt_buffer` and its inverse are the chaining of `aes.c` over
`Cipher` and `InvCipher`, a permutation of blocks for each key that is a parameter:
the rounds are third-party code. `RoundTrip` is about texts that fit the buffers (no
more than 63 bytes, `FitsBuffers`) and do not end in `~`, which the padding uses.
`Md5Padded` and `WordsExact` are about `md5` up to the words it works on; its 64 rounds
and the printing of the result are not modelled.

## Runs

| Run | Instance | Shows |
|---|---|---|
| `uid_table` | 3 threads (two adders, a deleter), 2 rounds, 4 names, three of them in one bucket, one adder's ids below the bound, the other's at it | chains, unique keys, no dangling slot, one owner per entry, nothing lost, counters exact, main's loops and printed totals exact, the inductive invariants of the proofs; implements `UidMap`; all threads and main end |
| `node_lists` | a queue or a stack, 3 threads with 2 calls each, with room for two items or with no limit and allocations that may fail | implements a bounded FIFO or LIFO; links, size, capacity, memory; the inductive invariant |
| `table_turns` | a putter, and a thread that puts, gets and counts, 3 calls each, 2 keys, one too long | implements `Turns`; served in turn, a retry finds, the unlocked count is bounded; both levels of links, one list per key, no dangling list |
| `tree_loop` | 1 thread, 5 insertions, 3 values | order, links, search, items and cursor under deletion in a loop |
| `list_loop` | 2 threads, 4 insertions, 2 values | links, order, cursor and visits under deletion in a loop |
| `log_rotation` | 2 threads, 3 lines of size 1 or 2 in 4 seconds, 2 paths set while printing, files of size 1 without a period, or of size 2 with a day of 2 seconds, 2 crashes | lines lost only with a backup that is replaced, files in order and bounded, days apart, lines dropped only while a path is set |
| `hash_map` | 4 keys, 2 values, 8 slots, chains of 2, memory for 32 slots or less | elements found, table half free, the inductive invariant; implements `KeyMap`, puts return |
| `message_queue` | a sender of each interface with 2 and 3 calls, a receiver that uses both with 4; the receiver and the sender of the old one also remove the queue, and any call may fail; room for 2 messages, 3 queues one after the other | messages received once and in order, none overlooked, a send reports truly whether its message was accepted |
| `crypto` | texts of 0 to 66 bytes that end in any two of 4 bytes, 2 keys, 2 vectors | base64 is standard, encryption can be undone, MD5's message is padded by its standard |
| `tree_lock` | 2 threads | violated: two threads between lock and unlock |
| `hash_map_remove` | as `hash_map`, with a caller that puts again and removes | violated: a removed key is still found |
| `crypto_words` | as `crypto` | violated: the words of MD5 are not the bytes of its message |

The bounds: three threads let an adder wait while another adder and the deleter work;
three names in one bucket let a slot go at either end of its chain, between two others
and as the only one, and the fourth gives main's loops a second chain. Ids 499 and 500
are on the two sides of the filter's bound; `Draws` gives one adder the first and the
other the second, and since either may add at any time the filter meets both in every
order. A capacity of two is reached and left again by three threads with two calls.
The key that is too long makes a new list with every put, so that the table's cursor
has lists before, at and after it, and three gets are one past the end and two that
are served. Five nodes are enough for a deleted tree node whose candidate is neither
its child nor a leaf. Four list nodes give an inner node with inner neighbours. Three
lines are two backups and what is printed after them: two of one second, or one after
each of two crashes, are the ways in which a backup replaces another; four seconds hold
two ends of a period of two. Of the four keys of the hash map three start at the last
slot but one of 8 and one at the last, so that a chain goes round the end; two of them
collide again in 16 slots, which doubles the table a second time in the middle of the
first. The four calls of the message queue's receiver are enough to open the queue,
to see it removed and made again, and to receive by both interfaces, with the kept
identifier stale; two senders fill a queue of two with one more that waits, and one of
them may be woken by the removal. A
text longer by two than any border of 3, 16, 56 or 64 bytes is among those of
`crypto`. Symmetry is not used.

In the runs of the queue and the stack, the table, the log, the message queue and the
texts the system may stop when its calls are made: there is an explicit step for the
end, so that deadlock is checked in every run. In `MessageQueue` that step is for the
end of all calls only; a sender that waits for room can always be ended by a failure,
such as a signal, but no fairness makes that happen.

Fairness is assumed in two places. `UidTable` assumes that as long as main or a thread
can take a step, one of them takes one, and nothing about which: the threads of
`main.c` are POSIX threads that the kernel schedules, and since each makes a bounded
number of rounds, no fair mutex is needed for `Termination`. `HashMap` assumes that a
`hashmap_put`, once called, runs.

## Proofs

Every theorem holds for all values of the constants that satisfy the assumptions
named in the modules and the hypotheses in the table: any number of threads or processes, calls and rounds, any sets
of names, keys and values, any capacity, table size, length of chains and hash
function. What each of them rests on is an inductive invariant, `IndInv`, which the
runs `uid_table`, `node_lists` and `hash_map` check as well; in `HashMap`,
`MessageQueue` and `VNodeList` it stands at the end of the module.

| Module | Theorem | Establishes |
|---|---|---|
| `UidTable_proofs` | `Invariance`, and from it `TypeCorrect`, `ChainsCorrect`, `KeysNeverTwice`, `NoSlotReadAfterFree`, `OwnershipCorrect` | `IndInv`; `TypeOK`, `ChainsWellLinked`, `UniqueKeys`, `NoDanglingSlot`, `OneOwner` |
| | `CountersCorrect`, `LoopsCorrect`, `TallyCorrect` | `CountersExact`, `LoopsExact`, the action property `TallyExact` |
| | `MapImplemented` | the program implements `UidMap` |
| `VNodeList_proofs` | `OneAtATime`, `ChainCorrect`, `SequenceImplemented` | `IndInv`, `ChainWellLinked`; queue and stack implement `BoundedSequence` |
| `Table_proofs` | `TableSound`, and from it `AllLinkedCorrect`, `OneListPerKeyCorrect` | `IndInv`; `AllLinked`, `OneListPerKey` |
| | `TurnsSound`, and from it `RetryFindsCorrect`, `InTurnCorrect`, `SizeBetweenCorrect` | `TurnInv`; `RetryFinds`, the action property `InTurn`, `SizeBetween` |
| | `TurnsImplemented` | the table implements `Turns` (`ImplementsTurns`) |
| `VTree_proofs` | `TreeSound`, and from it `InOrderCorrect`, `ItemsKeptCorrect`, `VisitsAllCorrect` | `IndInv`; `InOrder`, `ItemsKept`, `VisitsAll`: all for one thread whose loops delete from the first item on (`OneUser`) |
| `VList_proofs` | `ListSound`, and from it `ChainCorrect`, `OrderedCorrect`, `VisitsOnceCorrect` | `IndInv`; `LinkedBothWays`, `Ordered`, `VisitsOnce` |
| `HashMap_proofs` | `MapSound`, `HalfFreeCorrect` | `IndInv`, `HalfFree` |
| | `FindableCorrect`, `MapImplemented` | `Findable`; the hash map implements `KeyMap`: both if no caller puts again and removes (`"both" \notin Usages`) |
| `VLog_proofs` | `LogSound`, and from it `LostInReplacedOnlyCorrect`, `LinesInOrderCorrect`, `RotatedCorrect`, `DroppedCorrect` | `IndInv`; `LostInReplacedOnly`, `LinesInOrder`, `Rotated`, the action property `DroppedInSetPathOnly` |
| `MessageQueue_proofs` | `QueueSound`, and from it `DeliveredCorrect`, `OverlookedNothing`, `SendReportedCorrect` | `IndInv`; `Delivered`, `NothingOverlooked`, `SendReported` |

**Hash table.** The first part of `UidTable_proofs` proves, for any set of slots, that `vchain_append` and
`Unlink` keep every bucket a doubly linked list of exactly its slots: what the
operation leaves in each chain (`AppendEffect`, `UnlinkEffect`), then that it is well
linked. That no key is stored twice is not inductive alone: it needs to know that a
search has left behind no slot with its key (`SearchExact`), and that this stays so
while the search stands still, because nobody else is in the chain (`MutexHeld`,
`ThreadsOK`). That an entry has one owner needs that an address is not allocated yet
when a thread comes to use it (`AddressesFresh`), and what main holds between two
steps on a slot (`MainItemOK`). `RestWellLinked` and `MainSlotOK` are what is left of
the chains while `vchain_clear` takes them apart.

The counters have an invariant of their own over `IndInv`, `CountInv`. A printed total
is right at the end of main's loop only because the loop's tally is right in its
middle: `LoopsExact` says that it is the number of slots behind main's cursor, and of
the filter that no slot it has passed is below the bound. Each step then moves one
slot from before the cursor to behind it. The refinement goes thread by thread: `Op(t)`
is the operation that thread `t` has in hand, so that a step of `t` changes one place
of the abstract `op`, and either the map (the append, the pop) or nothing; that the key
was absent or present is `SearchExact` again. Main's filter and clear remove one key
at a time.

**Queue and stack.** Between `push`'s test of the capacity and its `size++` there are
four steps; that the test still holds at the end, that the node in hand is the new tail
and that a pop takes an end of the chain follow from one thread being past the mutex
(`OneInside`), what it has in its hands (`InHand`), and nodes being linked in the order
of their addresses without one between (`NoneBetween`). For the refinement the stored
items are a sequence by the place of their nodes (`Rank`, the number of stored nodes up
to one); taking the first shifts every place by one, appending shifts none.
`NoResultYet` says that a call without effect has no result.

**Table.** A chain is a function on 1 .. n, the elements in order, that the header and
the links of the elements agree with (`Chain`); the lists are one chain (`ListChain`)
and the nodes are on one chain for each list, none on two (`NodeChains`). Each operation
of table.c is shown to put an element at an end of a chain or to take one out of it, and
to leave the other chains alone (`PushRChain`, `PushLChain`, `DropChain`, `KeepChain`).
`Find` and `Right` follow the links by recursion: that they have a value is shown from
the end of the chain backwards (`Backwards`), since every element is on a chain
(`SuffixesExist`). The rest of `IndInv` says who works where: one thread is in the
mutex, an empty list is in the hands of that thread (`EmptyHeld`), the cursor is not at
the list about to be freed (`Placed`), and a thread that counts without the mutex stands
at a live list because only itself may get (`NoDanglingList`, CountersAssumption).

What the users of the table rely on over several calls has an invariant over `IndInv`,
`TurnInv`. The lists are linked in the order of their numbers (`Ascending`), so that a
list is before the cursor or ahead of it, and a list that waits comes sooner than each
list served while it waited (`PassedSooner`). After a miss the cursor is at a list
(`MissedOnce`). Of the count, `SumsBetween` says that the sum is no more than the nodes
of the lists already passed, and that what there was at the call is in the sum or in
the lists still to come; a put of another thread only adds to either (`Grown`).

For the refinement the variables of `Turns` are functions of the table's chains:
`FilledIn` is the chain of lists without the one empty list there may be (`AllFilled`,
`OneEmpty`), `QueuesOn` and `TurnOn` read keys, items and the cursor's place off it.
`Serving` says what `IndInv` leaves open: the cursor's list has items, a thread holds
an item only between the get that took it and the return, and a thread that is about to
push holds what its search promised, the first list with its key or a new and empty one
at the end (`Searched`), although other threads run between the search and the push.
A put takes effect in `PutNode`, at the end or the front of a queue that was there
(`PutKnown`) or as a queue of its own (`PutFresh`); a get takes effect in `GetTake`,
where the queue loses its first item (`TakeSome`) or goes with its last (`TakeLast`), and
in `GetTurn` if it goes without one. The unlink of an emptied list shows nothing
(`DropShown`), and neither does any other step.

**List.** The chain is a function on 1 .. size again, which the links agree with in both
directions; an insertion puts the new node at a place (`InsertChain`), a deletion takes
the one at its place out (`DropChain`). `searchFalse`, `searchFrom` and `Passing` are
recursive functions: that each has a value, and that it is the first node of its kind
in its direction, is shown from the end of the walk backwards (`WalkStops`). So the place
of an insertion is behind all that come before the item and before all that do not
(`PlaceFor`), and the list stays sorted. For the loops, `LoopSound` says that what is
ahead of the cursor is not among the visited, that what the loop owes is all ahead, and
that the node it may delete has been visited, hence is not the cursor's. An insertion or
a deletion in the middle of the loop changes nothing of what comes before what among the
other nodes (`InsertBefore`, `DropBefore`). One thread holds the lock (`Exclusive`), so
the loop in progress is one.

**Tree.** The shape is three numbers for each node, its place in the order of travel and
the first and the last place of the subtree below it, which the links agree with in both
directions (`Tree`): a left child has the places from its parent's first to the one
before its parent, a right child those from the one after it on. So a step to a child
or to a parent shortens or widens an interval, and each walk of vutil.c, a recursive
function, is seen to have a value and to come to a place (`GoesExists`, and by
induction on a number `ByRank`): `vtree_next` to the next place, `vtree_search` to the
value if it is anywhere, `ParentFor` to a side that is free and between the places of
the values not above and not below. An insertion makes room at a place (`HungTree`), the
removal of a node with one child at most closes up its place (`SplicedTree`), and the
order of the other nodes stays (`SameOrder`). The node that a deletion frees is at the
place of the one asked for, or at the place before it, whose item moves on by one place
(`DeleteTree`), so the places behind the node a loop deletes are untouched. `LoopSound`
is as for the list. The hypothesis `OneUser` is what the code needs: its lock keeps
nobody out (`tree_lock`), and a deletion in a loop from the last node may free the node
the cursor stands on. There is no bound on the values, the insertions or the nodes.

**Hash map.** The stack of calls in progress is what is hard: `Nested` says that each
call but the first puts the element at which the one below it has stopped, and `Apart`
that no key is in two places, in the table or in what any of the calls has still to
move. So a moved element is new to the table and its slot free, and a put from outside
replaces at most its own key's element. `Placed` says that an element is within its
key's chain and, for a caller that overwrites, that no free slot is before it; it
follows that a search ends at it. `Apart` and `Placed` are lost, as is `Findable`, when
a caller puts keys again and removes, so they are required for the other callers only;
`HalfFree` and `Nested` hold for all. In the refinement a put from outside changes the
abstract map when its element is stored; doubling, moving and coming back change
nothing, because what is held is the table's elements and those that wait in a frame's
old table; without memory the frames are gone and what waited is lost. That
`hashmap_iterate` visits each key once needs the slots in use numbered by their order,
every number taken (`PlacesTaken`).

**Message queue.** That a receive which finds nothing has overlooked nothing is
proved from what it had seen when it was called: while `MQ_pop` is on its way, what was
in the queue then is received, dropped or still in the queue it looks into (`InSight`);
an `MQ_recv` whose queue is there looks into the key's queue, because an identifier
names that or nothing (`OneQueue`). Order needs that what waits is later than what its
sender's messages were that have been received (`Later`), and that messages are
numbered by calls (`Numbered`), so that the message of a call in progress has not been
sent (`OwnNumber`), which is also why a failed send leaves none behind. That a send which
fails has lost its queue for good is `OneQueue` again: a removed identifier does not
come back.

**Log.** What has to be shown of a rename is what it replaces (`ReplacedFull`). A backup
of the name that the next one would have is full, or of second 0 and an earlier run
(`BackupInv`): a second passes from being `lastTs` when a later line is printed, and
within its second a file is renamed only if it is full, since a phase that falls needs
a later second (`BackupName`). No line is older than the name of the last backup, nor
later than `lastTs`, so the successor's lines are of that second. The test of one step
is used in the steps after it: `StepInv` says that it still holds there, because the
path can only be cleared while a thread prints. `Rotated` needs that `lastTs` is the
time of the line before (`RecentInv`), and that two times in increasing phase less than
a period apart are of one period (`SamePeriod`). No bound on lines, time or restarts is
used but as a number.

Model-checked only: everything about the texts; `Termination` and `PutReturns`, which
are liveness under fairness and so beyond the prover. `VCrypto` uses the bitwise
operators, which the prover cannot load, and what its functions compute by recursion
is out of the prover's reach in any case: the library's induction theorems take an
operator as a parameter, which the installed provers cannot instantiate. Where a
proof here needs a least element or a count, it takes it from the theorems on finite
sets (`NatMin`, `PlacesTaken`).

## Findings

`vtree_lock` calls the function that unlocks (`vutil.c:1913`), so that nothing keeps
two threads apart between `lock` and `unlock` of a tree (`tree_lock`). The line it
replaced, commented out at `vutil.c:1914`, locked; `vlist_lock` does.

`hashmap_hash` gives a put the first slot of the chain that is free or the key's own
(`hashmap.c:205-213`). After a removal has left a free slot before a key's own, a put
of the key goes there and the key is in the table twice; `hashmap_remove`, which is to
"remove an element with that key from the map" (`hashmap.c:349`), takes one of the two,
and `hashmap_get` then finds the other, with its older value (`hash_map_remove`).

`to_int32` joins four `char`s, which are signed with the usual compilers for x86,
into a word (`vcrypto.c:213-219`): a byte of 128 or more sets all bits above its own.
The bit put behind the text is such a byte, so that the digest is not MD5's unless the
length of the text is 3 modulo 4 and the text has no other such byte in the first
three of a word; the text of the disabled test (`vcrypto.c:327`) has 43 bytes
(`crypto_words`).

## Not modelled

Of the modelled components: two processes that print to one path (between `open` and
`creat` in `fd_open`, `vutil.c:933`, each may truncate the other's file); the removal of
colour codes and the formats of the log; the numbers of `MQ_stat` and `MQ_info`, which
without a queue are whatever is in memory (`mq.c:135`); `SetUTD` and the strings of
`mq.c`; the rounds of MD5 and AES; `uidFind`, which only code under `#if 0` calls and which would read
the table without its lock (`main.c:98`); `vrandom`, whose first call may seed twice
when two threads make it (`vutil.c:1064`) and whose numbers are arbitrary here.

`VTimer`, `VLock`, formatting and parsing wrap the C library; `HttpStatus` is a table;
`vmem` and `vlist2` are stubs; `sample.c` is read for how the list and the tree are
used.
