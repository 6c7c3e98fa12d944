------------------------------ MODULE MessageQueue ------------------------------
(***************************************************************************)
(* mq.c: processes that share a System V message queue under one key, by   *)
(* its two interfaces.  The old one opens the queue once (MQ_init) and     *)
(* keeps its identifier over the calls; the new one asks for the           *)
(* identifier in each call, which creates the queue if need be.            *)
(*                                                                         *)
(* A message is a record: its sender, a number, and its type.              *)
(***************************************************************************)
EXTENDS Integers, Sequences, FiniteSets, SequencesExt

CONSTANTS
    Procs,
    CallsOf,     \* [Procs -> the functions of mq.c each of them calls]
    Calls,       \* [Procs -> Nat]: bound on their calls
    Capacity,    \* the messages a queue holds: msg_qbytes of one size
    MaxIds       \* bound on the queues created

NewCalls == {"MQ_push", "MQ_send_bykey", "MQ_pop", "MQ_kill", "MQ_info"}
OldCalls == {"MQ_send", "MQ_recv", "MQ_clear", "MQ_deinit", "MQ_stat"}
Opens    == {"MQ_init create", "MQ_init"}
Sends    == {"MQ_push", "MQ_send_bykey", "MQ_send"}
Receives == {"MQ_pop", "MQ_recv"}

ASSUME CallsAssumption ==
    /\ CallsOf \in [Procs -> SUBSET (NewCalls \cup OldCalls \cup Opens)]
    /\ Calls \in [Procs -> Nat] /\ MaxIds \in Nat /\ Capacity \in Nat \ {0}

VARIABLES
    queues,     \* the kernel's queues: [identifiers -> messages]
    named,      \* the identifier of the key, or NoId
    created,    \* the number of queues created; identifiers are not reused
    mqid,       \* the identifier each process keeps from MQ_init
    id,         \* the one its running or last call uses: an argument of the
                \* old interface, the local mqid of the new one
    call,       \* the function each process is in, or "none"
    ret,        \* what each process's last call returned, and errno
    calls,      \* the calls each process has begun
    sent, got, dropped,   \* history: messages accepted, in the order of
                          \* their reception, and thrown away
    before      \* history: the messages accepted before each process's receiving call

kernel == <<queues, named, created>>
history == <<sent, got, dropped>>
vars == <<kernel, mqid, id, call, ret, calls, history, before>>

NoId  == -1
Fail  == -1

(* "EIDRM" stands for EINVAL too, which tells of an identifier that is no  *)
(* longer there, and "other" for every failure that the model gives no     *)
(* cause: a signal, no memory, no permission, no identifiers.              *)
Errors == {"none", "ENOMSG", "EAGAIN", "EIDRM", "other"}

Returned(c, r, e) == [of |-> c, value |-> r, errno |-> e]
NoRet             == Returned("none", 0, "none")

Init ==
    /\ queues = [q \in {} |-> <<>>] /\ named = NoId /\ created = 0
    /\ mqid = [p \in Procs |-> NoId] /\ id = [p \in Procs |-> NoId]
    /\ call = [p \in Procs |-> "none"]
    /\ ret = [p \in Procs |-> NoRet]
    /\ calls = [p \in Procs |-> 0]
    /\ sent = {} /\ got = <<>> /\ dropped = {}
    /\ before = [p \in Procs |-> {}]

------------------------------------------------------------------------------
(* The kernel. *)

Exists(q) == q \in DOMAIN queues

(* msgget with IPC_CREAT. *)
GetOrCreate(q) ==
    \/ named # NoId /\ q = named /\ UNCHANGED kernel
    \/ /\ named = NoId /\ created < MaxIds
       /\ q = created + 1
       /\ created' = q /\ named' = q
       /\ queues' = [i \in DOMAIN queues \cup {q} |-> IF i = q THEN <<>> ELSE queues[i]]

(* It may fail, with -1. *)
msgget(q) ==
    \/ q \in 1 .. MaxIds /\ GetOrCreate(q)
    \/ q = NoId /\ UNCHANGED kernel

(* The first message of a type in a queue, if there is one. *)
OfType(q, type) == {i \in DOMAIN queues[q] : queues[q][i].type = type}

(* IPC_RMID: the messages are gone, and whoever waits is woken. *)
RemoveQueue(q) ==
    /\ queues' = [i \in DOMAIN queues \ {q} |-> queues[i]]
    /\ named' = NoId
    /\ dropped' = dropped \cup Range(queues[q])
    /\ UNCHANGED <<created, sent, got>>

------------------------------------------------------------------------------
Begin(p, c) ==
    /\ call[p] = "none" /\ c \in CallsOf[p] /\ calls[p] < Calls[p]
    /\ calls' = [calls EXCEPT ![p] = @ + 1]
    /\ before' = [before EXCEPT ![p] = IF c \in Receives THEN sent ELSE {}]

Return(p, r, e) ==
    /\ call' = [call EXCEPT ![p] = "none"]
    /\ ret' = [ret EXCEPT ![p] = Returned(call[p], r, e)]
    /\ UNCHANGED <<mqid, id, calls, before>>

(* MQ_init: without IPC_CREAT it fails if there is no queue. *)
MQ_init(p) ==
    \/ /\ Begin(p, "MQ_init create")
       /\ \E q \in 1 .. MaxIds \cup {NoId} : msgget(q) /\ mqid' = [mqid EXCEPT ![p] = q]
       /\ ret' = [ret EXCEPT ![p] = NoRet]
       /\ UNCHANGED <<id, call, history>>
    \/ /\ Begin(p, "MQ_init")
       /\ \E q \in {named, NoId} : mqid' = [mqid EXCEPT ![p] = q]
       /\ ret' = [ret EXCEPT ![p] = NoRet]
       /\ UNCHANGED <<kernel, id, call, history>>

(* MQ_getid, at the beginning of each function of the new interface, and   *)
(* MQ_init at the beginning of MQ_send_bykey: the identifier is a local of *)
(* the function, which returns at once if it is negative.                  *)
MQ_getid(p) ==
    \E c \in NewCalls, q \in 1 .. MaxIds \cup {NoId} :
        /\ Begin(p, c)
        /\ msgget(q) /\ id' = [id EXCEPT ![p] = q]
        /\ IF q = NoId
           THEN ret' = [ret EXCEPT ![p] = Returned(c, Fail, "other")] /\ UNCHANGED call
           ELSE ret' = [ret EXCEPT ![p] = NoRet] /\ call' = [call EXCEPT ![p] = c]
        /\ UNCHANGED <<mqid, history>>

(* The functions of the old interface begin with the identifier they are   *)
(* given.                                                                  *)
GivenId(p) ==
    \E c \in OldCalls :
        /\ Begin(p, c)
        /\ id' = [id EXCEPT ![p] = mqid[p]]
        /\ call' = [call EXCEPT ![p] = c]
        /\ ret' = [ret EXCEPT ![p] = NoRet]
        /\ UNCHANGED <<kernel, mqid, history>>

(* What the kernel, or MQ_send, MQ_recv and MQ_clear for a negative        *)
(* identifier, report of a queue that is not there.                        *)
NoQueue(q) == IF q = NoId THEN "none" ELSE "EIDRM"

(* Any other failure of msgsnd, msgrcv or msgctl, which is what the call   *)
(* returns: a sender that waits is interrupted by a signal, for example.   *)
KernelFails(p) ==
    /\ call[p] # "none" /\ id[p] # NoId
    /\ Return(p, Fail, "other")
    /\ UNCHANGED <<kernel, history>>

(* Mutant: the caller's own type is kept. *)
TypeKept(p) == calls[p]

(* What a sender writes over the caller's type. *)
mtype(p) == 1

Message(p) == [from |-> p, n |-> calls[p], type |-> mtype(p)]

(* Mutant: IPC_NOWAIT, the alternative under #if 0. *)
HasToWaitNever(q) == FALSE

(* A sender waits for room; it is woken by the queue's removal. *)
HasToWait(q) == Exists(q) /\ Len(queues[q]) >= Capacity

(* msgsnd: it fails without a queue. *)
Send(p) ==
    LET q == id[p]
    IN  /\ call[p] \in Sends /\ ~HasToWait(q)
        /\ IF Exists(q) /\ Len(queues[q]) < Capacity
           THEN /\ queues' = [queues EXCEPT ![q] = Append(@, Message(p))]
                /\ sent' = sent \cup {Message(p)}
                /\ Return(p, 0, "none")
                /\ UNCHANGED <<named, created, got, dropped>>
           ELSE /\ Return(p, Fail, IF Exists(q) THEN "EAGAIN" ELSE NoQueue(q))
                /\ UNCHANGED <<kernel, history>>

Blank == [from |-> "nobody", n |-> 0, type |-> 0]

(* Mutant: the buffer is cleared after the call, not before it. *)
BufferCleared(m) == Blank

(* The buffer is cleared and then filled by msgrcv. *)
Buffer(m) == m

(* msgrcv with IPC_NOWAIT takes the first message of type 1; MQ_clear      *)
(* takes one in the same way and throws it away.                           *)
Receive(p) ==
    LET q == id[p]
    IN  /\ call[p] \in Receives \cup {"MQ_clear"}
        /\ IF Exists(q) /\ OfType(q, 1) # {}
           THEN LET i == CHOOSE i \in OfType(q, 1) : \A j \in OfType(q, 1) : i <= j
                    m == queues[q][i]
                IN  /\ queues' = [queues EXCEPT ![q] = RemoveAt(@, i)]
                    /\ IF call[p] = "MQ_clear"
                       THEN dropped' = dropped \cup {m} /\ UNCHANGED got
                       ELSE got' = Append(got, Buffer(m)) /\ UNCHANGED dropped
                    /\ Return(p, 0, "none")
                    /\ UNCHANGED <<named, created, sent>>
           ELSE /\ Return(p, Fail, IF Exists(q) THEN "ENOMSG" ELSE NoQueue(q))
                /\ UNCHANGED <<kernel, history>>

(* msgctl with IPC_RMID *)
MQ_kill(p) ==
    /\ call[p] \in {"MQ_kill", "MQ_deinit"}
    /\ IF Exists(id[p])
       THEN RemoveQueue(id[p]) /\ Return(p, 0, "none")
       ELSE Return(p, Fail, "EIDRM") /\ UNCHANGED <<kernel, history>>

(* msgctl with IPC_STAT: without a queue the numbers are whatever is in    *)
(* memory.                                                                 *)
Stat(p) ==
    /\ call[p] \in {"MQ_info", "MQ_stat"}
    /\ IF Exists(id[p]) THEN Return(p, 0, "none") ELSE Return(p, Fail, "EIDRM")
    /\ UNCHANGED <<kernel, history>>

(* Everybody has made all calls. *)
Ended ==
    /\ \A p \in Procs : call[p] = "none" /\ calls[p] = Calls[p]
    /\ UNCHANGED vars

Next ==
    \/ \E p \in Procs : \/ MQ_init(p) \/ MQ_getid(p) \/ GivenId(p) \/ KernelFails(p)
                        \/ Send(p) \/ Receive(p) \/ MQ_kill(p) \/ Stat(p)
    \/ Ended

Spec == Init /\ [][Next]_vars
------------------------------------------------------------------------------
(* Correctness. *)

InQueues == UNION {Range(queues[q]) : q \in DOMAIN queues}

Ascending(s) ==
    \A i, j \in DOMAIN s : i < j /\ s[i].from = s[j].from => s[i].n < s[j].n

(* The type invariant of the kernel's queues and the processes, checked    *)
(* with Delivered.                                                         *)
TypeOK ==
    /\ DOMAIN queues \subseteq 1 .. created /\ created \in 0 .. MaxIds
    /\ \A q \in DOMAIN queues : Len(queues[q]) <= Capacity
    /\ named = NoId \/ Exists(named)
    /\ mqid \in [Procs -> 1 .. MaxIds \cup {NoId}] /\ id \in [Procs -> 1 .. MaxIds \cup {NoId}]
    /\ call \in [Procs -> NewCalls \cup OldCalls \cup {"none"}]
    /\ \A p \in Procs : calls[p] \in 0 .. Calls[p]

(* Every message that a send has reported as sent is received once, or     *)
(* waits in a queue, or went with a queue that was removed or with         *)
(* MQ_clear; and the messages of one sender are received in the order they *)
(* were sent, whoever receives them and through whichever interface, over  *)
(* removals and new queues of the same key (mq.c:110-220).                 *)
Delivered ==
    /\ TypeOK
    /\ sent = Range(got) \cup dropped \cup InQueues
    /\ Range(got) \cap dropped = {} /\ InQueues \cap (Range(got) \cup dropped) = {}
    /\ Ascending(got) /\ \A q \in DOMAIN queues : Ascending(queues[q])

(* When MQ_pop or MQ_recv finds no message (ENOMSG), or MQ_pop no queue    *)
(* (EIDRM), all messages that had been sent before it was called have been *)
(* received or dropped: nothing that is there is overlooked.  An MQ_recv   *)
(* whose kept identifier is of a removed queue reports EIDRM for ever, and *)
(* does overlook what waits in the key's new queue; and a -1 for another   *)
(* reason says nothing (mq.c:119, 141-150, 194, 199-208).                  *)
NothingOverlooked ==
    \A p \in Procs :
        ret[p].of \in Receives
        /\ (ret[p].errno = "ENOMSG" \/ (ret[p].of = "MQ_pop" /\ ret[p].errno = "EIDRM"))
        => before[p] \subseteq Range(got) \cup dropped

(* The message of a call that reports success was put into a queue, and    *)
(* that of one that reports failure was not, so that trying again makes no *)
(* duplicate.  A send never fails for want of room: it waits, and fails    *)
(* only if its queue is gone, for good, or for a reason outside the model, *)
(* such as a signal (mq.c:101-108, 110-127, 187-197).                      *)
SendReported ==
    \A p \in Procs : ret[p].of \in Sends =>
        /\ ret[p].value = 0 <=> Message(p) \in Range(got) \cup dropped \cup InQueues
        /\ ret[p].value = Fail /\ ret[p].errno # "other" => ~Exists(id[p])

------------------------------------------------------------------------------
(* Why they hold. *)

Messages == [from : Procs, n : Nat, type : {1}]

Returns  == [of : NewCalls \cup OldCalls \cup {"none"}, value : {0, Fail}, errno : Errors]

Typed ==
    /\ created \in Nat
    /\ queues \in [DOMAIN queues -> Seq(Messages)]
    /\ got \in Seq(Messages) /\ sent \subseteq Messages
    /\ calls \in [Procs -> Nat]
    /\ ret \in [Procs -> Returns]
    /\ before \in [Procs -> SUBSET sent]

(* The key's queue is the only one, and nobody knows an identifier that    *)
(* will be given.                                                          *)
OneQueue ==
    /\ DOMAIN queues = IF named = NoId THEN {} ELSE {named}
    /\ \A p \in Procs : {mqid[p], id[p]} \subseteq 1 .. created \cup {NoId}

(* A message is numbered by the call that sends it, once.                  *)
Numbered ==
    \A m \in sent :
        /\ m.n <= calls[m.from]
        /\ call[m.from] # "none" => m.n < calls[m.from]

(* What waits was sent after whatever of the same sender has been received.*)
Later ==
    \A x \in Range(got), y \in InQueues : x.from = y.from => x.n < y.n

(* While MQ_pop is on its way, what was there before it is in the queue it *)
(* looks into, or gone.                                                    *)
InSight ==
    \A p \in Procs :
        call[p] = "MQ_pop" => before[p] \subseteq Range(got) \cup dropped \cup
                                (IF Exists(id[p]) THEN Range(queues[id[p]]) ELSE {})

(* The inductive invariant: a removed queue does not come back, so that a  *)
(* kept identifier is the queue of the key or of nothing.                  *)
IndInv ==
    /\ Delivered /\ NothingOverlooked /\ SendReported
    /\ Typed /\ OneQueue /\ Numbered /\ Later /\ InSight
===============================================================================
