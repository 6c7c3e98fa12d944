--------------------------- MODULE MessageQueue_proofs ---------------------------
(* mq.c keeps its promises for any number of processes, calls and queues   *)
(* and any capacity.  IndInv is the inductive invariant.                   *)
EXTENDS MessageQueue, SequenceTheorems, TLAPS

(* Messages in a sequence. *)

LEMMA AppendFacts ==
    ASSUME NEW s \in Seq(Messages), NEW m \in Messages
    PROVE  /\ Append(s, m) \in Seq(Messages) /\ Len(Append(s, m)) = Len(s) + 1
           /\ Range(Append(s, m)) = Range(s) \cup {m}
           /\ Ascending(s) /\ (\A x \in Range(s) : x.from = m.from => x.n < m.n)
                => Ascending(Append(s, m))
<1> DEFINE a == Append(s, m)
<1>1. /\ a \in Seq(Messages) /\ Len(s) \in Nat /\ Len(a) = Len(s) + 1 /\ a[Len(s) + 1] = m
      /\ \A i \in 1 .. Len(s) : a[i] = s[i]
  OBVIOUS
<1>2. DOMAIN s = 1 .. Len(s) /\ DOMAIN a = 1 .. Len(s) + 1
  BY <1>1
<1> HIDE DEF a
<1>3. Range(a) = Range(s) \cup {m}
  BY <1>1, <1>2 DEF Range
<1>4. ASSUME Ascending(s), \A x \in Range(s) : x.from = m.from => x.n < m.n
      PROVE  Ascending(a)
  BY <1>1, <1>2, <1>4 DEF Ascending, Range
<1> QED
  BY <1>1, <1>3, <1>4 DEF a

(* The first message taken out: the others stay in their order, and were   *)
(* sent after it if by the same sender.                                    *)
LEMMA FirstOut ==
    ASSUME NEW s \in Seq(Messages), s # <<>>, Ascending(s)
    PROVE  /\ s[1] \in Messages /\ s[1] \in Range(s)
           /\ RemoveAt(s, 1) \in Seq(Messages) /\ Len(RemoveAt(s, 1)) = Len(s) - 1
           /\ Range(s) = {s[1]} \cup Range(RemoveAt(s, 1)) /\ s[1] \notin Range(RemoveAt(s, 1))
           /\ Ascending(RemoveAt(s, 1))
           /\ \A x \in Range(RemoveAt(s, 1)) : x.from = s[1].from => s[1].n < x.n
<1> DEFINE r == RemoveAt(s, 1)
<1>1. Len(s) \in Nat /\ Len(s) >= 1 /\ DOMAIN s = 1 .. Len(s)
  BY EmptySeq
<1>2. r = Tail(s)
  <2>1. SubSeq(s, 1, 1 - 1) = <<>>
    BY SubSeqEmpty
  <2>2. Tail(s) \in Seq(Messages) /\ SubSeq(s, 1 + 1, Len(s)) = Tail(s)
    BY HeadTailProperties, TailIsSubSeq
  <2>3. <<>> \o Tail(s) = Tail(s)
    BY <2>2, ConcatEmptySeq
  <2> QED
    BY <2>1, <2>2, <2>3 DEF RemoveAt
<1>3. r \in Seq(Messages) /\ Len(r) = Len(s) - 1 /\ \A i \in 1 .. Len(s) - 1 : r[i] = s[i + 1]
  BY <1>2, HeadTailProperties
<1>4. DOMAIN r = 1 .. Len(s) - 1
  BY <1>1, <1>3
<1> HIDE DEF r
<1>5. \A i \in DOMAIN r : r[i] = s[i + 1] /\ i + 1 \in DOMAIN s /\ 1 < i + 1 /\ 1 \in DOMAIN s
  BY <1>1, <1>3, <1>4
<1>6. s[1] \in Messages /\ s[1] \in Range(s)
  BY <1>1, ElementOfSeq DEF Range
<1>7. \A x \in Range(r) : x \in Range(s) /\ (x.from = s[1].from => s[1].n < x.n)
  BY <1>5 DEF Range, Ascending
<1>8. \A i \in DOMAIN s : i = 1 \/ (i - 1 \in DOMAIN r /\ s[i] = r[i - 1])
  BY <1>1, <1>3, <1>4
<1>9. Range(s) = {s[1]} \cup Range(r)
  <2>1. ASSUME NEW i \in DOMAIN s PROVE s[i] \in {s[1]} \cup Range(r)
    BY <1>8 DEF Range
  <2>2. Range(s) \subseteq {s[1]} \cup Range(r)
    BY <2>1 DEF Range
  <2> QED
    BY <1>6, <1>7, <2>2
<1>10. s[1] \notin Range(r)
  BY <1>6, <1>7 DEF Messages
<1>11. Ascending(r)
  BY <1>1, <1>3, <1>4, <1>5 DEF Ascending
<1> QED
  BY <1>3, <1>6, <1>7, <1>9, <1>10, <1>11 DEF r

(* The messages that wait are those of the key's queue. *)
Waiting ==
    /\ named = NoId => DOMAIN queues = {} /\ InQueues = {}
    /\ named # NoId => DOMAIN queues = {named} /\ InQueues = Range(queues[named])
    /\ \A q : Exists(q) => q = named /\ named # NoId
    /\ \A q : Exists(q) => InQueues = Range(queues[q])

LEMMA WaitingFacts == OneQueue => Waiting
BY DEF OneQueue, Waiting, InQueues, Exists

LEMMA WaitingFactsNext == OneQueue' => Waiting'
BY WaitingFacts, PTL

(* What SendReported says, with all the messages accepted in one set. *)
Reported ==
    \A p \in Procs : ret[p].of \in Sends =>
        /\ ret[p].value = 0 <=> Message(p) \in sent
        /\ ret[p].value = Fail /\ ret[p].errno # "other" => ~Exists(id[p])

LEMMA ReportedFacts == Delivered => (SendReported <=> Reported)
BY DEF Delivered, SendReported, Reported

LEMMA ReportedFactsNext == Delivered' => (SendReported' <=> Reported')
BY ReportedFacts, PTL

(* A call's message is numbered as no other that was sent. *)
LEMMA OwnNumber ==
    ASSUME Typed, Numbered, NEW p \in Procs, call[p] # "none"
    PROVE  Message(p) \notin sent
<1>1. Message(p).from = p /\ Message(p).n = calls[p] /\ calls[p] \in Nat
  BY DEF Message, Typed
<1>2. \A m \in sent : m.from = p => m.n < calls[p]
  BY DEF Numbered
<1> QED
  BY <1>1, <1>2

LEMMA InitInvariant == Init => IndInv
<1> SUFFICES ASSUME Init PROVE IndInv
  OBVIOUS
<1> USE DEF Init
<1>1. DOMAIN queues = {} /\ InQueues = {} /\ Range(got) = {}
  BY DEF InQueues, Range
<1>2. TypeOK /\ Typed
  BY <1>1, CallsAssumption DEF TypeOK, Typed, NoId, NoRet, Returned, Returns, Errors, NewCalls, OldCalls
<1>3. Delivered
  BY <1>1, <1>2 DEF Delivered, Ascending
<1>4. NothingOverlooked /\ SendReported
  BY DEF NothingOverlooked, SendReported, Receives, Sends, NoRet, Returned
<1> QED
  BY <1>1, <1>2, <1>3, <1>4 DEF IndInv, OneQueue, Numbered, Later, InSight

------------------------------------------------------------------------------
(* The steps. *)

(* The kernel as a call finds it, or with a new and empty queue. *)
KernelKept ==
    /\ InQueues' = InQueues
    /\ \A q \in DOMAIN queues : q \in DOMAIN queues' /\ queues'[q] = queues[q]
    /\ \A q \in DOMAIN queues' : q \in DOMAIN queues \/ (q = created + 1 /\ queues'[q] = <<>>)
    /\ created \in Nat /\ created' \in Nat /\ created <= created' /\ created' \in 0 .. MaxIds
    /\ DOMAIN queues' = IF named' = NoId THEN {} ELSE {named'}
    /\ DOMAIN queues' \subseteq 1 .. created'
    /\ queues' = [q \in DOMAIN queues' |-> queues'[q]]

LEMMA KernelSame ==
    ASSUME IndInv, UNCHANGED kernel
    PROVE  KernelKept
BY DEF IndInv, Delivered, TypeOK, OneQueue, Typed, KernelKept, kernel, InQueues

LEMMA KernelGot ==
    ASSUME IndInv, NEW q \in 1 .. MaxIds, GetOrCreate(q)
    PROVE  KernelKept /\ q \in 1 .. created' /\ q = named' /\ Exists(q)'
<1>0. /\ OneQueue /\ created \in Nat /\ created \in 0 .. MaxIds /\ MaxIds \in Nat
      /\ DOMAIN queues \subseteq 1 .. created /\ (named = NoId \/ named \in DOMAIN queues)
  BY CallsAssumption DEF IndInv, Delivered, TypeOK, Typed, Exists
<1>1. CASE named # NoId /\ q = named /\ UNCHANGED kernel
  BY <1>0, <1>1, KernelSame DEF kernel, Exists
<1>2. CASE named = NoId /\ created < MaxIds /\ q = created + 1 /\ created' = q /\ named' = q
           /\ queues' = [i \in DOMAIN queues \cup {q} |-> IF i = q THEN <<>> ELSE queues[i]]
  <2>1. DOMAIN queues = {} /\ DOMAIN queues' = {q} /\ queues'[q] = <<>>
    BY <1>0, <1>2 DEF OneQueue
  <2>2. InQueues = {} /\ InQueues' = {}
    BY <2>1 DEF InQueues, Range
  <2>3. q # NoId /\ q \in Nat
    BY <1>0, <1>2 DEF NoId
  <2> QED
    BY <1>0, <1>2, <2>1, <2>2, <2>3 DEF KernelKept, Exists
<1> QED
  BY <1>1, <1>2 DEF GetOrCreate

(* What the beginning of a call changes beside the kernel. *)
Begun(p) ==
    /\ KernelKept
    /\ UNCHANGED history
    /\ call[p] = "none" /\ calls[p] < Calls[p]
    /\ calls' = [calls EXCEPT ![p] = @ + 1]
    /\ before' \in [Procs -> SUBSET sent] /\ \A u \in Procs \ {p} : before'[u] = before[u]
    /\ ret' \in [Procs -> Returns] /\ ret'[p].errno \in {"none", "other"}
    /\ ret'[p].of \in Sends => ret'[p].value = Fail /\ ret'[p].errno = "other"
    /\ call' \in [Procs -> NewCalls \cup OldCalls \cup {"none"}]
    /\ \A u \in Procs \ {p} : /\ call'[u] = call[u] /\ ret'[u] = ret[u]
                              /\ mqid'[u] = mqid[u] /\ id'[u] = id[u]
    /\ mqid' \in [Procs -> 1 .. MaxIds \cup {NoId}] /\ id' \in [Procs -> 1 .. MaxIds \cup {NoId}]
    /\ {mqid'[p], id'[p]} \subseteq 1 .. created' \cup {NoId}
    /\ call'[p] = "MQ_pop" => before'[p] = sent /\ id'[p] \in DOMAIN queues'

LEMMA KernelAsked ==
    ASSUME IndInv, NEW q, msgget(q)
    PROVE  KernelKept /\ q \in 1 .. created' \cup {NoId} /\ q \in 1 .. MaxIds \cup {NoId}
             /\ (q # NoId => q \in DOMAIN queues')
<1>1. CASE q \in 1 .. MaxIds /\ GetOrCreate(q)
  BY <1>1, KernelGot DEF Exists
<1>2. CASE q = NoId /\ UNCHANGED kernel
  BY <1>2, KernelSame
<1> QED
  BY <1>1, <1>2 DEF msgget

LEMMA EmptyReturn ==
    /\ NoRet \in Returns /\ NoRet.errno = "none" /\ NoRet.of = "none" /\ "none" \notin Sends
    /\ \A c \in NewCalls :
          /\ Returned(c, Fail, "other") \in Returns /\ Returned(c, Fail, "other").errno = "other"
          /\ Returned(c, Fail, "other").value = Fail
BY DEF NoRet, Returned, Returns, Errors, Sends

LEMMA BegunFacts ==
    ASSUME IndInv, NEW p \in Procs, MQ_init(p) \/ MQ_getid(p) \/ GivenId(p)
    PROVE  Begun(p)
<1> DEFINE Ids == 1 .. MaxIds \cup {NoId}
<1>0. /\ mqid \in [Procs -> Ids] /\ id \in [Procs -> Ids] /\ before \in [Procs -> SUBSET sent]
      /\ call \in [Procs -> NewCalls \cup OldCalls \cup {"none"}] /\ ret \in [Procs -> Returns]
      /\ named = NoId \/ named \in 1 .. created
      /\ created \in Nat /\ created <= MaxIds /\ MaxIds \in Nat
      /\ {mqid[p], id[p]} \subseteq 1 .. created \cup {NoId}
  BY CallsAssumption DEF IndInv, Delivered, TypeOK, Typed, OneQueue, Exists
<1>1. ASSUME NEW c \in NewCalls \cup OldCalls \cup Opens, Begin(p, c)
      PROVE  /\ call[p] = "none" /\ calls[p] < Calls[p]
             /\ calls' = [calls EXCEPT ![p] = @ + 1]
             /\ before' \in [Procs -> SUBSET sent] /\ \A u \in Procs \ {p} : before'[u] = before[u]
             /\ c = "MQ_pop" => before'[p] = sent
  BY <1>0, <1>1 DEF Begin, Receives
<1>2. KernelKept => 1 .. created \subseteq 1 .. created'
  BY DEF KernelKept
<1>3. CASE MQ_init(p)
  <2>1. PICK c \in Opens, q \in Ids :
          /\ Begin(p, c) /\ KernelKept /\ q \in 1 .. created' \cup {NoId}
          /\ mqid' = [mqid EXCEPT ![p] = q] /\ id' = id /\ call' = call
          /\ ret' = [ret EXCEPT ![p] = NoRet] /\ UNCHANGED history
    <3>1. ASSUME Begin(p, "MQ_init create"), NEW q \in Ids, msgget(q),
                 mqid' = [mqid EXCEPT ![p] = q]
          PROVE  KernelKept /\ q \in 1 .. created' \cup {NoId}
      BY <3>1, KernelAsked
    <3>2. ASSUME NEW q \in {named, NoId}, UNCHANGED kernel
          PROVE  KernelKept /\ q \in 1 .. created' \cup {NoId} /\ q \in Ids
      <4>1. KernelKept /\ created' = created
        BY <3>2, KernelSame DEF kernel
      <4>2. 1 .. created \subseteq 1 .. MaxIds
        BY <1>0
      <4> QED
        BY <1>0, <3>2, <4>1, <4>2
    <3>3. CASE /\ Begin(p, "MQ_init create")
               /\ \E q \in Ids : msgget(q) /\ mqid' = [mqid EXCEPT ![p] = q]
               /\ ret' = [ret EXCEPT ![p] = NoRet]
               /\ UNCHANGED <<id, call, history>>
      <4>1. PICK q \in Ids : msgget(q) /\ mqid' = [mqid EXCEPT ![p] = q]
        BY <3>3
      <4> QED
        BY <3>1, <3>3, <4>1 DEF Opens
    <3>4. CASE /\ Begin(p, "MQ_init")
               /\ \E q \in {named, NoId} : mqid' = [mqid EXCEPT ![p] = q]
               /\ ret' = [ret EXCEPT ![p] = NoRet]
               /\ UNCHANGED <<kernel, id, call, history>>
      <4>1. PICK q \in {named, NoId} : mqid' = [mqid EXCEPT ![p] = q]
        BY <3>4
      <4> QED
        BY <3>2, <3>4, <4>1 DEF Opens
    <3> QED
      BY <1>3, <3>3, <3>4 DEF MQ_init
  <2>2. call'[p] = "none"
    BY <1>1, <2>1
  <2> QED
    BY <1>0, <1>1, <1>2, <2>1, <2>2, EmptyReturn DEF Begun
<1>4. CASE MQ_getid(p)
  <2>1. PICK c \in NewCalls, q \in Ids :
          /\ Begin(p, c) /\ msgget(q) /\ id' = [id EXCEPT ![p] = q]
          /\ IF q = NoId
             THEN ret' = [ret EXCEPT ![p] = Returned(c, Fail, "other")] /\ call' = call
             ELSE ret' = [ret EXCEPT ![p] = NoRet] /\ call' = [call EXCEPT ![p] = c]
          /\ mqid' = mqid /\ UNCHANGED history
    BY <1>4 DEF MQ_getid
  <2>2. KernelKept /\ q \in 1 .. created' \cup {NoId} /\ (q # NoId => q \in DOMAIN queues')
    BY <2>1, KernelAsked
  <2>3. CASE q = NoId
    <3>1. call'[p] = "none" /\ id'[p] = q /\ ret'[p] = Returned(c, Fail, "other")
      BY <1>0, <1>1, <2>1, <2>3
    <3> QED
      BY <1>0, <1>1, <1>2, <2>1, <2>2, <2>3, <3>1, EmptyReturn DEF Begun
  <2>4. CASE q # NoId
    <3>1. call'[p] = c /\ id'[p] = q /\ ret'[p] = NoRet
      BY <1>0, <2>1, <2>4
    <3> QED
      BY <1>0, <1>1, <1>2, <2>1, <2>2, <2>4, <3>1, EmptyReturn DEF Begun
  <2> QED
    BY <2>3, <2>4
<1>5. CASE GivenId(p)
  <2>1. PICK c \in OldCalls :
          /\ Begin(p, c) /\ id' = [id EXCEPT ![p] = mqid[p]] /\ call' = [call EXCEPT ![p] = c]
          /\ ret' = [ret EXCEPT ![p] = NoRet] /\ UNCHANGED <<kernel, mqid, history>>
    BY <1>5 DEF GivenId
  <2>2. KernelKept /\ created' = created
    BY <2>1, KernelSame DEF kernel
  <2>3. call'[p] # "MQ_pop" /\ id'[p] = mqid[p]
    BY <1>0, <2>1 DEF OldCalls
  <2> QED
    BY <1>0, <1>1, <2>1, <2>2, <2>3, EmptyReturn DEF Begun
<1> QED
  BY <1>3, <1>4, <1>5

(* A call begins.  Whoever is in a call keeps what it has seen. *)
LEMMA BeginStep ==
    ASSUME IndInv, NEW p \in Procs, Begun(p)
    PROVE  IndInv'
<1>0. /\ NothingOverlooked /\ Reported
      /\ Typed /\ OneQueue /\ Numbered /\ Later /\ InSight /\ TypeOK
      /\ Calls \in [Procs -> Nat] /\ MaxIds \in Nat /\ Capacity \in Nat
      /\ KernelKept /\ Waiting
  BY WaitingFacts, ReportedFacts, CallsAssumption DEF IndInv, Delivered, Begun
<1> USE DEF Begun
<1>1. sent' = sent /\ got' = got /\ dropped' = dropped /\ InQueues' = InQueues
  BY <1>0 DEF history, KernelKept
<1>2. \A q \in DOMAIN queues' : queues'[q] = <<>> \/ (q \in DOMAIN queues /\ queues'[q] = queues[q])
  BY <1>0 DEF KernelKept
<1>3. TypeOK'
  <2>1. \A q \in DOMAIN queues' : Len(queues'[q]) <= Capacity
    BY <1>0, <1>2 DEF TypeOK
  <2>2. calls'[p] \in 0 .. Calls[p] /\ \A u \in Procs \ {p} : calls'[u] = calls[u]
    <3>1. calls \in [Procs -> Nat] /\ calls[p] \in Nat /\ Calls[p] \in Nat
      BY <1>0 DEF Typed
    <3>2. calls'[p] = calls[p] + 1 /\ calls[p] < Calls[p]
      BY <3>1
    <3> QED
      BY <3>1, <3>2
  <2>3. named' = NoId \/ Exists(named)'
    BY <1>0 DEF KernelKept, Exists
  <2> QED
    BY <1>0, <2>1, <2>2, <2>3 DEF TypeOK, KernelKept
<1>4. Typed'
  <2>1. \A q \in DOMAIN queues' : queues'[q] \in Seq(Messages)
    <3>1. \A q \in DOMAIN queues : queues[q] \in Seq(Messages)
      BY <1>0 DEF Typed
    <3>2. <<>> \in Seq(Messages)
      BY EmptySeq
    <3> QED
      BY <1>2, <3>1, <3>2
  <2>2. calls' \in [Procs -> Nat]
    BY <1>0 DEF Typed
  <2>3. ret' \in [Procs -> Returns]
    BY DEF Begun
  <2>4. queues' \in [DOMAIN queues' -> Seq(Messages)]
    <3>1. queues' = [q \in DOMAIN queues' |-> queues'[q]]
      BY <1>0 DEF KernelKept
    <3> QED
      BY <2>1, <3>1
  <2> QED
    BY <1>0, <1>1, <2>2, <2>3, <2>4 DEF Typed, KernelKept
<1>5. OneQueue'
  <2>1. \A u \in Procs \ {p} : {mqid'[u], id'[u]} \subseteq 1 .. created' \cup {NoId}
    <3>1. \A u \in Procs : {mqid[u], id[u]} \subseteq 1 .. created \cup {NoId}
      BY <1>0 DEF OneQueue
    <3>2. 1 .. created \subseteq 1 .. created'
      BY <1>0 DEF KernelKept
    <3> QED
      BY <3>1, <3>2
  <2> QED
    BY <1>0, <2>1 DEF OneQueue, KernelKept
<1>6. Delivered'
  <2>1. \A q \in DOMAIN queues' : Ascending(queues'[q])
    <3>1. Ascending(<<>>)
      BY DEF Ascending
    <3>2. \A q \in DOMAIN queues : Ascending(queues[q])
      BY DEF IndInv, Delivered
    <3> QED
      BY <1>2, <3>1, <3>2
  <2> QED
    BY <1>0, <1>1, <1>3, <2>1 DEF IndInv, Delivered, Ascending
<1>7. Numbered'
  <2>1. \A m \in sent : m.from \in Procs /\ m.n \in Nat
    BY <1>0 DEF Typed, Messages
  <2>2. ASSUME NEW m \in sent
        PROVE  m.n <= calls'[m.from] /\ (call'[m.from] # "none" => m.n < calls'[m.from])
    <3>1. m.n <= calls[m.from] /\ (call[m.from] # "none" => m.n < calls[m.from])
      BY <1>0 DEF Numbered
    <3>2. CASE m.from = p
      <4>1. calls'[p] = calls[p] + 1 /\ calls[p] \in Nat
        BY <1>0 DEF Typed
      <4> QED
        BY <2>1, <3>1, <3>2, <4>1
    <3>3. CASE m.from # p
      <4>1. calls'[m.from] = calls[m.from] /\ call'[m.from] = call[m.from]
        BY <1>0, <2>1, <3>3 DEF Typed
      <4> QED
        BY <3>1, <4>1
    <3> QED
      BY <3>2, <3>3
  <2> QED
    BY <1>1, <2>2 DEF Numbered
<1>8. Later'
  BY <1>0, <1>1 DEF Later
<1>9. \A u \in Procs \ {p} : id'[u] \in DOMAIN queues' <=> id[u] \in DOMAIN queues
  BY <1>0 DEF OneQueue, KernelKept, Exists, NoId
<1>10. InSight'
  <2>1. ASSUME NEW u \in Procs, call'[u] = "MQ_pop"
        PROVE  before'[u] \subseteq Range(got) \cup dropped \cup
                 (IF id'[u] \in DOMAIN queues' THEN Range(queues'[id'[u]]) ELSE {})
    <3>1. CASE u = p
      <4>1. InQueues' = Range(queues'[id'[p]])
        BY <1>5, <2>1, <3>1, WaitingFactsNext DEF Waiting, Exists
      <4>2. sent = Range(got) \cup dropped \cup InQueues'
        BY <1>1 DEF IndInv, Delivered
      <4> QED
        BY <2>1, <3>1, <4>1, <4>2
    <3>2. CASE u # p
      <4>1. call[u] = "MQ_pop" /\ before'[u] = before[u] /\ id'[u] = id[u]
        BY <2>1, <3>2
      <4>2. id[u] \in DOMAIN queues => id[u] \in DOMAIN queues' /\ queues'[id[u]] = queues[id[u]]
        BY <1>0 DEF KernelKept, Exists
      <4> QED
        BY <1>0, <4>1, <4>2 DEF InSight, Exists
    <3> QED
      BY <3>1, <3>2
  <2> QED
    BY <1>1, <2>1 DEF InSight, Exists
<1>12. NothingOverlooked'
  <2>1. ASSUME NEW u \in Procs, ret'[u].of \in Receives,
               ret'[u].errno = "ENOMSG" \/ (ret'[u].of = "MQ_pop" /\ ret'[u].errno = "EIDRM")
        PROVE  before'[u] \subseteq Range(got) \cup dropped
    <3>1. u # p
      BY <2>1
    <3> QED
      BY <1>0, <2>1, <3>1 DEF NothingOverlooked
  <2> QED
    BY <1>1, <2>1 DEF NothingOverlooked
<1>13. SendReported'
  <2>1. ASSUME NEW u \in Procs, ret'[u].of \in Sends
        PROVE  /\ ret'[u].value = 0 <=> Message(u)' \in sent
               /\ ret'[u].value = Fail /\ ret'[u].errno # "other" => id'[u] \notin DOMAIN queues'
    <3>1. CASE u = p
      <4>1. Message(p)' \notin sent
        <5>1. Message(p)'.from = p /\ Message(p)'.n = calls[p] + 1 /\ calls[p] \in Nat
          BY <1>0 DEF Message, Typed
        <5>2. \A m \in sent : m.from = p => m.n <= calls[p]
          BY <1>0 DEF Numbered
        <5> QED
          BY <5>1, <5>2
      <4> QED
        BY <2>1, <3>1, <4>1 DEF Fail
    <3>2. CASE u # p
      <4>1. Message(u)' = Message(u)
        BY <1>0, <3>2 DEF Message, mtype, Typed
      <4>2. ret'[u] = ret[u] /\ (id'[u] \in DOMAIN queues' <=> id[u] \in DOMAIN queues)
        BY <1>9, <3>2
      <4> QED
        BY <1>0, <2>1, <4>1, <4>2 DEF Reported, Exists
    <3> QED
      BY <3>1, <3>2
  <2>2. Reported'
    BY <1>1, <2>1 DEF Reported, Exists
  <2> QED
    BY <1>6, <2>2, ReportedFactsNext
<1> QED
  BY <1>4, <1>5, <1>6, <1>7, <1>8, <1>10, <1>12, <1>13 DEF IndInv

(* What the end of a call changes in the processes. *)
LEMMA ReturnFacts ==
    ASSUME IndInv, NEW p \in Procs, NEW r \in {0, Fail}, NEW e \in Errors,
           call[p] # "none", Return(p, r, e)
    PROVE  /\ call' \in [Procs -> NewCalls \cup OldCalls \cup {"none"}]
           /\ ret' \in [Procs -> Returns]
           /\ call'[p] = "none" /\ ret'[p].of = call[p]
           /\ ret'[p].value = r /\ ret'[p].errno = e
           /\ \A u \in Procs \ {p} : call'[u] = call[u] /\ ret'[u] = ret[u]
           /\ mqid' = mqid /\ id' = id /\ calls' = calls /\ before' = before
<1>1. /\ call \in [Procs -> NewCalls \cup OldCalls \cup {"none"}]
      /\ ret \in [Procs -> Returns]
  BY DEF IndInv, Delivered, TypeOK, Typed
<1>2. Returned(call[p], r, e) \in Returns
  BY <1>1 DEF Returned, Returns
<1>3. /\ Returned(call[p], r, e).of = call[p] /\ Returned(call[p], r, e).value = r
      /\ Returned(call[p], r, e).errno = e
  BY DEF Returned
<1> QED
  BY <1>1, <1>2, <1>3 DEF Return

(* A call that changes nothing in the queues: it may report that there was *)
(* no message or no queue only if that is so, and no success of a send.    *)
LEMMA QuietStep ==
    ASSUME IndInv, NEW p \in Procs, NEW r \in {0, Fail}, NEW e \in Errors,
           call[p] # "none", Return(p, r, e),
           UNCHANGED <<kernel, history>>,
           call[p] \in Receives /\ e = "ENOMSG" => Exists(id[p]) /\ queues[id[p]] = <<>>,
           call[p] = "MQ_pop" /\ e = "EIDRM" => ~Exists(id[p]),
           call[p] \in Sends => r = Fail /\ (e = "other" \/ ~Exists(id[p]))
    PROVE  IndInv'
<1>0. /\ NothingOverlooked /\ Reported
      /\ Typed /\ OneQueue /\ Numbered /\ Later /\ InSight /\ TypeOK /\ Waiting
  BY WaitingFacts, ReportedFacts DEF IndInv, Delivered
<1>1. /\ queues' = queues /\ named' = named /\ created' = created
      /\ sent' = sent /\ got' = got /\ dropped' = dropped
      /\ mqid' = mqid /\ id' = id /\ calls' = calls /\ before' = before
  BY ReturnFacts DEF kernel, history
<1>2. /\ call' \in [Procs -> NewCalls \cup OldCalls \cup {"none"}]
      /\ ret' \in [Procs -> Returns]
      /\ call'[p] = "none" /\ ret'[p].of = call[p] /\ ret'[p].value = r /\ ret'[p].errno = e
      /\ \A u \in Procs \ {p} : call'[u] = call[u] /\ ret'[u] = ret[u]
  BY ReturnFacts
<1>3. TypeOK' /\ Typed' /\ OneQueue'
  BY <1>0, <1>1, <1>2 DEF TypeOK, Typed, OneQueue, Exists
<1>4. InQueues' = InQueues
  BY <1>1 DEF InQueues
<1>5. Delivered'
  BY <1>1, <1>3, <1>4 DEF IndInv, Delivered, Ascending
<1>6. Numbered' /\ Later'
  <2>1. \A m \in sent : m.from \in Procs
    BY <1>0 DEF Typed, Messages
  <2> QED
    BY <1>0, <1>1, <1>2, <1>4, <2>1 DEF Numbered, Later
<1>7. InSight'
  BY <1>0, <1>1, <1>2 DEF InSight, Exists
<1>8. NothingOverlooked'
  <2>1. ASSUME call[p] \in Receives, e = "ENOMSG" \/ (call[p] = "MQ_pop" /\ e = "EIDRM")
        PROVE  before[p] \subseteq Range(got) \cup dropped
    <3>1. Range(<<>>) = {}
      BY DEF Range
    <3>2. CASE e = "ENOMSG"
      <4>1. InQueues = {}
        BY <1>0, <2>1, <3>1, <3>2 DEF Waiting
      <4> QED
        BY <1>0, <4>1 DEF IndInv, Delivered, Typed
    <3>3. CASE call[p] = "MQ_pop" /\ e = "EIDRM"
      BY <1>0, <3>3 DEF InSight
    <3> QED
      BY <2>1, <3>2, <3>3
  <2>2. ASSUME NEW u \in Procs, ret'[u].of \in Receives,
               ret'[u].errno = "ENOMSG" \/ (ret'[u].of = "MQ_pop" /\ ret'[u].errno = "EIDRM")
        PROVE  before[u] \subseteq Range(got) \cup dropped
    BY <1>0, <1>2, <2>1, <2>2 DEF NothingOverlooked
  <2> QED
    BY <1>1, <2>2 DEF NothingOverlooked
<1>9. SendReported'
  <2>1. \A u \in Procs : Message(u)' = Message(u)
    BY <1>1 DEF Message, mtype
  <2>2. call[p] \in Sends => Message(p) \notin sent /\ r # 0
    BY <1>0, OwnNumber DEF Fail
  <2>3. Reported'
    BY <1>0, <1>1, <1>2, <2>1, <2>2 DEF Reported, Exists
  <2> QED
    BY <1>5, <2>3, ReportedFactsNext
<1> QED
  BY <1>3, <1>5, <1>6, <1>7, <1>8, <1>9 DEF IndInv

(* A message is sent: its number is its own. *)
LEMMA SendStep ==
    ASSUME IndInv, NEW p \in Procs, Send(p)
    PROVE  IndInv'
<1>0. /\ NothingOverlooked /\ Reported
      /\ Typed /\ OneQueue /\ Numbered /\ Later /\ InSight /\ TypeOK /\ Waiting
  BY WaitingFacts, ReportedFacts DEF IndInv, Delivered
<1> DEFINE q == id[p]
           m == Message(p)
<1>1. call[p] # "none" /\ call[p] \notin Receives /\ call[p] # "MQ_pop"
  BY DEF Send, Sends, Receives
<1>2. CASE ~(Exists(q) /\ Len(queues[q]) < Capacity)
  <2>1. PICK e \in Errors : Return(p, Fail, e) /\ UNCHANGED <<kernel, history>>
    BY <1>2 DEF Send, NoQueue, Errors
  <2>2. ~Exists(q)
    <3>1. ASSUME Exists(q) PROVE Len(queues[q]) \in Nat
      <4>1. queues[q] \in Seq(Messages)
        BY <1>0, <3>1 DEF Typed, Exists
      <4> QED
        BY <4>1
    <3> QED
      BY <1>2, <3>1, CallsAssumption DEF Send, HasToWait
  <2> QED
    BY <1>1, <2>1, <2>2, QuietStep
<1>3. CASE Exists(q) /\ Len(queues[q]) < Capacity
  <2>1. /\ queues' = [queues EXCEPT ![q] = Append(@, m)] /\ sent' = sent \cup {m}
        /\ Return(p, 0, "none") /\ UNCHANGED <<named, created, got, dropped>>
    BY <1>3 DEF Send
  <2>2. /\ call' \in [Procs -> NewCalls \cup OldCalls \cup {"none"}]
        /\ ret' \in [Procs -> Returns]
        /\ call'[p] = "none" /\ ret'[p].of = call[p] /\ ret'[p].value = 0 /\ ret'[p].errno = "none"
        /\ \A u \in Procs \ {p} : call'[u] = call[u] /\ ret'[u] = ret[u]
        /\ mqid' = mqid /\ id' = id /\ calls' = calls /\ before' = before
    BY <1>1, <2>1, ReturnFacts DEF Errors
  <2>3. m \in Messages /\ m.from = p /\ m.n = calls[p]
    BY <1>0 DEF Typed, Messages, Message, mtype
  <2>4. queues[q] \in Seq(Messages) /\ q \in DOMAIN queues /\ DOMAIN queues = {q} /\ q = named
    BY <1>0, <1>3 DEF Typed, Exists, Waiting
  <2>5. InQueues = Range(queues[q])
    BY <1>0, <1>3 DEF Waiting
  <2>6. \A x \in sent : x.from = p => x.n < m.n
    <3>1. \A x \in sent : call[x.from] # "none" => x.n < calls[x.from]
      BY <1>0 DEF Numbered
    <3>2. m.n = calls[p] /\ call[p] # "none"
      BY <1>1, <2>3
    <3> HIDE DEF m
    <3> QED
      BY <3>1, <3>2
  <2>7. m \notin sent
    BY <1>0, <1>1, OwnNumber
  <2>8. sent = Range(got) \cup dropped \cup InQueues
    BY DEF IndInv, Delivered
  <2> HIDE DEF q, m
  <2>9. DOMAIN queues' = {q} /\ queues'[q] = Append(queues[q], m)
    BY <2>1, <2>4
  <2>10. /\ Append(queues[q], m) \in Seq(Messages) /\ Len(Append(queues[q], m)) = Len(queues[q]) + 1
         /\ Range(Append(queues[q], m)) = InQueues \cup {m}
         /\ Ascending(Append(queues[q], m))
    <3>1. Ascending(queues[q])
      BY <2>4 DEF IndInv, Delivered
    <3>2. \A x \in Range(queues[q]) : x.from = m.from => x.n < m.n
      BY <2>3, <2>5, <2>6, <2>8
    <3> QED
      BY <2>3, <2>4, <2>5, <3>1, <3>2, AppendFacts
  <2>11. InQueues' = InQueues \cup {m}
    BY <2>9, <2>10 DEF InQueues
  <2>12. TypeOK'
    <3>1. Len(queues[q]) \in Nat /\ Len(queues[q]) < Capacity /\ Capacity \in Nat
      BY <1>3, <2>4, CallsAssumption DEF q
    <3>2. Len(queues'[q]) <= Capacity
      BY <2>9, <2>10, <3>1
    <3> QED
      BY <1>0, <2>1, <2>2, <2>4, <2>9, <3>2 DEF TypeOK, Exists
  <2>13. Typed'
    <3>1. queues' \in [DOMAIN queues' -> Seq(Messages)]
      BY <1>0, <2>1, <2>9, <2>10, <2>4 DEF Typed
    <3> QED
      BY <1>0, <2>1, <2>2, <2>3, <3>1 DEF Typed
  <2>14. OneQueue'
    BY <1>0, <2>1, <2>2, <2>4, <2>9 DEF OneQueue
  <2>15. Delivered'
    <3>1. Ascending(got')
      BY <2>1 DEF IndInv, Delivered, Ascending
    <3>2. m \notin Range(got) /\ m \notin dropped
      BY <2>7, <2>8
    <3>3. Range(got) \cap dropped = {} /\ InQueues \cap (Range(got) \cup dropped) = {}
      BY DEF IndInv, Delivered
    <3>4. \A i \in DOMAIN queues' : Ascending(queues'[i])
      BY <2>9, <2>10
    <3> QED
      BY <2>1, <2>8, <2>11, <2>12, <3>1, <3>2, <3>3, <3>4 DEF Delivered
  <2>16. Numbered'
    <3>1. ASSUME NEW x \in sent \cup {m}
          PROVE  x.n <= calls[x.from] /\ (call'[x.from] # "none" => x.n < calls[x.from])
      <4>1. m.n <= calls[m.from] /\ call'[m.from] = "none"
        BY <1>0, <2>2, <2>3 DEF Typed
      <4>2. CASE x \in sent
        <5>1. x.from \in Procs
          BY <1>0, <4>2 DEF Typed, Messages
        <5> QED
          BY <1>0, <2>2, <4>2, <5>1 DEF Numbered
      <4> QED
        BY <4>1, <4>2
    <3> QED
      BY <2>1, <2>2, <3>1 DEF Numbered
  <2>17. Later'
    BY <1>0, <2>1, <2>3, <2>6, <2>8, <2>11 DEF Later
  <2>18. InSight'
    <3>1. ASSUME NEW u \in Procs, call'[u] = "MQ_pop"
          PROVE  before[u] \subseteq Range(got) \cup dropped \cup
                   (IF id[u] \in DOMAIN queues' THEN Range(queues'[id[u]]) ELSE {})
      <4>1. call[u] = "MQ_pop"
        BY <2>2, <3>1
      <4>2. before[u] \subseteq Range(got) \cup dropped \cup
                   (IF id[u] \in DOMAIN queues THEN Range(queues[id[u]]) ELSE {})
        BY <1>0, <4>1 DEF InSight, Exists
      <4> QED
        BY <2>4, <2>5, <2>9, <2>10, <4>2
    <3> QED
      BY <2>1, <2>2, <3>1 DEF InSight, Exists
  <2>19. NothingOverlooked'
    <3>1. \A u \in Procs : ret'[u].errno # "none" => u # p
      BY <2>2
    <3> QED
      BY <1>0, <2>1, <2>2, <3>1 DEF NothingOverlooked
  <2>20. SendReported'
    <3>1. Message(p)' = m /\ \A u \in Procs \ {p} : Message(u)' = Message(u) /\ Message(u) # m
      BY <2>2, <2>3 DEF Message, mtype, m
    <3>2. ret'[p].value # Fail
      BY <2>2 DEF Fail
    <3>3. \A u \in Procs : Exists(id[u])' = Exists(id[u])
      BY <2>2, <2>4, <2>9 DEF Exists
    <3>4. Reported'
      BY <1>0, <2>1, <2>2, <3>1, <3>2, <3>3 DEF Reported
    <3> QED
      BY <2>15, <3>4, ReportedFactsNext
  <2> QED
    BY <2>13, <2>14, <2>15, <2>16, <2>17, <2>18, <2>19, <2>20 DEF IndInv
<1> QED
  BY <1>2, <1>3

(* What is received is the first of its queue, as all are of one type. *)
LEMMA FirstOfType ==
    ASSUME IndInv, NEW q, Exists(q)
    PROVE  /\ OfType(q, 1) = DOMAIN queues[q]
           /\ OfType(q, 1) # {} <=> queues[q] # <<>>
           /\ OfType(q, 1) # {} =>
                (CHOOSE i \in OfType(q, 1) : \A j \in OfType(q, 1) : i <= j) = 1
<1>1. queues[q] \in Seq(Messages)
  BY DEF IndInv, Typed, Exists
<1>2. \A i \in DOMAIN queues[q] : queues[q][i].type = 1
  <2>1. \A i \in DOMAIN queues[q] : queues[q][i] \in Messages
    BY <1>1
  <2> QED
    BY <2>1 DEF Messages
<1>3. OfType(q, 1) = DOMAIN queues[q]
  BY <1>2 DEF OfType
<1>4. DOMAIN queues[q] = 1 .. Len(queues[q]) /\ Len(queues[q]) \in Nat
      /\ (queues[q] = <<>> <=> Len(queues[q]) = 0)
  BY <1>1, EmptySeq
<1>5. ASSUME NEW S, S = 1 .. Len(queues[q]), S # {}
      PROVE  (CHOOSE i \in S : \A j \in S : i <= j) = 1
  BY <1>4, <1>5
<1> QED
  BY <1>3, <1>4, <1>5

(* The first message is received, or thrown away. *)
LEMMA ReceiveStep ==
    ASSUME IndInv, NEW p \in Procs, Receive(p)
    PROVE  IndInv'
<1>0. /\ NothingOverlooked /\ Reported
      /\ Typed /\ OneQueue /\ Numbered /\ Later /\ InSight /\ TypeOK /\ Waiting
  BY WaitingFacts, ReportedFacts DEF IndInv, Delivered
<1> DEFINE q == id[p]
           m == queues[q][1]
<1>1. call[p] # "none" /\ call[p] \notin Sends
  BY DEF Receive, Sends, Receives
<1>2. CASE ~(Exists(q) /\ OfType(q, 1) # {})
  <2>1. PICK e \in Errors :
          /\ Return(p, Fail, e) /\ UNCHANGED <<kernel, history>>
          /\ e = "ENOMSG" <=> Exists(q)
    BY <1>2 DEF Receive, NoQueue, Errors
  <2>2. Exists(q) => queues[q] = <<>>
    BY <1>2, FirstOfType
  <2>3. e = "EIDRM" => ~Exists(q)
    BY <2>1
  <2> QED
    BY <1>1, <2>1, <2>2, <2>3, QuietStep
<1>3. CASE Exists(q) /\ OfType(q, 1) # {}
  <2>1. /\ queues' = [queues EXCEPT ![q] = RemoveAt(@, 1)]
        /\ IF call[p] = "MQ_clear" THEN dropped' = dropped \cup {m} /\ UNCHANGED got
                                   ELSE got' = Append(got, m) /\ UNCHANGED dropped
        /\ Return(p, 0, "none") /\ UNCHANGED <<named, created, sent>>
    BY <1>3, FirstOfType DEF Receive, Buffer
  <2>2. /\ call' \in [Procs -> NewCalls \cup OldCalls \cup {"none"}]
        /\ ret' \in [Procs -> Returns]
        /\ call'[p] = "none" /\ ret'[p].of = call[p] /\ ret'[p].value = 0 /\ ret'[p].errno = "none"
        /\ \A u \in Procs \ {p} : call'[u] = call[u] /\ ret'[u] = ret[u]
        /\ mqid' = mqid /\ id' = id /\ calls' = calls /\ before' = before
    BY <1>1, <2>1, ReturnFacts DEF Errors
  <2>3. /\ queues[q] \in Seq(Messages) /\ queues[q] # <<>> /\ Ascending(queues[q])
        /\ q \in DOMAIN queues /\ DOMAIN queues = {q} /\ q = named
    BY <1>0, <1>3, FirstOfType DEF Typed, Exists, Waiting, IndInv, Delivered
  <2>4. InQueues = Range(queues[q])
    BY <1>0, <1>3 DEF Waiting
  <2>5. /\ m \in Messages /\ m \in InQueues
        /\ RemoveAt(queues[q], 1) \in Seq(Messages)
        /\ Len(RemoveAt(queues[q], 1)) = Len(queues[q]) - 1
        /\ InQueues = {m} \cup Range(RemoveAt(queues[q], 1)) /\ m \notin Range(RemoveAt(queues[q], 1))
        /\ Ascending(RemoveAt(queues[q], 1))
        /\ \A x \in Range(RemoveAt(queues[q], 1)) : x.from = m.from => m.n < x.n
    BY <2>3, <2>4, FirstOut
  <2>6. DOMAIN queues' = {q} /\ queues'[q] = RemoveAt(queues[q], 1)
    BY <2>1, <2>3
  <2>7. InQueues' = Range(RemoveAt(queues[q], 1))
    BY <2>6 DEF InQueues
  <2>8. got \in Seq(Messages) /\ Ascending(got) /\ \A x \in Range(got) : x.from = m.from => x.n < m.n
    BY <1>0, <2>5 DEF IndInv, Delivered, Typed, Later
  <2>9. sent = Range(got) \cup dropped \cup InQueues
        /\ Range(got) \cap dropped = {} /\ InQueues \cap (Range(got) \cup dropped) = {}
    BY DEF IndInv, Delivered
  <2>10. Len(queues[q]) \in Nat /\ Len(queues[q]) <= Capacity /\ Capacity \in Nat
    BY <1>0, <2>3, CallsAssumption DEF TypeOK
  <2> HIDE DEF q, m
  <2>11. /\ got' \in Seq(Messages) /\ Ascending(got')
         /\ \/ Range(got') = Range(got) \cup {m} /\ dropped' = dropped
            \/ Range(got') = Range(got) /\ dropped' = dropped \cup {m}
    <3>1. CASE call[p] = "MQ_clear"
      BY <2>1, <2>8, <3>1
    <3>2. CASE call[p] # "MQ_clear"
      <4>1. got' = Append(got, m) /\ dropped' = dropped
        BY <2>1, <3>2
      <4>2. /\ Append(got, m) \in Seq(Messages) /\ Range(Append(got, m)) = Range(got) \cup {m}
            /\ Ascending(Append(got, m))
        BY <2>5, <2>8, AppendFacts
      <4> QED
        BY <4>1, <4>2
    <3> QED
      BY <3>1, <3>2
  <2>12. TypeOK'
    <3>1. Len(queues'[q]) <= Capacity
      BY <2>5, <2>6, <2>10
    <3> QED
      BY <1>0, <2>1, <2>2, <2>3, <2>6, <3>1 DEF TypeOK, Exists
  <2>13. Typed'
    <3>1. queues' \in [DOMAIN queues' -> Seq(Messages)]
      BY <1>0, <2>1, <2>3, <2>5, <2>6 DEF Typed
    <3> QED
      BY <1>0, <2>1, <2>2, <2>11, <3>1 DEF Typed
  <2>14. OneQueue'
    BY <1>0, <2>1, <2>2, <2>3, <2>6 DEF OneQueue
  <2>15. Delivered'
    <3>1. \A i \in DOMAIN queues' : Ascending(queues'[i])
      BY <2>5, <2>6
    <3>2. sent' = Range(got') \cup dropped' \cup InQueues'
      BY <2>1, <2>5, <2>7, <2>9, <2>11
    <3>3. Range(got') \cap dropped' = {} /\ InQueues' \cap (Range(got') \cup dropped') = {}
      BY <2>5, <2>7, <2>9, <2>11
    <3> QED
      BY <2>11, <2>12, <3>1, <3>2, <3>3 DEF Delivered
  <2>16. Numbered'
    <3>1. \A x \in sent : x.from \in Procs
      BY <1>0 DEF Typed, Messages
    <3> QED
      BY <1>0, <2>1, <2>2, <3>1 DEF Numbered
  <2>17. Later'
    <3>1. \A x \in Range(got') : x \in Range(got) \/ x = m
      BY <2>11
    <3>2. \A x \in Range(got), y \in InQueues : x.from = y.from => x.n < y.n
      BY <1>0 DEF Later
    <3> QED
      BY <2>5, <2>7, <3>1, <3>2 DEF Later
  <2>18. InSight'
    <3>1. ASSUME NEW u \in Procs, call'[u] = "MQ_pop"
          PROVE  before[u] \subseteq Range(got') \cup dropped' \cup
                   (IF id[u] \in DOMAIN queues' THEN Range(queues'[id[u]]) ELSE {})
      <4>1. call[u] = "MQ_pop"
        BY <2>2, <3>1
      <4>2. before[u] \subseteq Range(got) \cup dropped \cup
                   (IF id[u] \in DOMAIN queues THEN Range(queues[id[u]]) ELSE {})
        BY <1>0, <4>1 DEF InSight, Exists
      <4> QED
        BY <2>3, <2>4, <2>5, <2>6, <2>11, <4>2
    <3> QED
      BY <2>1, <2>2, <3>1 DEF InSight, Exists
  <2>19. NothingOverlooked'
    <3>1. \A u \in Procs : ret'[u].errno # "none" => u # p
      BY <2>2
    <3>2. Range(got) \cup dropped \subseteq Range(got') \cup dropped'
      BY <2>11
    <3> QED
      BY <1>0, <2>2, <3>1, <3>2 DEF NothingOverlooked
  <2>20. SendReported'
    <3>1. \A u \in Procs : Message(u)' = Message(u) /\ Exists(id[u])' = Exists(id[u])
      BY <2>2, <2>3, <2>6 DEF Message, mtype, Exists
    <3>2. \A u \in Procs : ret'[u].of \in Sends => u # p
      BY <1>1, <2>2
    <3>3. Reported'
      BY <1>0, <2>1, <2>2, <3>1, <3>2 DEF Reported
    <3> QED
      BY <2>15, <3>3, ReportedFactsNext
  <2> QED
    BY <2>13, <2>14, <2>15, <2>16, <2>17, <2>18, <2>19, <2>20 DEF IndInv
<1> QED
  BY <1>2, <1>3

(* The queue is removed, and what waited in it is dropped. *)
LEMMA KillStep ==
    ASSUME IndInv, NEW p \in Procs, MQ_kill(p)
    PROVE  IndInv'
<1>0. /\ NothingOverlooked /\ Reported
      /\ Typed /\ OneQueue /\ Numbered /\ Later /\ InSight /\ TypeOK /\ Waiting
  BY WaitingFacts, ReportedFacts DEF IndInv, Delivered
<1> DEFINE q == id[p]
<1>1. call[p] # "none" /\ call[p] \notin Sends /\ call[p] \notin Receives
  BY DEF MQ_kill, Sends, Receives
<1>2. CASE ~Exists(q)
  <2>1. Return(p, Fail, "EIDRM") /\ UNCHANGED <<kernel, history>> /\ "EIDRM" \in Errors
    BY <1>2 DEF MQ_kill, Errors
  <2> QED
    BY <1>1, <2>1, QuietStep DEF Receives
<1>3. CASE Exists(q)
  <2>1. /\ queues' = [i \in DOMAIN queues \ {q} |-> queues[i]] /\ named' = NoId
        /\ dropped' = dropped \cup Range(queues[q]) /\ UNCHANGED <<created, sent, got>>
        /\ Return(p, 0, "none")
    BY <1>3 DEF MQ_kill, RemoveQueue
  <2>2. /\ call' \in [Procs -> NewCalls \cup OldCalls \cup {"none"}]
        /\ ret' \in [Procs -> Returns]
        /\ call'[p] = "none" /\ ret'[p].of = call[p] /\ ret'[p].value = 0 /\ ret'[p].errno = "none"
        /\ \A u \in Procs \ {p} : call'[u] = call[u] /\ ret'[u] = ret[u]
        /\ mqid' = mqid /\ id' = id /\ calls' = calls /\ before' = before
    BY <1>1, <2>1, ReturnFacts DEF Errors
  <2>3. DOMAIN queues = {q} /\ q = named /\ InQueues = Range(queues[q])
    BY <1>0, <1>3 DEF Exists, Waiting
  <2>4. DOMAIN queues' = {} /\ InQueues' = {} /\ dropped' = dropped \cup InQueues
    BY <2>1, <2>3 DEF InQueues
  <2> HIDE DEF q
  <2>5. TypeOK'
    BY <1>0, <2>1, <2>2, <2>4 DEF TypeOK
  <2>6. Typed'
    <3>1. queues' \in [DOMAIN queues' -> Seq(Messages)]
      BY <2>1, <2>4
    <3> QED
      BY <1>0, <2>1, <2>2, <3>1 DEF Typed
  <2>7. OneQueue'
    BY <1>0, <2>1, <2>2, <2>4 DEF OneQueue
  <2>8. Delivered'
    BY <2>1, <2>4, <2>5 DEF IndInv, Delivered, Ascending
  <2>9. Numbered'
    <3>1. \A x \in sent : x.from \in Procs
      BY <1>0 DEF Typed, Messages
    <3> QED
      BY <1>0, <2>1, <2>2, <3>1 DEF Numbered
  <2>10. Later'
    BY <2>4 DEF Later
  <2>11. InSight'
    <3>1. ASSUME NEW u \in Procs, call'[u] = "MQ_pop"
          PROVE  before[u] \subseteq Range(got) \cup dropped'
      <4>1. call[u] = "MQ_pop"
        BY <2>2, <3>1
      <4> QED
        BY <1>0, <2>3, <2>4, <4>1 DEF InSight, Exists
    <3> QED
      BY <2>1, <2>2, <3>1 DEF InSight
  <2>12. NothingOverlooked'
    <3>1. \A u \in Procs : ret'[u].errno # "none" => u # p
      BY <2>2
    <3> QED
      BY <1>0, <2>1, <2>2, <2>4, <3>1 DEF NothingOverlooked
  <2>13. SendReported'
    <3>1. \A u \in Procs : Message(u)' = Message(u) /\ ~Exists(id[u])'
      BY <2>2, <2>4 DEF Message, mtype, Exists
    <3>2. \A u \in Procs : ret'[u].of \in Sends => u # p
      BY <1>1, <2>2
    <3>3. Reported'
      BY <1>0, <2>1, <2>2, <3>1, <3>2 DEF Reported
    <3> QED
      BY <2>8, <3>3, ReportedFactsNext
  <2> QED
    BY <2>6, <2>7, <2>8, <2>9, <2>10, <2>11, <2>12, <2>13 DEF IndInv
<1> QED
  BY <1>2, <1>3

LEMMA StatStep ==
    ASSUME IndInv, NEW p \in Procs, Stat(p)
    PROVE  IndInv'
<1>1. call[p] # "none" /\ call[p] \notin Sends /\ call[p] \notin Receives
  BY DEF Stat, Sends, Receives
<1>2. PICK r \in {0, Fail}, e \in Errors : Return(p, r, e) /\ UNCHANGED <<kernel, history>>
  BY DEF Stat, Errors
<1> QED
  BY <1>1, <1>2, QuietStep DEF Receives

LEMMA FailStep ==
    ASSUME IndInv, NEW p \in Procs, KernelFails(p)
    PROVE  IndInv'
<1>1. /\ call[p] # "none" /\ Return(p, Fail, "other") /\ UNCHANGED <<kernel, history>>
      /\ "other" \in Errors
  BY DEF KernelFails, Errors
<1> QED
  BY <1>1, QuietStep

LEMMA StutterStep == IndInv /\ UNCHANGED vars => IndInv'
<1> SUFFICES ASSUME IndInv, UNCHANGED vars PROVE IndInv'
  OBVIOUS
<1>1. /\ queues' = queues /\ named' = named /\ created' = created /\ mqid' = mqid /\ id' = id /\ call' = call
      /\ ret' = ret /\ calls' = calls /\ sent' = sent /\ got' = got /\ dropped' = dropped
      /\ before' = before
  BY DEF vars, kernel, history
<1>2. InQueues' = InQueues
  BY <1>1 DEF InQueues
<1>3. TypeOK' /\ NothingOverlooked' /\ SendReported'
  BY <1>1, <1>2 DEF IndInv, Delivered, TypeOK, NothingOverlooked, SendReported, Message, mtype, Exists
<1>4. Delivered'
  BY <1>1, <1>2, <1>3 DEF IndInv, Delivered, Ascending
<1>5. Typed' /\ OneQueue'
  BY <1>1 DEF IndInv, Typed, OneQueue
<1>6. Numbered' /\ Later'
  BY <1>1, <1>2 DEF IndInv, Numbered, Later
<1>7. InSight'
  BY <1>1 DEF IndInv, InSight, Exists
<1> QED
  BY <1>3, <1>4, <1>5, <1>6, <1>7 DEF IndInv

LEMMA StepInvariant == IndInv /\ [Next]_vars => IndInv'
<1> SUFFICES ASSUME IndInv, [Next]_vars PROVE IndInv'
  OBVIOUS
<1>1. ASSUME NEW p \in Procs, MQ_init(p) \/ MQ_getid(p) \/ GivenId(p) PROVE IndInv'
  BY <1>1, BegunFacts, BeginStep
<1>2. ASSUME NEW p \in Procs, Send(p) PROVE IndInv'
  BY <1>2, SendStep
<1>3. ASSUME NEW p \in Procs, Receive(p) PROVE IndInv'
  BY <1>3, ReceiveStep
<1>4. ASSUME NEW p \in Procs, MQ_kill(p) PROVE IndInv'
  BY <1>4, KillStep
<1>5. ASSUME NEW p \in Procs, Stat(p) PROVE IndInv'
  BY <1>5, StatStep
<1>6. ASSUME NEW p \in Procs, KernelFails(p) PROVE IndInv'
  BY <1>6, FailStep
<1>7. CASE Ended \/ UNCHANGED vars
  BY <1>7, StutterStep DEF Ended
<1> QED
  BY <1>1, <1>2, <1>3, <1>4, <1>5, <1>6, <1>7 DEF Next

------------------------------------------------------------------------------
(* The results. *)

(* The invariants of the run and what carries them hold in every behaviour *)
(* of mq.c's processes (mq.c:77-224): messages are numbered by the calls   *)
(* that send them, an identifier is never given twice, and what MQ_pop saw *)
(* in its queue stays there until it is received or dropped.               *)
THEOREM QueueSound == Spec => []IndInv
<1> QED
  BY InitInvariant, StepInvariant, PTL DEF Spec

(* No message is lost, received twice or, from one sender, out of order,   *)
(* whatever the processes call through either interface, over removals and *)
(* new queues of the key (mq.c:110-220).                                   *)
THEOREM DeliveredCorrect == Spec => []Delivered
<1>1. IndInv => Delivered
  BY DEF IndInv
<1> QED
  BY <1>1, QueueSound, PTL

(* A receiving call that finds no message, or an MQ_pop that finds no      *)
(* queue, has overlooked none that was there before it; an MQ_recv with    *)
(* the identifier of a removed queue is not such a call, and does          *)
(* overlook what is in the new queue (mq.c:119, 141-150, 194, 199-208).    *)
THEOREM OverlookedNothing == Spec => []NothingOverlooked
<1>1. IndInv => NothingOverlooked
  BY DEF IndInv
<1> QED
  BY <1>1, QueueSound, PTL

(* A send says truly whether its message was accepted, and fails only if   *)
(* its queue is gone or for a reason of the system's own, never for want   *)
(* of room (mq.c:101-108, 110-127, 187-197).                               *)
THEOREM SendReportedCorrect == Spec => []SendReported
<1>1. IndInv => SendReported
  BY DEF IndInv
<1> QED
  BY <1>1, QueueSound, PTL
==============================================================================
