------------------------------- MODULE VLog_proofs -------------------------------
(* The log keeps its promises for any threads, paths, settings, restarts   *)
(* and bounds.  IndInv is the inductive invariant.                         *)
EXTENDS VLog, SequenceTheorems, TLAPS

Inside    == {"check", "backup", "open", "write", "unlock"}
Pending   == {"check", "backup", "open", "write"}

(* The thread holds the mutex and its line is not yet written or dropped. *)
Unwritten(t) == pc[t] \in Pending

MutexInv ==
    /\ \A t \in Threads : t \in mutex <=> pc[t] \in Inside
    /\ \A t, u \in mutex : t = u

PathInv ==
    /\ \A t, u \in Threads : SettingPath(t) /\ SettingPath(u) => t = u
    /\ path = NoPath => \E t \in Threads : pc[t] = "setPath"
    /\ path \in folders \cup {NoPath} \/ \E t \in Threads : pc[t] = "mkdir"

(* The lines of the files, and the one that is not yet in a file. *)
LineInv ==
    \A f \in DOMAIN files : \A j \in DOMAIN files[f].lines :
        LET q == files[f].lines[j]
        IN  /\ q.n <= nLine /\ 1 <= q.ts /\ q.run <= run
            /\ q.ts <= now /\ (lastTs = 0 \/ q.ts <= lastTs)

PendingInv ==
    \A t \in Threads : Unwritten(t) =>
        /\ line[t].n = nLine /\ line[t].run = run
        /\ lastTs <= line[t].ts /\ 1 <= line[t].ts /\ line[t].ts <= now
        /\ \A f \in DOMAIN files : \A j \in DOMAIN files[f].lines :
              files[f].lines[j].n < nLine /\ files[f].lines[j].ts <= line[t].ts

(* lastTs is the time of the line printed last. *)
RecentInv ==
    \A f \in DOMAIN files : \A j \in DOMAIN files[f].lines :
        LET q == files[f].lines[j]
        IN  q.run = run /\ (q.n = nLine \/ (q.n = nLine - 1 /\ \E t \in Threads : Unwritten(t)))
              => q.ts = lastTs

(* What Check and BackupFile leave to the steps after them. *)
Rotates(f, ts) ==
    \/ SizeOf(f) >= setting.size
    \/ setting.day # 0 /\ ts % setting.day < lastTs % setting.day

Fits(f, ts) ==
    /\ SizeOf(f) < setting.size
    /\ \/ setting.day = 0
       \/ lastTs % setting.day <= ts % setting.day
       \/ f \in DOMAIN files => files[f].lines = <<>>

StepInv ==
    \A t \in Threads :
        /\ pc[t] = "backup" => path = NoPath \/ Rotates(<<path, Log>>, line[t].ts)
        /\ pc[t] = "open"   => path = NoPath \/ Fits(<<path, Log>>, line[t].ts)
        /\ pc[t] = "write"  => /\ fd[t] \in Paths /\ <<fd[t], Log>> \in DOMAIN files
                               /\ Fits(<<fd[t], Log>>, line[t].ts)

(* Second k is over for the next backup. *)
Passed(k) ==
    k < now /\ lastTs # k /\ \A t \in Threads : Unwritten(t) => k < line[t].ts

Renamed(t) == pc[t] \in {"open", "write"}

(* What a backup that the next one would replace is like: it has the name  *)
(* of second 0, of a run before this one; or it is full, unless a line of  *)
(* a later second is being printed.  The lines printed since are not older *)
(* than its name.                                                          *)
BackupAt(p, k) ==
    /\ k <= now /\ (lastTs = 0 \/ k <= lastTs)
    /\ \A t \in Threads : Unwritten(t) => k <= line[t].ts
    /\ k = 0 => run # 0 /\ (lastTs # 0 \/ run >= 2 \/ \E t \in Threads : Renamed(t))
    /\ k # 0 => \/ Passed(k)
                \/ files[<<p, k>>].size >= setting.size
                \/ \E t \in Threads : Renamed(t) /\ k < line[t].ts
    /\ <<p, Log>> \in DOMAIN files =>
          \A j \in DOMAIN files[<<p, Log>>].lines : k <= files[<<p, Log>>].lines[j].ts

BackupInv == \A p \in Paths, k \in Times : <<p, k>> \in DOMAIN files => BackupAt(p, k)

(* The lines of a path in the order of the names: what LinesInOrder says. *)
Sorted ==
    \A f, g \in DOMAIN files :
        f[1] = g[1] /\ f[2] # 0 /\ g[2] # 0 =>
            \A j \in DOMAIN files[f].lines, k \in DOMAIN files[g].lines :
                f[2] < g[2] \/ (f = g /\ j < k) => files[f].lines[j].n < files[g].lines[k].n

(* Before the first line is written there is no file but an empty one. *)
FirstInv ==
    run = 0 /\ lastTs = 0 => DOMAIN files = {} \/ \E t \in Threads : pc[t] = "write"

IndInv ==
    /\ TypeOK /\ MutexInv /\ PathInv /\ LineInv /\ PendingInv /\ RecentInv
    /\ StepInv /\ BackupInv /\ FirstInv
    /\ LostInReplacedOnly /\ Sorted /\ Rotated

------------------------------------------------------------------------------
(* Arithmetic. *)

LEMMA SettingFacts ==
    ASSUME NEW s \in Settings
    PROVE  s.day \in Nat /\ s.size \in Nat \ {0}
BY SettingsAssumption

LEMMA ModFacts ==
    ASSUME NEW a \in Nat, NEW d \in Nat \ {0}
    PROVE  a % d \in 0 .. d - 1 /\ a \div d \in Nat /\ a = d * (a \div d) + (a % d)
OBVIOUS

LEMMA Steps ==
    ASSUME NEW d \in Nat, NEW i \in Nat, NEW j \in Nat, i < j
    PROVE  d * i + d <= d * j
<1>1. PICK e \in Nat : j = i + 1 + e
  <2>1. j - i - 1 \in Nat /\ j = i + 1 + (j - i - 1)
    OBVIOUS
  <2> QED
    BY <2>1
<1>2. d * j = d * i + d + d * e
  BY <1>1
<1>3. d * e \in Nat /\ d * i \in Nat
  OBVIOUS
<1> QED
  BY <1>2, <1>3

(* Two times less than a period apart, the second not earlier within its   *)
(* period than the first in its own, are of one period.                    *)
LEMMA SamePeriod ==
    ASSUME NEW a \in Nat, NEW b \in Nat, NEW d \in Nat \ {0},
           a <= b, b - a < d, a % d <= b % d
    PROVE  b \div d = a \div d
<1>1. PICK i \in Nat, j \in Nat, r \in 0 .. d - 1, s \in 0 .. d - 1 :
        /\ i = a \div d /\ j = b \div d /\ r = a % d /\ s = b % d
        /\ a = d * i + r /\ b = d * j + s
  <2>1. /\ a % d \in 0 .. d - 1 /\ a \div d \in Nat /\ a = d * (a \div d) + (a % d)
        /\ b % d \in 0 .. d - 1 /\ b \div d \in Nat /\ b = d * (b \div d) + (b % d)
    BY ModFacts
  <2> QED
    BY <2>1, Zenon
<1>2. r <= s
  BY <1>1
<1>3. d * i \in Nat /\ d * j \in Nat
  OBVIOUS
<1>4. CASE i < j
  <2>1. d * i + d <= d * j
    BY <1>4, Steps
  <2> QED
    BY <1>1, <1>2, <1>3, <2>1
<1>5. CASE j < i
  <2>1. d * j + d <= d * i
    BY <1>5, Steps
  <2> QED
    BY <1>1, <1>2, <1>3, <2>1
<1> QED
  BY <1>1, <1>4, <1>5

LEMMA LineFacts ==
    ASSUME NEW l \in Lines
    PROVE  /\ l.n \in Nat /\ l.n \in 0 .. MaxLines /\ l.ts \in Nat /\ l.ts \in Times
           /\ l.size \in Nat /\ l.run \in Nat
<1>1. l.n \in 0 .. MaxLines /\ l.ts \in 0 .. MaxTime /\ l.size \in Sizes \cup {0} /\ l.run \in 0 .. MaxRestarts
  BY DEF Lines, Times
<1>2. \A i, m : m \in Nat /\ i \in 0 .. m => i \in Nat
  OBVIOUS
<1>3. \A x \in Sizes \cup {0} : x \in Nat
  BY SizesAssumption
<1>4. l.size \in Nat
  BY <1>1, <1>3
<1> QED
  BY <1>1, <1>2, <1>4, BoundsAssumption DEF Times

------------------------------------------------------------------------------
(* The files. *)

(* What rename, open and write do to them. *)
LEMMA BackupFiles ==
    ASSUME NEW t \in Threads, BackupFile(t), <<path, Log>> \in DOMAIN files,
           lastTs # Log
    PROVE  LET f == <<path, Log>>
               b == <<path, lastTs>>
           IN  /\ DOMAIN files' = (DOMAIN files \ {f}) \cup {b} /\ b # f
               /\ files'[b] = files[f]
               /\ \A g \in DOMAIN files' : g # b => files'[g] = files[g]
BY DEF BackupFile

LEMMA OpenFiles ==
    ASSUME NEW t \in Threads, Open(t), path \in folders
    PROVE  LET f == <<path, Log>>
           IN  /\ DOMAIN files' = DOMAIN files \cup {f}
               /\ \A g \in DOMAIN files : files'[g] = files[g]
               /\ f \notin DOMAIN files => files'[f].lines = <<>> /\ files'[f].size = 0
BY DEF Open

LEMMA WriteFiles ==
    ASSUME TypeOK, NEW t \in Threads, Write(t), <<fd[t], Log>> \in DOMAIN files
    PROVE  LET f == <<fd[t], Log>>
               n == Len(files[f].lines)
           IN  /\ DOMAIN files' = DOMAIN files
               /\ \A g \in DOMAIN files : g # f => files'[g] = files[g]
               /\ files'[f].size = files[f].size + line[t].size
               /\ files'[f].lines \in Seq(Lines)
               /\ n \in Nat /\ DOMAIN files[f].lines = 1 .. n
               /\ DOMAIN files'[f].lines = 1 .. n + 1 /\ Len(files'[f].lines) = n + 1
               /\ files'[f].lines[n + 1] = line[t]
               /\ \A j \in 1 .. n : files'[f].lines[j] = files[f].lines[j]
<1> DEFINE f == <<fd[t], Log>>
<1>1. files[f].lines \in Seq(Lines) /\ line[t] \in Lines
  BY DEF TypeOK
<1>2. /\ DOMAIN files' = DOMAIN files
      /\ \A g \in DOMAIN files : g # f => files'[g] = files[g]
      /\ files'[f].lines = Append(files[f].lines, line[t])
      /\ files'[f].size = files[f].size + line[t].size
  BY DEF Write
<1> QED
  BY <1>1, <1>2

LEMMA InitTyped == Init => TypeOK
BY BoundsAssumption, NoPathAssumption DEF Init, TypeOK, Lines, NoLine, Times

LEMMA TypeStep ==
    ASSUME IndInv, [Next]_vars
    PROVE  TypeOK'
<1> USE BoundsAssumption, SizesAssumption, NoPathAssumption DEF fileVars, counters, Goto
<1>1. TypeOK /\ lastTs # Log /\ Log \notin Times
  BY DEF IndInv, TypeOK, Times, Log
<1>2. ASSUME NEW t \in Threads, NEW size \in Sizes, Lock(t, size)
      PROVE  TypeOK'
  <2>1. line'[t] \in Lines
    BY <1>1, <1>2 DEF Lock, TypeOK, Lines, Times
  <2> QED
    BY <1>1, <1>2, <2>1 DEF Lock, vlog_lock, TypeOK, Times
<1>3. ASSUME NEW t \in Threads, Check(t)
      PROVE  TypeOK'
  BY <1>1, <1>3 DEF Check, TypeOK
<1>4. ASSUME NEW t \in Threads, BackupFile(t)
      PROVE  TypeOK'
  <2>1. CASE <<path, Log>> \in DOMAIN files
    <3>1. path \in Paths /\ lastTs \in Times
      BY <1>1, <2>1 DEF TypeOK, Times
    <3>2. DOMAIN files' \subseteq Paths \X (Times \cup {Log})
      BY <1>1, <1>4, <2>1, <3>1, BackupFiles DEF TypeOK
    <3>3. \A f \in DOMAIN files' : files'[f].lines \in Seq(Lines) /\ files'[f].size \in Nat
      BY <1>1, <1>4, <2>1, BackupFiles DEF TypeOK
    <3> QED
      BY <1>1, <1>4, <3>2, <3>3 DEF BackupFile, TypeOK
  <2>2. CASE <<path, Log>> \notin DOMAIN files
    BY <1>1, <1>4, <2>2 DEF BackupFile, TypeOK
  <2> QED
    BY <2>1, <2>2
<1>5. ASSUME NEW t \in Threads, Open(t)
      PROVE  TypeOK'
  <2>0. lastTs' \in 0 .. now
    <3>1. line[t] \in Lines /\ pc[t] = "open" /\ lastTs \in 0 .. now
      BY <1>1, <1>5 DEF Open, TypeOK
    <3>2. line[t].ts \in Nat /\ line[t].ts <= now
      BY <3>1, LineFacts DEF IndInv, PendingInv, Unwritten, Pending
    <3>3. lastTs' \in {lastTs, line[t].ts}
      BY <1>5 DEF Open, LastTs
    <3> QED
      BY <1>1, <3>1, <3>2, <3>3 DEF TypeOK, Times
  <2>1. CASE path \in folders
    <3>1. DOMAIN files' \subseteq Paths \X (Times \cup {Log})
      BY <1>1, <1>5, <2>1, OpenFiles DEF TypeOK
    <3>2. \A f \in DOMAIN files' : files'[f].lines \in Seq(Lines) /\ files'[f].size \in Nat
      <4>1. <<>> \in Seq(Lines)
        OBVIOUS
      <4>2. ASSUME NEW f \in DOMAIN files', f \notin DOMAIN files
            PROVE  files'[f].lines = <<>> /\ files'[f].size = 0
        <5>1. f = <<path, Log>>
          BY <1>5, <2>1, <4>2, OpenFiles
        <5> QED
          BY <1>5, <2>1, <4>2, <5>1, OpenFiles
      <4>3. ASSUME NEW f \in DOMAIN files', f \in DOMAIN files
            PROVE  files'[f] = files[f]
        BY <1>5, <2>1, <4>3, OpenFiles
      <4>4. ASSUME NEW f \in DOMAIN files'
            PROVE  files'[f].lines \in Seq(Lines) /\ files'[f].size \in Nat
        <5>1. CASE f \in DOMAIN files
          BY <1>1, <4>3, <5>1 DEF TypeOK
        <5>2. CASE f \notin DOMAIN files
          <6>1. files'[f].lines = <<>> /\ files'[f].size = 0
            BY <4>2, <5>2
          <6>2. files'[f].lines \in Seq(Lines)
            BY <4>1, <6>1, Zenon
          <6> QED
            BY <6>1, <6>2
        <5> QED
          BY <5>1, <5>2
      <4> QED
        BY <4>4
    <3> QED
      BY <1>1, <1>5, <2>0, <2>1, <3>1, <3>2 DEF Open, TypeOK
  <2>2. CASE path \notin folders
    <3>1. pc' \in [Threads -> {"idle", "check", "backup", "open", "write", "unlock", "setPath", "mkdir"}]
      BY <1>1, <1>5, <2>2 DEF Open, TypeOK
    <3>2. dropped' \subseteq Lines
      BY <1>1, <1>5, <2>2 DEF Open, TypeOK
    <3> QED
      BY <1>1, <1>5, <2>0, <2>2, <3>1, <3>2 DEF Open, TypeOK
  <2> QED
    BY <2>1, <2>2
<1>6. ASSUME NEW t \in Threads, Write(t)
      PROVE  TypeOK'
  <2>1. lastTs' \in 0 .. now /\ line[t] \in Lines /\ <<fd[t], Log>> \in DOMAIN files
    <3>1. line[t] \in Lines /\ pc[t] = "write" /\ lastTs' = line[t].ts
      BY <1>1, <1>6 DEF Write, LastTs, TypeOK
    <3>2. line[t].ts \in Nat /\ line[t].ts <= now
      BY <3>1, LineFacts DEF IndInv, PendingInv, Unwritten, Pending
    <3>3. <<fd[t], Log>> \in DOMAIN files
      BY <3>1 DEF IndInv, StepInv
    <3> QED
      BY <1>1, <3>1, <3>2, <3>3 DEF TypeOK, Times
  <2>2. line[t].size \in Nat
    BY <2>1, LineFacts
  <2>3. \A f \in DOMAIN files' : files'[f].lines \in Seq(Lines) /\ files'[f].size \in Nat
    BY <1>1, <1>6, <2>1, <2>2, WriteFiles DEF TypeOK
  <2>4. DOMAIN files' = DOMAIN files /\ written' \subseteq Lines
    BY <1>1, <1>6, <2>1, WriteFiles DEF Write, TypeOK
  <2> QED
    BY <1>1, <1>6, <2>1, <2>3, <2>4 DEF Write, TypeOK
<1>7. ASSUME NEW t \in Threads, Unlock(t)
      PROVE  TypeOK'
  <2>1. NoLine \in Lines
    BY DEF NoLine, Lines, Times
  <2> QED
    BY <1>1, <1>7, <2>1 DEF Unlock, TypeOK
<1>8. ASSUME NEW t \in Threads, ClearPath(t) \/ SetPath(t)
      PROVE  TypeOK'
  BY <1>1, <1>8 DEF ClearPath, SetPath, TypeOK
<1>9. ASSUME NEW t \in Threads, Mkdir(t)
      PROVE  TypeOK'
  <2>1. path # NoPath
    BY <1>9 DEF Mkdir, IndInv, PathInv, SettingPath
  <2> QED
    BY <1>1, <1>9, <2>1 DEF Mkdir, fd_mkdir, TypeOK
<1>10. ASSUME Restart
       PROVE  TypeOK'
  <2>1. NoLine \in Lines
    BY DEF NoLine, Lines, Times
  <2> QED
    <3>1. run' \in 0 .. MaxRestarts /\ lastTs' \in 0 .. now' /\ now' \in Times \ {0}
      BY <1>1, <1>10 DEF Restart, TypeOK, Times
    <3>2. /\ pc' \in [Threads -> {"idle", "check", "backup", "open", "write", "unlock", "setPath", "mkdir"}]
          /\ line' \in [Threads -> Lines] /\ fd' \in [Threads -> Paths \cup {NoPath}]
      BY <1>1, <1>10, <2>1 DEF Restart
    <3>3. path' \in Paths /\ folders' \subseteq Paths /\ mutex' \subseteq Threads
      BY <1>1, <1>10 DEF Restart, TypeOK
    <3> QED
      BY <1>1, <1>10, <3>1, <3>2, <3>3 DEF Restart, TypeOK
<1>11. ASSUME Tick
       PROVE  TypeOK'
  BY <1>1, <1>11 DEF Tick, TypeOK, Times
<1>12. ASSUME UNCHANGED vars
       PROVE  TypeOK'
  BY <1>1, <1>12 DEF vars, TypeOK
<1> QED
  BY <1>2, <1>3, <1>4, <1>5, <1>6, <1>7, <1>8, <1>9, <1>10, <1>11, <1>12 DEF Next, PrintLine, Ended

------------------------------------------------------------------------------
(* The control: one thread is inside, and one at most sets the path. *)

LEMMA Alone ==
    ASSUME TypeOK, MutexInv
    PROVE  /\ mutex = {} => \A u \in Threads : pc[u] \notin Inside
           /\ \A t, u \in Threads : pc[t] \in Inside /\ pc[u] \in Inside => t = u
           /\ \A t \in Threads : Unwritten(t) => pc[t] \in Inside
           /\ \A t \in Threads : Renamed(t) => Unwritten(t)
           /\ \A t \in Threads : pc[t] \in Inside \/ SettingPath(t) \/ pc[t] = "idle"
<1>1. \A t \in Threads : t \in mutex <=> pc[t] \in Inside
  BY DEF MutexInv
<1>2. \A t, u \in mutex : t = u
  BY DEF MutexInv
<1>3. \A t \in Threads : pc[t] \in Inside \/ SettingPath(t) \/ pc[t] = "idle"
  BY DEF TypeOK, Inside, SettingPath
<1> QED
  BY <1>1, <1>2, <1>3 DEF Inside, Pending, Unwritten, Renamed

LEMMA ControlStep ==
    ASSUME TypeOK, MutexInv, PathInv, [Next]_vars
    PROVE  MutexInv' /\ PathInv'
<1> USE NoPathAssumption DEF fileVars, counters, Goto, Inside, SettingPath
<1> DEFINE T == pc \in [Threads -> {"idle", "check", "backup", "open", "write", "unlock",
                                    "setPath", "mkdir"}] /\ mutex \subseteq Threads
<1>1. T /\ folders \subseteq Paths
  BY DEF TypeOK
<1>2. ASSUME NEW t \in Threads, \E size \in Sizes : Lock(t, size)
      PROVE  MutexInv' /\ PathInv'
  <2>1. /\ pc[t] = "idle" /\ mutex = {} /\ mutex' = {t} /\ pc' = [pc EXCEPT ![t] = "check"]
        /\ path' = path /\ folders' = folders
    BY <1>2 DEF Lock, vlog_lock
  <2> QED
    BY <1>1, <2>1 DEF MutexInv, PathInv
<1>3. ASSUME NEW t \in Threads, Check(t) \/ BackupFile(t) \/ Open(t) \/ Write(t)
      PROVE  MutexInv' /\ PathInv'
  <2>1. PICK l \in Inside : pc' = [pc EXCEPT ![t] = l]
    <3>1. CASE Check(t)
      BY <3>1 DEF Check
    <3>2. CASE BackupFile(t) \/ Write(t)
      BY <3>2 DEF BackupFile, Write
    <3>3. CASE Open(t)
      BY <3>3 DEF Open
    <3> QED
      BY <1>3, <3>1, <3>2, <3>3
  <2>2. pc[t] \in Pending /\ mutex' = mutex /\ path' = path /\ folders' = folders
    BY <1>3 DEF Check, BackupFile, Open, Write, Pending
  <2> QED
    BY <1>1, <2>1, <2>2 DEF MutexInv, PathInv, Pending
<1>4. ASSUME NEW t \in Threads, Unlock(t)
      PROVE  MutexInv' /\ PathInv'
  <2>1. /\ pc[t] = "unlock" /\ mutex' = mutex \ {t} /\ pc' = [pc EXCEPT ![t] = "idle"]
        /\ path' = path /\ folders' = folders
    BY <1>4 DEF Unlock
  <2> QED
    BY <1>1, <2>1 DEF MutexInv, PathInv
<1>5. ASSUME NEW t \in Threads, ClearPath(t)
      PROVE  MutexInv' /\ PathInv'
  <2>1. /\ pc[t] = "idle" /\ mutex' = mutex /\ pc' = [pc EXCEPT ![t] = "setPath"]
        /\ path' = NoPath /\ folders' = folders
        /\ \A u \in Threads : pc[u] # "setPath" /\ pc[u] # "mkdir"
    BY <1>5 DEF ClearPath
  <2> QED
    BY <1>1, <2>1 DEF MutexInv, PathInv
<1>6. ASSUME NEW t \in Threads, SetPath(t)
      PROVE  MutexInv' /\ PathInv'
  <2>1. /\ pc[t] = "setPath" /\ mutex' = mutex /\ pc' = [pc EXCEPT ![t] = "mkdir"]
        /\ path' \in Paths /\ folders' = folders
    BY <1>6 DEF SetPath
  <2> QED
    BY <1>1, <2>1 DEF MutexInv, PathInv
<1>7. ASSUME NEW t \in Threads, Mkdir(t)
      PROVE  MutexInv' /\ PathInv'
  <2>1. /\ pc[t] = "mkdir" /\ mutex' = mutex /\ pc' = [pc EXCEPT ![t] = "idle"]
        /\ path' = path /\ folders' = folders \cup {path}
    BY <1>7 DEF Mkdir, fd_mkdir
  <2> QED
    BY <1>1, <2>1 DEF MutexInv, PathInv
<1>8. ASSUME Restart
      PROVE  MutexInv' /\ PathInv'
  <2>1. /\ mutex' = {} /\ pc' = [t \in Threads |-> "idle"]
        /\ path' \in Paths /\ path' \in folders'
    BY <1>8 DEF Restart
  <2> QED
    BY <1>1, <2>1 DEF MutexInv, PathInv
<1>9. ASSUME Tick \/ UNCHANGED vars
      PROVE  MutexInv' /\ PathInv'
  <2>1. mutex' = mutex /\ pc' = pc /\ path' = path /\ folders' = folders
    BY <1>9 DEF Tick, vars
  <2> QED
    BY <2>1 DEF MutexInv, PathInv
<1> QED
  BY <1>2, <1>3, <1>4, <1>5, <1>6, <1>7, <1>8, <1>9 DEF Next, PrintLine, Ended

------------------------------------------------------------------------------
(* The next backup, and the one it replaces if there is one of its name. *)

LEMMA SizeOfFacts ==
    ASSUME TypeOK, NEW f
    PROVE  /\ SizeOf(f) \in Nat
           /\ f \in DOMAIN files => SizeOf(f) = files[f].size
BY DEF TypeOK, SizeOf

LEMMA BackupName ==
    ASSUME IndInv, NEW t \in Threads, pc[t] = "backup", <<path, Log>> \in DOMAIN files
    PROVE  /\ path \in Paths /\ path # NoPath /\ lastTs \in Times /\ lastTs # Log
           /\ lastTs = 0 => run # 0
           /\ lastTs < line[t].ts \/ SizeOf(<<path, Log>>) >= setting.size
           /\ setting.day = 0 => SizeOf(<<path, Log>>) >= setting.size
<1> USE BoundsAssumption, NoPathAssumption
<1>1. TypeOK /\ MutexInv /\ PendingInv /\ StepInv /\ FirstInv
  BY DEF IndInv
<1>2. path \in Paths /\ path # NoPath /\ lastTs \in Times /\ lastTs # Log
  BY <1>1 DEF TypeOK, Times, Log
<1>3. \A u \in Threads : pc[u] # "write"
  BY <1>1, Alone DEF Inside
<1>4. Rotates(<<path, Log>>, line[t].ts)
  BY <1>1, <1>2 DEF StepInv
<1>5. line[t].ts \in Nat /\ lastTs <= line[t].ts /\ lastTs \in Nat
  <2>1. line[t] \in Lines /\ Unwritten(t)
    BY <1>1 DEF TypeOK, Unwritten, Pending
  <2> QED
    BY <1>1, <1>2, <2>1, LineFacts DEF PendingInv, Times
<1>6. lastTs = 0 => run # 0
  BY <1>1, <1>3 DEF FirstInv
<1>7. setting.day \in Nat
  BY <1>1, SettingFacts DEF TypeOK
<1>8. ASSUME setting.day # 0, line[t].ts % setting.day < lastTs % setting.day
      PROVE  lastTs < line[t].ts
  <2>1. lastTs % setting.day \in 0 .. setting.day - 1
    BY <1>5, <1>7, <1>8, ModFacts
  <2>2. lastTs # line[t].ts
    BY <1>8, <2>1
  <2> QED
    BY <1>5, <2>2
<1> QED
  BY <1>2, <1>4, <1>6, <1>8 DEF Rotates

(* A backup that is replaced is full, and what takes its place is of the   *)
(* second of its name; or both are the first backup after a restart.       *)
LEMMA ReplacedFull ==
    ASSUME IndInv, NEW t \in Threads, pc[t] = "backup", <<path, Log>> \in DOMAIN files,
           <<path, lastTs>> \in DOMAIN files
    PROVE  IF lastTs = 0 THEN run >= 2
           ELSE /\ files[<<path, lastTs>>].size >= setting.size
                /\ \A l \in LinesIn(files[<<path, Log>>]) : l.ts = lastTs
                /\ setting.day = 0 => files[<<path, Log>>].size >= setting.size
<1>1. TypeOK /\ MutexInv /\ BackupInv /\ LineInv
  BY DEF IndInv
<1>2. /\ path \in Paths /\ lastTs \in Times
      /\ setting.day = 0 => files[<<path, Log>>].size >= setting.size
  BY <1>1, BackupName DEF SizeOf
<1>3. \A u \in Threads : ~Renamed(u)
  BY <1>1, Alone DEF Renamed, Inside
<1>4. /\ lastTs = 0 => run >= 2
      /\ lastTs # 0 => files[<<path, lastTs>>].size >= setting.size
      /\ \A j \in DOMAIN files[<<path, Log>>].lines : lastTs <= files[<<path, Log>>].lines[j].ts
  BY <1>1, <1>2, <1>3 DEF BackupInv, BackupAt, Passed
<1>5. ASSUME lastTs # 0, NEW j \in DOMAIN files[<<path, Log>>].lines
      PROVE  files[<<path, Log>>].lines[j].ts = lastTs
  <2>1. files[<<path, Log>>].lines[j].ts <= lastTs
    BY <1>1, <1>5 DEF LineInv
  <2>2. files[<<path, Log>>].lines[j].ts \in Nat /\ lastTs \in Nat
    <3>1. files[<<path, Log>>].lines[j] \in Lines
      BY <1>1 DEF TypeOK
    <3> QED
      BY <1>2, <3>1, LineFacts, BoundsAssumption DEF Times
  <2> QED
    BY <1>4, <2>1, <2>2
<1> QED
  BY <1>2, <1>4, <1>5 DEF LinesIn

------------------------------------------------------------------------------
(* What the files hold, over each step that changes them. *)

FilesInv == LostInReplacedOnly /\ Sorted /\ Rotated

LEMMA BackupKeepsLines ==
    ASSUME IndInv, NEW t \in Threads, BackupFile(t), <<path, Log>> \in DOMAIN files
    PROVE  FilesInv'
<1> DEFINE f == <<path, Log>>
           b == <<path, lastTs>>
<1>1. TypeOK /\ LostInReplacedOnly /\ Sorted /\ Rotated /\ BackupInv
  BY DEF IndInv
<1>2. /\ pc[t] = "backup" /\ lastTs \in Times /\ lastTs # Log /\ path \in Paths
      /\ written' = written /\ setting' = setting
  BY BackupName DEF BackupFile
<1>3. /\ DOMAIN files' = (DOMAIN files \ {f}) \cup {b} /\ b # f /\ f \in DOMAIN files
      /\ files'[b] = files[f]
      /\ \A g \in DOMAIN files' : g # b => files'[g] = files[g]
  BY <1>2, BackupFiles
(* The file that each file was before. *)
<1> DEFINE Was(g) == IF g = b THEN f ELSE g
<1>4. /\ \A g \in DOMAIN files' : Was(g) \in DOMAIN files /\ files'[g] = files[Was(g)]
      /\ \A g, h \in DOMAIN files' : Was(g) = Was(h) => g = h
      /\ \A g \in DOMAIN files : g = b \/ \E h \in DOMAIN files' : Was(h) = g
  BY <1>2, <1>3
<1>5. \A g \in DOMAIN files' : LinesOf(g)' = LinesOf(Was(g))
  BY <1>4 DEF LinesOf
<1>6. LostInReplacedOnly'
  <2> DEFINE x    == [second |-> lastTs, run |-> run, old |-> files[b], new |-> files[f]]
             Kept == {LinesOf(g) : g \in DOMAIN files}
             Lost == {LinesIn(y.old) : y \in replaced}
  <2>1. replaced' = IF b \in DOMAIN files THEN replaced \cup {x} ELSE replaced
    BY <1>3 DEF BackupFile
  <2>2. b \in DOMAIN files =>
          /\ LinesIn(x.old) = LinesOf(b)
          /\ IF x.second = 0 THEN x.run >= 2
             ELSE /\ x.old.size >= setting.size
                  /\ \A l \in LinesIn(x.new) : l.ts = x.second
                  /\ setting.day = 0 => x.new.size >= setting.size
    <3>1. ASSUME b \in DOMAIN files
          PROVE  IF lastTs = 0 THEN run >= 2
                 ELSE /\ files[b].size >= setting.size
                      /\ \A l \in LinesIn(files[f]) : l.ts = lastTs
                      /\ setting.day = 0 => files[f].size >= setting.size
      BY <1>2, <1>3, <3>1, ReplacedFull
    <3> QED
      BY <3>1 DEF LinesIn, LinesOf
  <2> HIDE DEF x
  <2>3. UNION ({LinesOf(g)' : g \in DOMAIN files'} \cup {LinesIn(y.old) : y \in replaced'})
          = UNION (Kept \cup Lost)
    <3> HIDE DEF Was
    <3>1. \A g \in DOMAIN files : g # b => \E h \in DOMAIN files' : LinesOf(h)' = LinesOf(g)
      BY <1>4, <1>5
    <3>2. \A h \in DOMAIN files' : \E g \in DOMAIN files : LinesOf(h)' = LinesOf(g)
      BY <1>4, <1>5
    <3>3. \A y \in replaced' : y \in replaced \/ (b \in DOMAIN files /\ LinesIn(y.old) = LinesOf(b))
      BY <2>1, <2>2
    <3>4. /\ \A y \in replaced : y \in replaced'
          /\ b \in DOMAIN files => x \in replaced' /\ LinesIn(x.old) = LinesOf(b)
      BY <2>1, <2>2
    <3>5. ASSUME NEW l, l \in UNION (Kept \cup Lost)
          PROVE  l \in UNION ({LinesOf(g)' : g \in DOMAIN files'} \cup {LinesIn(y.old) : y \in replaced'})
      <4>1. CASE \E g \in DOMAIN files : l \in LinesOf(g)
        BY <3>1, <3>4, <4>1
      <4>2. CASE \E y \in replaced : l \in LinesIn(y.old)
        BY <3>4, <4>2
      <4> QED
        BY <3>5, <4>1, <4>2
    <3>6. ASSUME NEW l, l \in UNION ({LinesOf(g)' : g \in DOMAIN files'} \cup {LinesIn(y.old) : y \in replaced'})
          PROVE  l \in UNION (Kept \cup Lost)
      <4>1. CASE \E h \in DOMAIN files' : l \in LinesOf(h)'
        BY <3>2, <4>1
      <4>2. CASE \E y \in replaced' : l \in LinesIn(y.old)
        BY <3>3, <4>2
      <4> QED
        BY <3>6, <4>1, <4>2
    <3> QED
      BY <3>5, <3>6
  <2>4. \A g, h \in DOMAIN files' : LinesOf(g)' \cap LinesOf(h)' # {} => g = h
    <3> HIDE DEF Was
    <3> QED
      BY <1>1, <1>4, <1>5 DEF LostInReplacedOnly
  <2>5. \A y \in replaced' :
          IF y.second = 0 THEN y.run >= 2
          ELSE /\ y.old.size >= setting.size
               /\ \A l \in LinesIn(y.new) : l.ts = y.second
               /\ setting.day = 0 => y.new.size >= setting.size
    BY <1>1, <2>1, <2>2, Zenon DEF LostInReplacedOnly
  <2> QED
    BY <1>1, <1>2, <2>3, <2>4, <2>5 DEF LostInReplacedOnly, LinesIn
<1>7. Sorted'
  <2> SUFFICES ASSUME NEW g \in DOMAIN files', NEW h \in DOMAIN files',
                      g[1] = h[1], g[2] # 0, h[2] # 0,
                      NEW j \in DOMAIN files'[g].lines, NEW k \in DOMAIN files'[h].lines,
                      g[2] < h[2] \/ (g = h /\ j < k)
               PROVE  files'[g].lines[j].n < files'[h].lines[k].n
    BY DEF Sorted
  <2>1. /\ files'[g] = files[Was(g)] /\ files'[h] = files[Was(h)]
        /\ Was(g) \in DOMAIN files /\ Was(h) \in DOMAIN files
    BY <1>4
  <2>2. Was(g)[1] = Was(h)[1] /\ Was(g)[2] # 0 /\ Was(h)[2] # 0
    BY <1>2, BoundsAssumption DEF Log
  <2>3. Was(g)[2] < Was(h)[2] \/ (Was(g) = Was(h) /\ j < k)
    <3>1. CASE g = h
      <4>1. ~(g[2] < h[2])
        <5>1. g[2] \in Int
          BY <1>1, <1>2, <1>3, BoundsAssumption DEF TypeOK, Times, Log
        <5> QED
          BY <3>1, <5>1
      <4> QED
        BY <3>1, <4>1
    <3>2. CASE g # h /\ h = b
      <4>1. g \in DOMAIN files /\ g # b /\ g # f
        BY <1>3, <3>2
      <4>2. g[2] < lastTs /\ lastTs < Log
        BY <1>2, <3>2, BoundsAssumption DEF Log, Times
      <4>3. g[2] \in Int /\ lastTs \in Int /\ Log \in Int
        BY <1>1, <1>2, <4>1, BoundsAssumption DEF TypeOK, Times, Log
      <4> QED
        BY <3>2, <4>1, <4>2, <4>3
    <3>3. CASE g # h /\ g = b
      <4>1. h \in DOMAIN files /\ h # b /\ h # f
        BY <1>3, <3>3
      <4>2. PICK p \in Paths, i \in Times \cup {Log} : h = <<p, i>>
        BY <1>1, <4>1 DEF TypeOK
      <4>3. p = path /\ i # Log /\ i \in Times /\ lastTs < i
        BY <3>3, <4>1, <4>2
      <4>4. lastTs = 0 \/ i <= lastTs
        BY <1>1, <1>2, <4>1, <4>2, <4>3 DEF BackupInv, BackupAt
      <4>5. lastTs # 0
        BY <3>3
      <4> QED
        BY <1>2, <4>3, <4>4, <4>5, BoundsAssumption DEF Times
    <3>4. CASE g # h /\ g # b /\ h # b
      BY <3>4
    <3> QED
      BY <3>1, <3>2, <3>3, <3>4
  <2>4. j \in DOMAIN files[Was(g)].lines /\ k \in DOMAIN files[Was(h)].lines
    BY <2>1
  <2> HIDE DEF Was
  <2>5. files[Was(g)].lines[j].n < files[Was(h)].lines[k].n
    BY <1>1, <2>1, <2>2, <2>3, <2>4 DEF Sorted
  <2> QED
    BY <2>1, <2>5
<1>8. Rotated'
  <2> HIDE DEF Was
  <2> QED
    BY <1>1, <1>2, <1>4 DEF Rotated
<1> QED
  BY <1>6, <1>7, <1>8 DEF FilesInv

LEMMA OpenKeepsLines ==
    ASSUME IndInv, NEW t \in Threads, Open(t), path \in folders
    PROVE  FilesInv'
<1> DEFINE f == <<path, Log>>
<1>1. TypeOK /\ LostInReplacedOnly /\ Sorted /\ Rotated
  BY DEF IndInv
<1>2. /\ written' = written /\ setting' = setting /\ replaced' = replaced
      /\ DOMAIN files' = DOMAIN files \cup {f}
      /\ \A g \in DOMAIN files : files'[g] = files[g]
  BY OpenFiles DEF Open
<1>3. ASSUME NEW g \in DOMAIN files', g \notin DOMAIN files
      PROVE  files'[g].lines = <<>>
  BY <1>2, <1>3, OpenFiles
<1>4. \A g \in DOMAIN files' : g \notin DOMAIN files => DOMAIN files'[g].lines = {}
  <2>1. DOMAIN <<>> = {}
    OBVIOUS
  <2> QED
    BY <1>3, <2>1, Zenon
<1>5. \A g \in DOMAIN files : LinesOf(g)' = LinesOf(g)
  BY <1>2 DEF LinesOf
<1>6. \A g \in DOMAIN files' : g \notin DOMAIN files => LinesOf(g)' = {}
  BY <1>4 DEF LinesOf
<1>7. LostInReplacedOnly'
  <2>1. UNION ({LinesOf(g)' : g \in DOMAIN files'} \cup {LinesIn(x.old) : x \in replaced})
          = UNION ({LinesOf(g) : g \in DOMAIN files} \cup {LinesIn(x.old) : x \in replaced})
    BY <1>2, <1>5, <1>6
  <2>2. \A g, h \in DOMAIN files' : LinesOf(g)' \cap LinesOf(h)' # {} => g = h
    BY <1>1, <1>2, <1>5, <1>6 DEF LostInReplacedOnly
  <2> QED
    BY <1>1, <1>2, <2>1, <2>2 DEF LostInReplacedOnly, LinesIn
<1>8. Sorted'
  BY <1>1, <1>2, <1>4 DEF Sorted
<1>9. Rotated'
  BY <1>1, <1>2, <1>4 DEF Rotated
<1> QED
  BY <1>7, <1>8, <1>9 DEF FilesInv

LEMMA WriteKeepsLines ==
    ASSUME IndInv, TypeOK', NEW t \in Threads, Write(t)
    PROVE  FilesInv'
<1>0. PICK f, n, l : f = <<fd[t], Log>> /\ n = Len(files[f].lines) /\ l = line[t]
  OBVIOUS
<1>1. TypeOK /\ LostInReplacedOnly /\ Sorted /\ Rotated /\ LineInv /\ PendingInv /\ RecentInv
      /\ StepInv /\ MutexInv
  BY DEF IndInv
<1>2. /\ pc[t] = "write" /\ Unwritten(t) /\ fd[t] \in Paths /\ f \in DOMAIN files
      /\ Fits(f, l.ts)
      /\ written' = written \cup {l} /\ setting' = setting /\ lastTs' = l.ts /\ replaced' = replaced
  BY <1>0, <1>1 DEF Write, StepInv, LastTs, Unwritten, Pending
<1>3. /\ DOMAIN files' = DOMAIN files
      /\ \A g \in DOMAIN files : g # f => files'[g] = files[g]
      /\ files'[f].size = files[f].size + l.size
      /\ n \in Nat /\ DOMAIN files[f].lines = 1 .. n
      /\ DOMAIN files'[f].lines = 1 .. n + 1 /\ Len(files'[f].lines) = n + 1
      /\ files'[f].lines[n + 1] = l
      /\ \A j \in 1 .. n : files'[f].lines[j] = files[f].lines[j]
  BY <1>0, <1>1, <1>2, WriteFiles
<1>4. /\ l.n \in Nat /\ l.ts \in Nat /\ l.size \in Nat /\ l.run \in Nat
      /\ l.n = nLine /\ l.run = run /\ lastTs <= l.ts
      /\ \A g \in DOMAIN files : \A j \in DOMAIN files[g].lines : files[g].lines[j].n < l.n
      /\ lastTs \in Nat
  <2>1. l \in Lines /\ lastTs \in Nat
    BY <1>0, <1>1 DEF TypeOK
  <2> QED
    BY <1>0, <1>1, <1>2, <2>1, LineFacts DEF PendingInv
(* The lines that were there before. *)
<1>11. \A g \in DOMAIN files' : \A j \in DOMAIN files'[g].lines :
         ~(g = f /\ j = n + 1) =>
            j \in DOMAIN files[g].lines /\ files'[g].lines[j] = files[g].lines[j]
  <2> SUFFICES ASSUME NEW g \in DOMAIN files', NEW j \in DOMAIN files'[g].lines, ~(g = f /\ j = n + 1)
               PROVE  j \in DOMAIN files[g].lines /\ files'[g].lines[j] = files[g].lines[j]
    OBVIOUS
  <2>1. CASE g # f
    BY <1>3, <2>1
  <2>2. CASE g = f
    <3>1. j \in 1 .. n
      BY <1>3, <2>2
    <3> QED
      BY <1>3, <2>2, <3>1
  <2> QED
    BY <2>1, <2>2
<1>5. LinesOf(f)' = LinesOf(f) \cup {l}
  <2>1. \A j \in 1 .. n + 1 : j \in 1 .. n \/ j = n + 1
    BY <1>3
  <2>2. n + 1 \in 1 .. n + 1 /\ \A j \in 1 .. n : j \in 1 .. n + 1
    BY <1>3
  <2> QED
    BY <1>3, <2>1, <2>2 DEF LinesOf
<1>6. \A g \in DOMAIN files : g # f => LinesOf(g)' = LinesOf(g)
  BY <1>3 DEF LinesOf
<1>7. \A g \in DOMAIN files : l \notin LinesOf(g)
  BY <1>4 DEF LinesOf
<1>8. LostInReplacedOnly'
  <2> DEFINE Before(g) == LinesOf(g)
             After(g)  == LinesOf(g)'
             D         == DOMAIN files
             Lost      == {LinesIn(x.old) : x \in replaced}
  <2>1. UNION ({After(g) : g \in D} \cup Lost) = (UNION ({Before(g) : g \in D} \cup Lost)) \cup {l}
    <3>1. /\ f \in D /\ After(f) = Before(f) \cup {l}
          /\ \A g \in D : g # f => After(g) = Before(g)
      BY <1>2, <1>5, <1>6
    <3> HIDE DEF After, Before, D, Lost
    <3> QED
      BY <3>1
  <2>2. \A g, h \in D : After(g) \cap After(h) # {} => g = h
    <3>1. /\ f \in D /\ After(f) = Before(f) \cup {l}
          /\ \A g \in D : g # f => After(g) = Before(g)
          /\ \A g \in D : l \notin Before(g)
          /\ \A g, h \in D : Before(g) \cap Before(h) # {} => g = h
      BY <1>1, <1>2, <1>5, <1>6, <1>7 DEF LostInReplacedOnly
    <3> HIDE DEF After, Before, D
    <3> QED
      BY <3>1
  <2> QED
    BY <1>0, <1>1, <1>2, <1>3, <2>1, <2>2 DEF LostInReplacedOnly, LinesIn
<1>9. Sorted'
  <2> SUFFICES ASSUME NEW g \in DOMAIN files', NEW h \in DOMAIN files',
                      g[1] = h[1], g[2] # 0, h[2] # 0,
                      NEW j \in DOMAIN files'[g].lines, NEW k \in DOMAIN files'[h].lines,
                      g[2] < h[2] \/ (g = h /\ j < k)
               PROVE  files'[g].lines[j].n < files'[h].lines[k].n
    BY DEF Sorted
  <2>1. g[2] \in Int /\ h[2] \in Int /\ g[2] <= Log /\ h[2] <= Log
    BY <1>1, <1>3, BoundsAssumption, SMTT(20) DEF TypeOK, Times, Log
  <2>2. f[2] = Log
    BY <1>0
  <2>3. CASE h = f /\ k = n + 1
    <3>1. ~(g = f /\ j = n + 1)
      BY <1>3, <2>1, <2>3
    <3>2. j \in DOMAIN files[g].lines /\ files'[g].lines[j] = files[g].lines[j]
      BY <1>11, <3>1
    <3> QED
      BY <1>3, <1>4, <2>3, <3>2
  <2>4. CASE ~(h = f /\ k = n + 1)
    <3>1. k \in DOMAIN files[h].lines /\ files'[h].lines[k] = files[h].lines[k]
      BY <1>11, <2>4
    <3>2. ~(g = f /\ j = n + 1)
      <4>1. g = f /\ h = f => k \in 1 .. n
        BY <1>3, <3>1
      <4>2. g = f => h = f
        BY <1>0, <2>1, <2>2
      <4> QED
        BY <1>3, <2>1, <4>1, <4>2
    <3>3. j \in DOMAIN files[g].lines /\ files'[g].lines[j] = files[g].lines[j]
      BY <1>11, <3>2
    <3> QED
      BY <1>1, <1>3, <3>1, <3>3 DEF Sorted
  <2> QED
    BY <2>3, <2>4
<1>10. Rotated'
  <2> SUFFICES ASSUME NEW g \in DOMAIN files', NEW j \in DOMAIN files'[g].lines
               PROVE  LET s == files'[g].lines
                      IN  /\ j = Len(s) => files'[g].size - s[j].size < setting.size
                          /\ (j > 1 /\ setting.day # 0) =>
                               ~ /\ s[j - 1].n + 1 = s[j].n /\ s[j - 1].run = s[j].run
                                 /\ s[j].ts - s[j - 1].ts < setting.day
                                 /\ s[j].ts \div setting.day # s[j - 1].ts \div setting.day
    BY <1>2 DEF Rotated
  <2>1. CASE g # f
    <3>1. g \in DOMAIN files /\ files'[g] = files[g]
      BY <1>3, <2>1
    <3> QED
      BY <1>1, <3>1, Zenon DEF Rotated
  <2>2. CASE g = f /\ j # n + 1
    <3>1. j \in 1 .. n /\ j # Len(files'[f].lines) /\ (j > 1 => j - 1 \in 1 .. n)
      <4>1. j \in 1 .. n + 1 /\ j # n + 1
        BY <1>3, <2>2
      <4> QED
        BY <1>3, <4>1
    <3>2. files'[f].lines[j] = files[f].lines[j]
          /\ (j > 1 => files'[f].lines[j - 1] = files[f].lines[j - 1])
      BY <1>3, <3>1
    <3>3. j \in DOMAIN files[f].lines
      BY <1>3, <3>1
    <3>4. j > 1 /\ setting.day # 0 =>
            ~ /\ files[f].lines[j - 1].n + 1 = files[f].lines[j].n
              /\ files[f].lines[j - 1].run = files[f].lines[j].run
              /\ files[f].lines[j].ts - files[f].lines[j - 1].ts < setting.day
              /\ files[f].lines[j].ts \div setting.day # files[f].lines[j - 1].ts \div setting.day
      BY <1>1, <1>2, <3>3, Zenon DEF Rotated
    <3> QED
      BY <2>2, <3>1, <3>2, <3>4
  <2>3. CASE g = f /\ j = n + 1
    <3>1. files'[f].size - l.size < setting.size
      <4>1. SizeOf(f) < setting.size /\ SizeOf(f) = files[f].size /\ SizeOf(f) \in Nat
        BY <1>1, <1>2, SizeOfFacts DEF Fits
      <4> QED
        BY <1>3, <1>4, <4>1
    <3>2. ASSUME j > 1, setting.day # 0,
                 files[f].lines[n].n + 1 = l.n, files[f].lines[n].run = l.run,
                 l.ts - files[f].lines[n].ts < setting.day
          PROVE  l.ts \div setting.day = files[f].lines[n].ts \div setting.day
      <4>1. n \in DOMAIN files[f].lines
        BY <1>3, <2>3, <3>2
      <4>2. files[f].lines[n].ts = lastTs
        <5>1. files[f].lines[n] \in Lines
          BY <1>1, <1>2, <4>1, ElementOfSeq, <1>3 DEF TypeOK
        <5>2. files[f].lines[n].n = nLine - 1
          BY <1>4, <3>2, <5>1, LineFacts
        <5> QED
          BY <1>1, <1>2, <1>4, <3>2, <4>1, <5>2 DEF RecentInv
      <4>3. setting.day \in Nat \ {0}
        BY <1>1, <3>2, SettingFacts DEF TypeOK
      <4>4. lastTs % setting.day <= l.ts % setting.day
        <5>1. files[f].lines # <<>>
          <6>1. DOMAIN <<>> = {}
            OBVIOUS
          <6> QED
            BY <4>1, <6>1
        <5> QED
          BY <1>2, <3>2, <5>1 DEF Fits
      <4> QED
        BY <1>4, <3>2, <4>2, <4>3, <4>4, SamePeriod
    <3>3. /\ files'[f].lines[j] = l
          /\ j > 1 => files'[f].lines[j - 1] = files[f].lines[n]
      BY <1>3, <2>3
    <3> QED
      BY <1>3, <2>3, <3>1, <3>2, <3>3
  <2> QED
    BY <2>1, <2>2, <2>3
<1> QED
  BY <1>8, <1>9, <1>10 DEF FilesInv

LEMMA FilesStep ==
    ASSUME IndInv, TypeOK', [Next]_vars
    PROVE  FilesInv'
<1> USE DEF fileVars, counters
<1>1. FilesInv /\ TypeOK
  BY DEF IndInv, FilesInv
<1>2. ASSUME files' = files, written' = written, setting' = setting, replaced' = replaced
      PROVE  FilesInv'
  <2>1. LostInReplacedOnly'
    <3>1. \A g \in DOMAIN files : LinesOf(g)' = LinesOf(g)
      BY <1>2 DEF LinesOf
    <3> QED
      BY <1>1, <1>2, <3>1 DEF FilesInv, LostInReplacedOnly, LinesIn
  <2>2. Sorted'
    BY <1>1, <1>2 DEF FilesInv, Sorted
  <2>3. Rotated'
    BY <1>1, <1>2, Zenon DEF FilesInv, Rotated
  <2> QED
    BY <2>1, <2>2, <2>3 DEF FilesInv
<1>3. ASSUME NEW t \in Threads, BackupFile(t)
      PROVE  FilesInv'
  <2>1. CASE <<path, Log>> \in DOMAIN files
    BY <1>3, <2>1, BackupKeepsLines
  <2>2. CASE <<path, Log>> \notin DOMAIN files
    BY <1>2, <1>3, <2>2 DEF BackupFile
  <2> QED
    BY <2>1, <2>2
<1>4. ASSUME NEW t \in Threads, Open(t)
      PROVE  FilesInv'
  <2>1. CASE path \in folders
    BY <1>4, <2>1, OpenKeepsLines
  <2>2. CASE path \notin folders
    BY <1>2, <1>4, <2>2 DEF Open
  <2> QED
    BY <2>1, <2>2
<1>5. ASSUME NEW t \in Threads, Write(t)
      PROVE  FilesInv'
  BY <1>5, WriteKeepsLines
<1>6. ASSUME NEW t \in Threads,
             (\E size \in Sizes : Lock(t, size)) \/ Check(t) \/ Unlock(t)
               \/ ClearPath(t) \/ SetPath(t) \/ Mkdir(t)
      PROVE  FilesInv'
  <2>1. files' = files /\ written' = written /\ setting' = setting /\ replaced' = replaced
    BY <1>6 DEF Lock, Check, Unlock, ClearPath, SetPath, Mkdir
  <2> QED
    BY <1>2, <2>1
<1>7. ASSUME Restart \/ Tick \/ UNCHANGED vars
      PROVE  FilesInv'
  BY <1>2, <1>7 DEF Restart, Tick, vars
<1> QED
  BY <1>3, <1>4, <1>5, <1>6, <1>7 DEF Next, PrintLine, Ended

------------------------------------------------------------------------------
(* The numbers, over the steps that print, rename, restart and wait. *)

NumbersInv == LineInv /\ PendingInv /\ RecentInv /\ StepInv /\ BackupInv /\ FirstInv

(* A step that changes where threads are, and nothing that is counted. *)
LEMMA QuietStep ==
    ASSUME NumbersInv,
           UNCHANGED <<files, lastTs, now, nLine, run, setting>>,
           \A u \in Threads : /\ Unwritten(u)' => Unwritten(u) /\ line'[u] = line[u]
                              /\ Renamed(u) => Renamed(u)' /\ line'[u] = line[u]
                              /\ pc[u] = "write" => pc'[u] = "write"
    PROVE  LineInv' /\ PendingInv' /\ RecentInv' /\ BackupInv' /\ FirstInv'
<1>1. LineInv /\ PendingInv /\ RecentInv /\ BackupInv /\ FirstInv
  BY DEF NumbersInv
<1>2. LineInv'
  BY <1>1 DEF LineInv
<1>3. PendingInv'
  <2> SUFFICES ASSUME NEW t \in Threads, Unwritten(t)'
               PROVE  (/\ line[t].n = nLine /\ line[t].run = run
                       /\ lastTs <= line[t].ts /\ 1 <= line[t].ts /\ line[t].ts <= now
                       /\ \A f \in DOMAIN files : \A j \in DOMAIN files[f].lines :
                             files[f].lines[j].n < nLine /\ files[f].lines[j].ts <= line[t].ts)'
    BY DEF PendingInv
  <2>1. Unwritten(t) /\ line'[t] = line[t]
    OBVIOUS
  <2> QED
    BY <1>1, <2>1 DEF PendingInv
<1>4. RecentInv'
  <2>1. (\E t \in Threads : Unwritten(t))' => \E t \in Threads : Unwritten(t)
    OBVIOUS
  <2> QED
    BY <1>1, <2>1 DEF RecentInv
<1>5. BackupInv'
  <2> SUFFICES ASSUME NEW p \in Paths, NEW k \in Times, <<p, k>> \in DOMAIN files'
               PROVE  BackupAt(p, k)'
    BY DEF BackupInv
  <2>1. BackupAt(p, k)
    BY <1>1 DEF BackupInv
  <2>2. Passed(k) => Passed(k)'
    BY DEF Passed
  <2>3. \A t \in Threads : Renamed(t) /\ k < line[t].ts => (Renamed(t) /\ k < line[t].ts)'
    OBVIOUS
  <2> QED
    BY <2>1, <2>2, <2>3 DEF BackupAt
<1>6. FirstInv'
  BY <1>1 DEF FirstInv
<1> QED
  BY <1>2, <1>3, <1>4, <1>5, <1>6

LEMMA FileLines ==
    ASSUME TypeOK
    PROVE  \A f \in DOMAIN files : \A j \in DOMAIN files[f].lines :
              /\ files[f].lines[j].n \in Nat /\ files[f].lines[j].run \in Nat
              /\ files[f].lines[j].ts \in Nat
<1> SUFFICES ASSUME NEW f \in DOMAIN files, NEW j \in DOMAIN files[f].lines
             PROVE  /\ files[f].lines[j].n \in Nat /\ files[f].lines[j].run \in Nat
                    /\ files[f].lines[j].ts \in Nat
  OBVIOUS
<1>1. files[f].lines \in Seq(Lines)
  BY DEF TypeOK
<1>2. files[f].lines[j] \in Lines
  BY <1>1
<1> QED
  BY <1>2, LineFacts

LEMMA QuietNumbers ==
    ASSUME IndInv, TypeOK',
           \/ \E t \in Threads : \/ Check(t) \/ Unlock(t)
                                 \/ ClearPath(t) \/ SetPath(t) \/ Mkdir(t)
           \/ UNCHANGED vars
    PROVE  NumbersInv'
<1> USE DEF fileVars, counters, Goto
<1>1. NumbersInv /\ TypeOK /\ MutexInv
  BY DEF IndInv, NumbersInv
<1>3. pc \in [Threads -> {"idle", "check", "backup", "open", "write", "unlock", "setPath", "mkdir"}]
  BY <1>1 DEF TypeOK
<1>4. UNCHANGED <<files, lastTs, now, nLine, spent, run, setting, fd>>
  BY DEF Check, Unlock, ClearPath, SetPath, Mkdir, vars
<1>5. ASSUME \A u \in Threads : /\ Unwritten(u)' => Unwritten(u) /\ line'[u] = line[u]
                                /\ Renamed(u) => Renamed(u)' /\ line'[u] = line[u]
                                /\ pc[u] = "write" => pc'[u] = "write",
             StepInv'
      PROVE  NumbersInv'
  <2>1. LineInv' /\ PendingInv' /\ RecentInv' /\ BackupInv' /\ FirstInv'
    BY <1>1, <1>4, <1>5, QuietStep
  <2> QED
    BY <1>5, <2>1 DEF NumbersInv
<1>6. \A f, x : Fits(f, x)' = Fits(f, x) /\ Rotates(f, x)' = Rotates(f, x)
  BY <1>4 DEF Fits, Rotates, SizeOf
<1>7. ASSUME NEW t \in Threads, Check(t)
      PROVE  NumbersInv'
  <2>1. /\ pc[t] = "check" /\ line' = line /\ path' = path /\ pc'[t] \in {"backup", "open"}
        /\ pc'[t] = "backup" <=> NeedBackupFile(line[t].ts)
        /\ \A u \in Threads : u # t => pc'[u] = pc[u]
    BY <1>3, <1>7 DEF Check
  <2>2. \A u \in Threads : /\ Unwritten(u)' => Unwritten(u) /\ line'[u] = line[u]
                           /\ Renamed(u) => Renamed(u)' /\ line'[u] = line[u]
                           /\ pc[u] = "write" => pc'[u] = "write"
    BY <2>1 DEF Unwritten, Pending, Renamed
  <2>3. NeedBackupFile(line[t].ts) = Rotates(<<path, Log>>, line[t].ts)
    BY DEF NeedBackupFile, Rotates
  <2>4. ~Rotates(<<path, Log>>, line[t].ts) => Fits(<<path, Log>>, line[t].ts)
    <3>1. /\ SizeOf(<<path, Log>>) \in Nat /\ setting.size \in Nat /\ setting.day \in Nat
          /\ lastTs \in Nat /\ line[t].ts \in Nat
      <4>1. setting \in Settings /\ line[t] \in Lines /\ lastTs \in Nat
        BY <1>1 DEF TypeOK
      <4> QED
        BY <1>1, <4>1, SizeOfFacts, SettingFacts, LineFacts
    <3>2. setting.day # 0 => lastTs % setting.day \in Nat /\ line[t].ts % setting.day \in Nat
      <4>1. ASSUME setting.day # 0
            PROVE  /\ lastTs % setting.day \in 0 .. setting.day - 1
                   /\ line[t].ts % setting.day \in 0 .. setting.day - 1
        BY <3>1, <4>1, ModFacts
      <4> QED
        BY <3>1, <4>1
    <3> QED
      BY <3>1, <3>2 DEF Rotates, Fits
  <2>5. StepInv'
    BY <1>1, <1>4, <1>6, <2>1, <2>3, <2>4 DEF NumbersInv, StepInv
  <2> QED
    BY <1>5, <2>2, <2>5
<1>8. ASSUME NEW t \in Threads, Unlock(t)
      PROVE  NumbersInv'
  <2>1. /\ pc[t] = "unlock" /\ path' = path /\ pc'[t] = "idle"
        /\ \A u \in Threads : u # t => pc'[u] = pc[u] /\ line'[u] = line[u]
    BY <1>1, <1>3, <1>8 DEF Unlock, TypeOK
  <2>2. \A u \in Threads : /\ Unwritten(u)' => Unwritten(u) /\ line'[u] = line[u]
                           /\ Renamed(u) => Renamed(u)' /\ line'[u] = line[u]
                           /\ pc[u] = "write" => pc'[u] = "write"
    BY <2>1 DEF Unwritten, Pending, Renamed
  <2>3. StepInv'
    BY <1>1, <1>4, <1>6, <2>1 DEF NumbersInv, StepInv
  <2> QED
    BY <1>5, <2>2, <2>3
<1>9. ASSUME NEW t \in Threads, ClearPath(t) \/ SetPath(t) \/ Mkdir(t)
      PROVE  NumbersInv'
  <2>1. /\ pc[t] \in {"idle", "setPath", "mkdir"} /\ pc'[t] \in {"idle", "setPath", "mkdir"}
        /\ line' = line
        /\ \A u \in Threads : u # t => pc'[u] = pc[u]
        /\ path' \in {path, NoPath} \/ mutex = {}
    BY <1>3, <1>9 DEF ClearPath, SetPath, Mkdir
  <2>2. \A u \in Threads : /\ Unwritten(u)' => Unwritten(u) /\ line'[u] = line[u]
                           /\ Renamed(u) => Renamed(u)' /\ line'[u] = line[u]
                           /\ pc[u] = "write" => pc'[u] = "write"
    BY <2>1 DEF Unwritten, Pending, Renamed
  <2>3. mutex = {} => \A u \in Threads : pc[u] \notin Inside
    BY <1>1, Alone
  <2>4. StepInv'
    BY <1>1, <1>4, <1>6, <2>1, <2>3 DEF NumbersInv, StepInv, Inside
  <2> QED
    BY <1>5, <2>2, <2>4
<1>10. ASSUME UNCHANGED vars
       PROVE  NumbersInv'
  <2>1. pc' = pc /\ line' = line /\ path' = path
    BY <1>10 DEF vars
  <2>2. \A u \in Threads : /\ Unwritten(u)' => Unwritten(u) /\ line'[u] = line[u]
                           /\ Renamed(u) => Renamed(u)' /\ line'[u] = line[u]
                           /\ pc[u] = "write" => pc'[u] = "write"
    BY <2>1 DEF Unwritten, Renamed
  <2>3. StepInv'
    BY <1>1, <1>4, <1>6, <2>1 DEF NumbersInv, StepInv
  <2> QED
    BY <1>5, <2>2, <2>3
<1> QED
  BY <1>7, <1>8, <1>9, <1>10

LEMMA LockNumbers ==
    ASSUME IndInv, TypeOK', NEW t \in Threads, NEW size \in Sizes, Lock(t, size)
    PROVE  NumbersInv'
<1> USE DEF fileVars, Goto
<1>1. NumbersInv /\ TypeOK /\ MutexInv
  BY DEF IndInv, NumbersInv
<1>2. /\ pc[t] = "idle" /\ pc'[t] = "check"
      /\ line'[t].n = nLine + 1 /\ line'[t].ts = now /\ line'[t].run = run
      /\ nLine' = nLine + 1 /\ mutex = {}
      /\ UNCHANGED <<files, folders, path, setting, lastTs, fd, now, run>>
      /\ \A u \in Threads : u # t => pc'[u] = pc[u] /\ line'[u] = line[u]
  BY <1>1 DEF Lock, vlog_lock, TypeOK
<1>3. \A u \in Threads : ~Unwritten(u) /\ ~Renamed(u)
  BY <1>1, <1>2, Alone
<1>4. \A u \in Threads : (Unwritten(u)' => u = t) /\ ~Renamed(u)'
  BY <1>2, <1>3 DEF Unwritten, Pending, Renamed
<1>6. nLine \in Nat /\ now \in Nat /\ 1 <= now /\ lastTs \in Nat /\ lastTs <= now
  BY <1>1, BoundsAssumption DEF TypeOK, Times
<1>9. \A f \in DOMAIN files : \A j \in DOMAIN files[f].lines :
         /\ files[f].lines[j].n \in Nat /\ files[f].lines[j].n <= nLine
         /\ files[f].lines[j].ts <= now
  BY <1>1, FileLines DEF NumbersInv, LineInv
<1>10. LineInv'
  BY <1>1, <1>2, <1>6, <1>9 DEF NumbersInv, LineInv
<1>11. PendingInv'
  BY <1>2, <1>4, <1>6, <1>9 DEF PendingInv
<1>12. RecentInv'
  <2>1. ASSUME NEW f \in DOMAIN files, NEW j \in DOMAIN files[f].lines,
               files[f].lines[j].run = run,
               files[f].lines[j].n = nLine + 1 \/ files[f].lines[j].n = nLine + 1 - 1
        PROVE  files[f].lines[j].ts = lastTs
    <3>1. files[f].lines[j].n = nLine
      BY <1>6, <1>9, <2>1
    <3> QED
      BY <1>1, <2>1, <3>1 DEF NumbersInv, RecentInv
  <2>2. ASSUME NEW f \in DOMAIN files', NEW j \in DOMAIN files'[f].lines,
               files'[f].lines[j].run = run',
               files'[f].lines[j].n = nLine' \/ files'[f].lines[j].n = nLine' - 1
        PROVE  files'[f].lines[j].ts = lastTs'
    <3>1. /\ f \in DOMAIN files /\ j \in DOMAIN files[f].lines /\ files[f].lines[j].run = run
          /\ files'[f] = files[f] /\ lastTs' = lastTs
      BY <1>2, <2>2
    <3>2. files[f].lines[j].n = nLine + 1 \/ files[f].lines[j].n = nLine + 1 - 1
      BY <1>2, <1>6, <2>2, <3>1
    <3> QED
      BY <2>1, <3>1, <3>2
  <2> QED
    BY <2>2 DEF RecentInv
<1>13. StepInv'
  BY <1>2, <1>3, <1>4 DEF StepInv, Unwritten, Pending, Renamed
<1>14. BackupInv'
  <2> SUFFICES ASSUME NEW p \in Paths, NEW k \in Times, <<p, k>> \in DOMAIN files
               PROVE  BackupAt(p, k)'
    BY <1>2 DEF BackupInv
  <2>1. BackupAt(p, k)
    BY <1>1 DEF NumbersInv, BackupInv
  <2>2. Passed(k) => Passed(k)'
    BY <1>2, <1>4 DEF Passed
  <2>3. \A u \in Threads : Unwritten(u)' => k <= line'[u].ts
    BY <1>2, <1>4, <2>1 DEF BackupAt
  <2> QED
    BY <1>2, <1>3, <2>1, <2>2, <2>3 DEF BackupAt
<1>15. FirstInv'
  BY <1>1, <1>2, <1>3 DEF NumbersInv, FirstInv, Renamed
<1> QED
  BY <1>10, <1>11, <1>12, <1>13, <1>14, <1>15 DEF NumbersInv

LEMMA RestartNumbers ==
    ASSUME IndInv, Restart
    PROVE  NumbersInv'
<1>1. NumbersInv /\ TypeOK /\ MutexInv
  BY DEF IndInv, NumbersInv
<1>2. /\ UNCHANGED <<files, setting, now, nLine>> /\ run' = run + 1 /\ lastTs' = 0
      /\ \A u \in Threads : pc'[u] = "idle"
  BY DEF Restart
<1>3. \A u \in Threads : ~Unwritten(u)' /\ ~Renamed(u)' /\ pc'[u] = "idle"
  BY <1>2 DEF Unwritten, Pending, Renamed
<1>4. run \in Nat /\ lastTs \in Nat /\ now \in Nat
  BY <1>1, BoundsAssumption DEF TypeOK, Times
<1>5. \A f \in DOMAIN files : \A j \in DOMAIN files[f].lines :
         files[f].lines[j].run \in Nat /\ files[f].lines[j].run <= run
  BY <1>1, FileLines DEF NumbersInv, LineInv
<1>6. LineInv'
  BY <1>1, <1>2, <1>4, <1>5 DEF NumbersInv, LineInv
<1>7. PendingInv'
  BY <1>3 DEF PendingInv
<1>8. RecentInv'
  BY <1>2, <1>4, <1>5 DEF RecentInv
<1>9. StepInv'
  BY <1>3 DEF StepInv
<1>10. BackupInv'
  <2> SUFFICES ASSUME NEW p \in Paths, NEW k \in Times, <<p, k>> \in DOMAIN files
               PROVE  BackupAt(p, k)'
    BY <1>2 DEF BackupInv
  <2>1. BackupAt(p, k) /\ k \in Nat
    BY <1>1 DEF NumbersInv, BackupInv, Times
  <2>2. k = 0 => run' >= 2
    BY <1>2, <1>4, <2>1 DEF BackupAt
  <2>3. k # 0 /\ k < now => Passed(k)'
    BY <1>2, <1>3 DEF Passed
  <2>4. ASSUME NEW u \in Threads, Renamed(u), k < line[u].ts
        PROVE  k < now
    <3>1. Unwritten(u) /\ line[u].ts <= now
      BY <1>1, <2>4, Alone DEF NumbersInv, PendingInv
    <3>2. line[u].ts \in Nat
      BY <1>1, LineFacts DEF TypeOK
    <3> QED
      BY <1>4, <2>1, <2>4, <3>1, <3>2
  <2>5. k # 0 => Passed(k)' \/ files[<<p, k>>].size >= setting.size
    BY <2>1, <2>3, <2>4 DEF BackupAt, Passed
  <2> QED
    BY <1>2, <1>3, <1>4, <2>1, <2>2, <2>5 DEF BackupAt
<1>11. FirstInv'
  BY <1>2, <1>4 DEF FirstInv
<1> QED
  BY <1>6, <1>7, <1>8, <1>9, <1>10, <1>11 DEF NumbersInv

LEMMA TickNumbers ==
    ASSUME IndInv, Tick
    PROVE  NumbersInv'
<1> USE DEF fileVars
<1>1. NumbersInv /\ TypeOK /\ MutexInv
  BY DEF IndInv, NumbersInv
<1>2. UNCHANGED <<files, path, setting, lastTs, pc, line, fd, nLine, run>> /\ now' = now + 1
  BY DEF Tick
<1>3. \A u \in Threads : Unwritten(u)' = Unwritten(u) /\ Renamed(u)' = Renamed(u)
  BY <1>2 DEF Unwritten, Renamed
<1>4. now \in Nat
  BY <1>1, BoundsAssumption DEF TypeOK, Times
<1>5. \A u \in Threads : line[u].ts \in Nat
  BY <1>1, LineFacts DEF TypeOK
<1>6. LineInv'
  <2>1. \A f \in DOMAIN files : \A j \in DOMAIN files[f].lines :
          files[f].lines[j].ts \in Nat /\ files[f].lines[j].ts <= now
    BY <1>1, FileLines DEF NumbersInv, LineInv
  <2>2. \A f \in DOMAIN files : \A j \in DOMAIN files[f].lines : files[f].lines[j].ts <= now + 1
    BY <1>4, <2>1
  <2> QED
    BY <1>1, <1>2, <2>2 DEF NumbersInv, LineInv
<1>7. RecentInv'
  BY <1>1, <1>2, <1>3 DEF NumbersInv, RecentInv
<1>8. PendingInv'
  <2>1. \A u \in Threads : Unwritten(u) => line[u].ts <= now + 1
    BY <1>1, <1>4, <1>5 DEF NumbersInv, PendingInv
  <2> QED
    BY <1>1, <1>2, <1>3, <2>1 DEF NumbersInv, PendingInv
<1>9. StepInv'
  <2>1. \A f, x : Fits(f, x)' = Fits(f, x) /\ Rotates(f, x)' = Rotates(f, x)
    BY <1>2 DEF Fits, Rotates, SizeOf
  <2> QED
    BY <1>1, <1>2, <2>1 DEF NumbersInv, StepInv
<1>10. BackupInv'
  <2> SUFFICES ASSUME NEW p \in Paths, NEW k \in Times, <<p, k>> \in DOMAIN files
               PROVE  BackupAt(p, k)'
    BY <1>2 DEF BackupInv
  <2>1. BackupAt(p, k) /\ k \in Nat
    BY <1>1 DEF NumbersInv, BackupInv, Times
  <2>2. k <= now + 1
    BY <1>4, <2>1 DEF BackupAt
  <2>3. Passed(k) => Passed(k)'
    BY <1>2, <1>3, <1>4, <2>1 DEF Passed
  <2> QED
    BY <1>2, <1>3, <2>1, <2>2, <2>3 DEF BackupAt
<1>11. FirstInv'
  BY <1>1, <1>2 DEF NumbersInv, FirstInv
<1> QED
  BY <1>6, <1>7, <1>8, <1>9, <1>10, <1>11 DEF NumbersInv

(* The line is in its file, or dropped. *)
LEMMA DoneStep ==
    ASSUME IndInv, NEW t \in Threads, Renamed(t),
           UNCHANGED <<setting, now, nLine, run>>, DOMAIN files' = DOMAIN files,
           \A f \in DOMAIN files : f[2] # Log => files'[f] = files[f],
           \A f \in DOMAIN files : \A j \in DOMAIN files'[f].lines :
              \/ files'[f].lines[j] = line[t]
              \/ j \in DOMAIN files[f].lines /\ files'[f].lines[j] = files[f].lines[j],
           lastTs' = line[t].ts, pc'[t] = "unlock",
           \A u \in Threads : u # t => pc'[u] = pc[u]
    PROVE  LineInv' /\ PendingInv' /\ StepInv' /\ BackupInv' /\ FirstInv'
<1>1. NumbersInv /\ TypeOK /\ MutexInv
  BY DEF IndInv, NumbersInv
<1>2. Unwritten(t) /\ \A u \in Threads : u # t => pc[u] \notin Inside
  BY <1>1, Alone
<1>3. \A u \in Threads : ~Unwritten(u)' /\ ~Renamed(u)' /\ pc'[u] \notin {"backup", "open", "write"}
  BY <1>2 DEF Unwritten, Pending, Renamed, Inside
<1>4. /\ lastTs <= line[t].ts /\ 1 <= line[t].ts /\ line[t].ts <= now
      /\ line[t].n = nLine /\ line[t].run = run
      /\ \A f \in DOMAIN files : \A j \in DOMAIN files[f].lines : files[f].lines[j].ts <= line[t].ts
  BY <1>1, <1>2 DEF NumbersInv, PendingInv
<1>5. line[t].ts \in Nat /\ lastTs \in Nat /\ now \in Nat /\ nLine \in Nat /\ run \in Nat
  BY <1>1, LineFacts, BoundsAssumption DEF TypeOK, Times
<1>6. PendingInv' /\ StepInv'
  BY <1>3 DEF PendingInv, StepInv
<1>7. LineInv'
  <2> SUFFICES ASSUME NEW f \in DOMAIN files, NEW j \in DOMAIN files'[f].lines
               PROVE  LET q == files'[f].lines[j]
                      IN  /\ q.n <= nLine /\ 1 <= q.ts /\ q.run <= run
                          /\ q.ts <= now /\ q.ts <= line[t].ts
    BY DEF LineInv
  <2>1. CASE files'[f].lines[j] = line[t]
    BY <1>4, <1>5, <2>1
  <2>2. CASE j \in DOMAIN files[f].lines /\ files'[f].lines[j] = files[f].lines[j]
    BY <1>1, <1>4, <2>2 DEF NumbersInv, LineInv
  <2> QED
    BY <2>1, <2>2
<1>8. BackupInv'
  <2> SUFFICES ASSUME NEW p \in Paths, NEW k \in Times, <<p, k>> \in DOMAIN files'
               PROVE  BackupAt(p, k)'
    BY DEF BackupInv
  <2>1. BackupAt(p, k) /\ k \in Nat /\ k # Log
    BY <1>1, BoundsAssumption DEF NumbersInv, BackupInv, Times, Log
  <2>2. k <= now /\ k <= line[t].ts
    BY <1>2, <2>1 DEF BackupAt
  <2>3. k < line[t].ts => Passed(k)'
    BY <1>3, <1>4, <1>5, <2>1 DEF Passed
  <2>4. Passed(k) => k < line[t].ts
    BY <1>2 DEF Passed
  <2>5. \A u \in Threads : Renamed(u) => u = t
    BY <1>2 DEF Renamed, Inside
  <2>6. files'[<<p, k>>] = files[<<p, k>>]
    BY <2>1
  <2>7. k # 0 => Passed(k)' \/ files'[<<p, k>>].size >= setting.size
    BY <2>1, <2>3, <2>4, <2>5, <2>6 DEF BackupAt
  <2>8. <<p, Log>> \in DOMAIN files =>
          \A j \in DOMAIN files'[<<p, Log>>].lines : k <= files'[<<p, Log>>].lines[j].ts
    BY <2>1, <2>2 DEF BackupAt
  <2>9. k = 0 => run # 0 /\ line[t].ts # 0
    BY <1>4, <2>1 DEF BackupAt
  <2> QED
    BY <1>3, <2>2, <2>7, <2>8, <2>9 DEF BackupAt
<1>9. FirstInv'
  BY <1>4, <1>5 DEF FirstInv
<1> QED
  BY <1>6, <1>7, <1>8, <1>9

LEMMA WriteNumbers ==
    ASSUME IndInv, TypeOK', NEW t \in Threads, Write(t)
    PROVE  NumbersInv'
<1> USE DEF fileVars, counters, Goto
<1>0. PICK f, n, l : f = <<fd[t], Log>> /\ n = Len(files[f].lines) /\ l = line[t]
  OBVIOUS
<1>1. NumbersInv /\ TypeOK /\ MutexInv
  BY DEF IndInv, NumbersInv
<1>2. /\ pc[t] = "write" /\ Unwritten(t) /\ Renamed(t) /\ f \in DOMAIN files
      /\ UNCHANGED <<path, setting, now, nLine, spent, run, line>> /\ lastTs' = l.ts
      /\ pc'[t] = "unlock" /\ \A u \in Threads : u # t => pc'[u] = pc[u]
  BY <1>0, <1>1 DEF Write, NumbersInv, StepInv, LastTs, Unwritten, Renamed, Pending, TypeOK
<1>3. /\ DOMAIN files' = DOMAIN files
      /\ \A g \in DOMAIN files : g # f => files'[g] = files[g]
      /\ files'[f].size = files[f].size + l.size
      /\ n \in Nat /\ DOMAIN files[f].lines = 1 .. n
      /\ DOMAIN files'[f].lines = 1 .. n + 1
      /\ files'[f].lines[n + 1] = l
      /\ \A j \in 1 .. n : files'[f].lines[j] = files[f].lines[j]
  BY <1>0, <1>1, <1>2, WriteFiles
<1>4. /\ l.n = nLine /\ l.run = run /\ 1 <= l.ts
      /\ \A g \in DOMAIN files : \A j \in DOMAIN files[g].lines : files[g].lines[j].n < l.n
  BY <1>0, <1>1, <1>2 DEF NumbersInv, PendingInv
<1>5. l.size \in Nat /\ l.n \in Nat /\ l.run \in Nat
  BY <1>0, <1>1, LineFacts DEF TypeOK
<1>8. ASSUME NEW g \in DOMAIN files', NEW j \in DOMAIN files'[g].lines
      PROVE  \/ files'[g].lines[j] = l
             \/ j \in DOMAIN files[g].lines /\ files'[g].lines[j] = files[g].lines[j]
  <2>1. CASE g # f
    BY <1>3, <1>8, <2>1
  <2>2. CASE g = f
    <3>1. j \in 1 .. n \/ j = n + 1
      BY <1>3, <1>8, <2>2
    <3> QED
      BY <1>3, <2>2, <3>1
  <2> QED
    BY <2>1, <2>2
<1>9. LineInv' /\ PendingInv' /\ StepInv' /\ BackupInv' /\ FirstInv'
  <2>1. \A g \in DOMAIN files : g[2] # Log => files'[g] = files[g]
    BY <1>0, <1>3
  <2>2. \A g \in DOMAIN files : \A j \in DOMAIN files'[g].lines :
          \/ files'[g].lines[j] = line[t]
          \/ j \in DOMAIN files[g].lines /\ files'[g].lines[j] = files[g].lines[j]
    BY <1>0, <1>3, <1>8
  <2> QED
    BY <1>0, <1>2, <1>3, <2>1, <2>2, DoneStep
<1>10. RecentInv'
  <2>1. \A u \in Threads : ~Unwritten(u)'
    <3>1. \A u \in Threads : u # t => pc[u] \notin Inside
      BY <1>1, <1>2, Alone
    <3> QED
      BY <1>2, <3>1 DEF Unwritten, Pending, Inside
  <2>2. ASSUME NEW g \in DOMAIN files', NEW j \in DOMAIN files'[g].lines,
               files'[g].lines[j].n = nLine
        PROVE  files'[g].lines[j].ts = l.ts
    <3>1. CASE j \in DOMAIN files[g].lines /\ files'[g].lines[j] = files[g].lines[j]
      BY <1>1, <1>3, <1>4, <1>5, <2>2, <3>1, FileLines
    <3> QED
      BY <1>8, <3>1
  <2> QED
    BY <1>2, <2>1, <2>2 DEF RecentInv
<1> QED
  BY <1>9, <1>10 DEF NumbersInv

LEMMA OpenNumbers ==
    ASSUME IndInv, TypeOK', NEW t \in Threads, Open(t)
    PROVE  NumbersInv'
<1> USE DEF fileVars, counters, Goto
<1>1. NumbersInv /\ TypeOK /\ MutexInv
  BY DEF IndInv, NumbersInv
<1>2. /\ pc[t] = "open" /\ Unwritten(t) /\ Renamed(t)
      /\ UNCHANGED <<path, setting, now, nLine, spent, run, line>>
      /\ \A u \in Threads : u # t => pc'[u] = pc[u]
  BY <1>1 DEF Open, Unwritten, Pending, Renamed, TypeOK
<1>3. \A u \in Threads : u # t => pc[u] \notin Inside
  BY <1>1, <1>2, Alone
<1>4. CASE path \notin folders
  <2>1. /\ files' = files /\ lastTs' = line[t].ts /\ pc'[t] = "unlock"
    BY <1>1, <1>4 DEF Open, LastTs, TypeOK
  <2>3. LineInv' /\ PendingInv' /\ StepInv' /\ BackupInv' /\ FirstInv'
    <3>1. /\ DOMAIN files' = DOMAIN files
          /\ \A f \in DOMAIN files : f[2] # Log => files'[f] = files[f]
          /\ \A f \in DOMAIN files : \A j \in DOMAIN files'[f].lines :
                j \in DOMAIN files[f].lines /\ files'[f].lines[j] = files[f].lines[j]
      BY <2>1
    <3> QED
      BY <1>2, <2>1, <3>1, DoneStep
  <2>5. RecentInv'
    <3>1. \A u \in Threads : ~Unwritten(u)'
      BY <1>2, <1>3, <2>1 DEF Unwritten, Pending, Inside
    <3>2. nLine \in Nat
      BY <1>1, BoundsAssumption DEF TypeOK
    <3>3. \A f \in DOMAIN files : \A j \in DOMAIN files[f].lines : files[f].lines[j].n # nLine
      <4>1. \A f \in DOMAIN files : \A j \in DOMAIN files[f].lines : files[f].lines[j].n < nLine
        BY <1>1, <1>2 DEF NumbersInv, PendingInv
      <4> QED
        BY <1>1, <3>2, <4>1, FileLines
    <3> QED
      BY <1>2, <2>1, <3>1, <3>3 DEF RecentInv
  <2> QED
    BY <2>3, <2>5 DEF NumbersInv
<1>5. CASE path \in folders
  <2>0. PICK f : f = <<path, Log>>
    OBVIOUS
  <2>1. /\ DOMAIN files' = DOMAIN files \cup {f}
        /\ \A g \in DOMAIN files : files'[g] = files[g]
        /\ f \notin DOMAIN files => files'[f].lines = <<>> /\ files'[f].size = 0
        /\ lastTs' = lastTs /\ pc'[t] = "write" /\ fd'[t] = path /\ path \in Paths /\ path # NoPath
    <3>1. path \in Paths /\ path # NoPath
      BY <1>1, <1>5, NoPathAssumption DEF TypeOK
    <3>2. lastTs' = lastTs /\ pc'[t] = "write" /\ fd'[t] = path
      BY <1>1, <1>5 DEF Open, TypeOK
    <3> QED
      BY <1>5, <2>0, <3>1, <3>2, OpenFiles
  <2>2. \A g \in DOMAIN files' : g \in DOMAIN files \/ (g = f /\ DOMAIN files'[g].lines = {})
    <3>1. DOMAIN <<>> = {}
      OBVIOUS
    <3> QED
      BY <2>1, <3>1
  <2>3. \A g : SizeOf(g)' = SizeOf(g)
    BY <2>1 DEF SizeOf
  <2>5. \A u \in Threads : Unwritten(u)' = Unwritten(u) /\ Renamed(u)' = Renamed(u)
    BY <1>2, <2>1 DEF Unwritten, Renamed, Pending
  <2>6. LineInv'
    BY <1>1, <1>2, <2>1, <2>2 DEF NumbersInv, LineInv
  <2>7. PendingInv'
    BY <1>1, <1>2, <2>1, <2>2, <2>5 DEF NumbersInv, PendingInv
  <2>8. RecentInv'
    BY <1>1, <1>2, <2>1, <2>2, <2>5 DEF NumbersInv, RecentInv
  <2>9. StepInv'
    <3>1. Fits(f, line[t].ts)
      BY <1>1, <1>2, <2>0, <2>1 DEF NumbersInv, StepInv
    <3>2. Fits(f, line[t].ts)'
      BY <1>2, <2>1, <2>3, <3>1 DEF Fits
    <3>3. <<fd'[t], Log>> = f /\ f \in DOMAIN files'
      BY <2>0, <2>1
    <3>4. Fits(<<fd[t], Log>>, line[t].ts)'
      BY <3>2, <3>3 DEF Fits, SizeOf
    <3> QED
      BY <1>2, <1>3, <2>1, <3>3, <3>4 DEF StepInv, Inside
  <2>11. BackupInv'
    <3> SUFFICES ASSUME NEW p \in Paths, NEW k \in Times, <<p, k>> \in DOMAIN files'
                 PROVE  BackupAt(p, k)'
      BY DEF BackupInv
    <3>1. <<p, k>> \in DOMAIN files /\ files'[<<p, k>>] = files[<<p, k>>]
      <4>1. k # Log
        BY BoundsAssumption DEF Times, Log
      <4> QED
        BY <2>0, <2>1, <4>1
    <3>2. BackupAt(p, k)
      BY <1>1, <3>1 DEF NumbersInv, BackupInv
    <3>3. Passed(k) => Passed(k)'
      BY <1>2, <2>1, <2>5 DEF Passed
    <3>4. ASSUME <<p, Log>> \in DOMAIN files', NEW j \in DOMAIN files'[<<p, Log>>].lines
          PROVE  k <= files'[<<p, Log>>].lines[j].ts
      <4>1. <<p, Log>> \in DOMAIN files
        BY <2>2, <3>4
      <4>2. files'[<<p, Log>>] = files[<<p, Log>>]
        BY <2>1, <4>1
      <4> QED
        BY <3>2, <3>4, <4>1, <4>2 DEF BackupAt
    <3> QED
      BY <1>2, <2>1, <2>5, <3>1, <3>2, <3>3, <3>4 DEF BackupAt
  <2>12. FirstInv'
    BY <2>1 DEF FirstInv
  <2> QED
    BY <2>6, <2>7, <2>8, <2>9, <2>11, <2>12 DEF NumbersInv
<1> QED
  BY <1>4, <1>5

LEMMA BackupNumbers ==
    ASSUME IndInv, TypeOK', NEW t \in Threads, BackupFile(t)
    PROVE  NumbersInv'
<1> USE DEF fileVars, counters, Goto
<1>0. PICK f, b : f = <<path, Log>> /\ b = <<path, lastTs>>
  OBVIOUS
<1>1. NumbersInv /\ TypeOK /\ MutexInv
  BY DEF IndInv, NumbersInv
<1>2. /\ pc[t] = "backup" /\ pc'[t] = "open" /\ Unwritten(t) /\ Renamed(t)'
      /\ UNCHANGED <<path, setting, lastTs, now, nLine, spent, run, line, fd>>
      /\ \A u \in Threads : u # t => pc'[u] = pc[u]
  BY <1>1 DEF BackupFile, Unwritten, Pending, Renamed, TypeOK
<1>3. \A u \in Threads : u # t => pc[u] \notin Inside /\ pc'[u] \notin Inside
  BY <1>1, <1>2, Alone
<1>4. /\ \A u \in Threads : Unwritten(u)' => Unwritten(u)
      /\ \A u \in Threads : ~Renamed(u)
      /\ \A u \in Threads : pc[u] # "write"
  BY <1>2, <1>3 DEF Unwritten, Renamed, Pending, Inside
<1>5. setting.size \in Nat \ {0}
  BY <1>1, SettingFacts DEF TypeOK
<1>6. CASE f \notin DOMAIN files
  <2>1. files' = files
    BY <1>0, <1>6 DEF BackupFile
  <2>2. LineInv' /\ PendingInv' /\ RecentInv' /\ BackupInv' /\ FirstInv'
    BY <1>1, <1>2, <1>4, <2>1, QuietStep
  <2>3. Fits(f, line[t].ts)'
    BY <1>2, <1>5, <1>6, <2>1 DEF Fits, SizeOf
  <2>4. StepInv'
    <3>1. Fits(<<path, Log>>, line[t].ts)'
      BY <1>0, <1>2, <2>3 DEF Fits, SizeOf
    <3> QED
      BY <1>2, <1>3, <3>1 DEF StepInv, Inside
  <2> QED
    BY <2>2, <2>4 DEF NumbersInv
<1>7. CASE f \in DOMAIN files
  <2>1. /\ path \in Paths /\ lastTs \in Times /\ lastTs # Log
        /\ lastTs = 0 => run # 0
        /\ lastTs < line[t].ts \/ files[f].size >= setting.size
    BY <1>0, <1>2, <1>7, BackupName DEF SizeOf
  <2>2. /\ DOMAIN files' = (DOMAIN files \ {f}) \cup {b} /\ b # f
        /\ files'[b] = files[f]
        /\ \A g \in DOMAIN files' : g # b => files'[g] = files[g]
    BY <1>0, <1>7, <2>1, BackupFiles
  (* The file that each file was before. *)
  <2>3. PICK was : /\ \A g \in DOMAIN files' : was[g] \in DOMAIN files /\ files'[g] = files[was[g]]
    <3> DEFINE w == [g \in DOMAIN files' |-> IF g = b THEN f ELSE g]
    <3>1. \A g \in DOMAIN files' : w[g] \in DOMAIN files /\ files'[g] = files[w[g]]
      BY <1>7, <2>2
    <3> HIDE DEF w
    <3> QED
      BY <3>1
  <2>7. LineInv'
    BY <1>1, <1>2, <2>3 DEF NumbersInv, LineInv
  <2>8. PendingInv'
    <3>1. ASSUME NEW u \in Threads, Unwritten(u)
          PROVE  \A g \in DOMAIN files' : \A j \in DOMAIN files'[g].lines :
                    files'[g].lines[j].n < nLine /\ files'[g].lines[j].ts <= line[u].ts
      BY <1>1, <2>3, <3>1 DEF NumbersInv, PendingInv
    <3> QED
      BY <1>1, <1>2, <1>4, <3>1 DEF NumbersInv, PendingInv
  <2>9. RecentInv'
    BY <1>1, <1>2, <1>4, <2>3 DEF NumbersInv, RecentInv
  <2>10. StepInv'
    <3>1. f \notin DOMAIN files'
      BY <2>2
    <3>2. Fits(f, line[t].ts)'
      BY <1>2, <1>5, <3>1 DEF Fits, SizeOf
    <3>3. Fits(<<path, Log>>, line[t].ts)'
      BY <1>0, <1>2, <3>2 DEF Fits, SizeOf
    <3> QED
      BY <1>2, <1>3, <3>3 DEF StepInv, Inside
  <2>12. BackupInv'
    <3> SUFFICES ASSUME NEW p \in Paths, NEW k \in Times, <<p, k>> \in DOMAIN files'
                 PROVE  BackupAt(p, k)'
      BY DEF BackupInv
    <3>1. lastTs \in Nat /\ lastTs <= now /\ now \in Nat
      BY <1>1, BoundsAssumption DEF TypeOK, Times
    <3>2. CASE <<p, k>> # b
      <4>1. <<p, k>> \in DOMAIN files /\ files'[<<p, k>>] = files[<<p, k>>]
        BY <2>2, <3>2
      <4>2. BackupAt(p, k)
        BY <1>1, <4>1 DEF NumbersInv, BackupInv
      <4>3. Passed(k) => Passed(k)'
        BY <1>2, <1>4 DEF Passed
      <4>4. <<p, Log>> \in DOMAIN files' =>
              <<p, Log>> \in DOMAIN files /\ files'[<<p, Log>>] = files[<<p, Log>>]
        BY <1>0, <2>1, <2>2
      <4> QED
        BY <1>2, <1>4, <4>1, <4>2, <4>3, <4>4 DEF BackupAt
    <3>3. CASE <<p, k>> = b
      <4>1. p = path /\ k = lastTs
        BY <1>0, <3>3
      <4>2. \A u \in Threads : Unwritten(u) => k <= line[u].ts
        BY <1>1, <4>1 DEF NumbersInv, PendingInv
      <4>3. <<p, Log>> \notin DOMAIN files'
        BY <1>0, <2>2, <4>1
      <4>4. files'[<<p, k>>].size >= setting.size \/ (Renamed(t)' /\ k < line[t].ts)
        BY <1>2, <2>1, <2>2, <3>3, <4>1
      <4> QED
        BY <1>2, <1>4, <2>1, <3>1, <4>1, <4>2, <4>3, <4>4 DEF BackupAt
    <3> QED
      BY <3>2, <3>3
  <2>13. FirstInv'
    <3>1. run = 0 /\ lastTs = 0 => FALSE
      BY <2>1
    <3> QED
      BY <1>2, <3>1 DEF FirstInv
  <2> QED
    BY <2>7, <2>8, <2>9, <2>10, <2>12, <2>13 DEF NumbersInv
<1> QED
  BY <1>6, <1>7

------------------------------------------------------------------------------
(* The theorems. *)

LEMMA InitInv == Init => IndInv
<1> SUFFICES ASSUME Init
             PROVE  IndInv
  OBVIOUS
<1>1. TypeOK
  BY InitTyped
<1>2. /\ DOMAIN files = {} /\ written = {} /\ replaced = {} /\ mutex = {} /\ path \in Paths /\ path \in folders
      /\ \A t \in Threads : pc[t] = "idle"
      /\ lastTs = 0 /\ spent = 0 /\ now = 1
  BY DEF Init
<1>3. LostInReplacedOnly
  BY <1>2 DEF LostInReplacedOnly
<1>4. Sorted /\ Rotated /\ LineInv /\ RecentInv /\ BackupInv /\ FirstInv
  BY <1>2 DEF Sorted, Rotated, LineInv, RecentInv, BackupInv, FirstInv
<1>5. MutexInv /\ PathInv
  BY <1>2, NoPathAssumption DEF MutexInv, PathInv, Inside, SettingPath
<1>6. PendingInv /\ StepInv
  BY <1>2 DEF PendingInv, StepInv, Unwritten, Pending
<1> QED
  BY <1>1, <1>3, <1>4, <1>5, <1>6 DEF IndInv

LEMMA StepKeepsInv ==
    ASSUME IndInv, [Next]_vars
    PROVE  IndInv'
<1>1. TypeOK'
  BY TypeStep
<1>2. MutexInv' /\ PathInv'
  BY ControlStep DEF IndInv
<1>3. FilesInv'
  BY <1>1, FilesStep
<1>4. NumbersInv'
  BY <1>1, QuietNumbers, LockNumbers, BackupNumbers, OpenNumbers, WriteNumbers, RestartNumbers, TickNumbers
     DEF Next, PrintLine, Ended
<1> QED
  BY <1>1, <1>2, <1>3, <1>4 DEF IndInv, FilesInv, NumbersInv

(* The invariant that the others follow from: where the threads are, what  *)
(* the line in hand and the last line have to do with the files, and what  *)
(* a backup is like whose name the next one takes (vlog_print,             *)
(* vutil.c:316-385).                                                       *)
THEOREM LogSound == Spec => []IndInv
<1>1. Init => IndInv
  BY InitInv
<1>2. IndInv /\ [Next]_vars => IndInv'
  BY StepKeepsInv
<1> QED
  BY <1>1, <1>2, PTL DEF Spec

(* Every line written is in one file and stays there, for any threads,     *)
(* paths, settings and number of restarts, unless the backup that holds it *)
(* is replaced by another of the same path whose last line is of the same  *)
(* second; and then it was full, or both are the first of a restart.       *)
THEOREM LostInReplacedOnlyCorrect == Spec => []LostInReplacedOnly
<1>1. IndInv => LostInReplacedOnly
  BY DEF IndInv
<1> QED
  BY <1>1, LogSound, PTL

(* The lines of a path are in order over its backups and its log.          *)
THEOREM LinesInOrderCorrect == Spec => []LinesInOrder
<1>1. IndInv => LinesInOrder
  BY DEF IndInv, LinesInOrder, Sorted
<1> QED
  BY <1>1, LogSound, PTL

(* No file grows beyond its size by more than a line, and none goes over   *)
(* the end of a period that the last print was in or just before.          *)
THEOREM RotatedCorrect == Spec => []Rotated
<1>1. IndInv => Rotated
  BY DEF IndInv
<1> QED
  BY <1>1, LogSound, PTL

(* A line is dropped only while a path is being set.                       *)
THEOREM DroppedCorrect == Spec => DroppedInSetPathOnly
<1>1. IndInv /\ [Next]_vars => [dropped' # dropped => \E t \in Threads : SettingPath(t)]_dropped
  <2> SUFFICES ASSUME IndInv, [Next]_vars, dropped' # dropped
               PROVE  \E t \in Threads : SettingPath(t)
    OBVIOUS
  <2>1. \E t \in Threads : Open(t) /\ path \notin folders
    BY DEF Next, PrintLine, Lock, Check, BackupFile, Open, Write, Unlock, ClearPath, SetPath,
           Mkdir, Restart, Tick, Ended, vars
  <2> QED
    BY <2>1 DEF IndInv, PathInv, SettingPath
<1> QED
  BY <1>1, LogSound, PTL DEF Spec, DroppedInSetPathOnly
==================================================================================
