---------------------------------- MODULE VLog ----------------------------------
(***************************************************************************)
(* The rotating log file VLog of vutil.c: several threads of one process   *)
(* print lines to a file under the log's mutex; a file that is long        *)
(* enough, or of an earlier day, is first renamed to a backup whose name   *)
(* is the time of the last print, in seconds.  A thread may give the log   *)
(* another path while others print.  The process may crash at any step and *)
(* start again with the same settings.                                     *)
(*                                                                         *)
(* A line is a record: its number in the order in which lines were begun,  *)
(* its second ts, its size, and the number of restarts before it.          *)
(***************************************************************************)
EXTENDS Integers, Sequences

CONSTANTS
    Threads,
    Paths,        \* the paths vlog_setPath gives the log, in different folders
    NoPath,       \* the empty string
    Settings,     \* the values of setSize and setDay: records size, day
    Sizes,        \* the sizes of lines
    MaxLines,     \* bound on the lines
    MaxTime,      \* bound on the clock
    PerTick,      \* bound on the bytes printed in one second
    MaxRestarts   \* bound on the crashes

ASSUME SettingsAssumption == \A s \in Settings : s.day \in Nat /\ s.size \in Nat \ {0}
ASSUME BoundsAssumption ==
    MaxLines \in Nat /\ MaxTime \in Nat \ {0} /\ PerTick \in Nat /\ MaxRestarts \in Nat
ASSUME NoPathAssumption == NoPath \notin Paths
ASSUME SizesAssumption == Sizes \subseteq Nat \ {0}

Times   == 0 .. MaxTime
Log     == MaxTime + 1         \* the name of the file that is no backup
NoLine  == [n |-> 0, ts |-> 0, size |-> 0, run |-> 0]

VARIABLES
    files,     \* [paths and names that exist -> file]
    folders,   \* the paths whose folder exists
    path, setting,
    lastTs,    \* the time of the last print
    mutex,     \* the threads inside, at most one
    pc,        \* where each thread is in vlog_print
    line,      \* the line each thread prints
    fd,        \* the path of the file each thread has open, or NoPath
    now, nLine, spent, run,   \* the clock, lines, bytes this second, restarts
    written,   \* the lines written; history
    dropped,   \* the lines that no file was found for; history
    replaced   \* history: the backups that another one took the place of

fileVars == <<files, folders, path, setting, lastTs>>
counters == <<now, nLine, spent, run>>
vars == <<fileVars, mutex, pc, line, fd, counters, written, dropped, replaced>>

Goto(t, label) == pc' = [pc EXCEPT ![t] = label]

(* vlog_create, setSize, setDay. *)
Init ==
    /\ files = [f \in {} |-> 0]
    /\ path \in Paths /\ folders = {path} /\ setting \in Settings
    /\ lastTs = 0
    /\ mutex = {}
    /\ pc = [t \in Threads |-> "idle"]
    /\ line = [t \in Threads |-> NoLine]
    /\ fd = [t \in Threads |-> NoPath]
    /\ now = 1 /\ nLine = 0 /\ spent = 0 /\ run = 0
    /\ written = {} /\ dropped = {} /\ replaced = {}

------------------------------------------------------------------------------
(* vlog_print *)

(* Mutant: the mutex is not waited for. *)
LockUnguarded(t) == mutex' = mutex \cup {t}

vlog_lock(t) == mutex = {} /\ mutex' = {t}

(* The line gets its time, ts, under the mutex. *)
Lock(t, size) ==
    /\ pc[t] = "idle" /\ nLine < MaxLines /\ spent + size <= PerTick
    /\ vlog_lock(t)
    /\ line' = [line EXCEPT ![t] = [n |-> nLine + 1, ts |-> now, size |-> size, run |-> run]]
    /\ nLine' = nLine + 1 /\ spent' = spent + size
    /\ Goto(t, "check")
    /\ UNCHANGED <<fileVars, fd, now, run, written, dropped, replaced>>

(* stat of a file that is not there gives size 0. *)
SizeOf(f) == IF f \in DOMAIN files THEN files[f].size ELSE 0

(* Mutant: a file of exactly the maximal size is not long enough. *)
NeedBackupLate(ts) ==
    \/ SizeOf(<<path, Log>>) > setting.size
    \/ setting.day # 0 /\ ts % setting.day < lastTs % setting.day

NeedBackupFile(ts) ==
    \/ SizeOf(<<path, Log>>) >= setting.size
    \/ setting.day # 0 /\ ts % setting.day < lastTs % setting.day

Check(t) ==
    /\ pc[t] = "check"
    /\ Goto(t, IF NeedBackupFile(line[t].ts) THEN "backup" ELSE "open")
    /\ UNCHANGED <<fileVars, mutex, line, fd, counters, written, dropped, replaced>>

(* rename: nothing without a file, and a backup of that name is replaced. *)
BackupFile(t) ==
    LET f   == <<path, Log>>
        bak == <<path, lastTs>>
    IN  /\ pc[t] = "backup"
        /\ files' = IF f \notin DOMAIN files THEN files
                    ELSE [g \in (DOMAIN files \ {f}) \cup {bak} |->
                            IF g = bak THEN files[f] ELSE files[g]]
        /\ replaced' = IF {f, bak} \subseteq DOMAIN files
                       THEN replaced \cup {[second |-> lastTs, run |-> run,
                                           old |-> files[bak], new |-> files[f]]}
                       ELSE replaced
        /\ Goto(t, "open")
        /\ UNCHANGED <<folders, path, setting, lastTs, mutex, line, fd, counters, written, dropped>>

(* Mutant: lastTs is not assigned. *)
LastTsKept(t) == lastTs

LastTs(t) == line[t].ts

(* fd_open creates a file that is not there, if its folder is; otherwise   *)
(* the line is dropped, and nobody is told.                                *)
Open(t) ==
    LET f == <<path, Log>>
    IN  /\ pc[t] = "open"
        /\ IF path \in folders
           THEN /\ files' = [g \in DOMAIN files \cup {f} |->
                              IF g \in DOMAIN files THEN files[g] ELSE [lines |-> <<>>, size |-> 0]]
                /\ fd' = [fd EXCEPT ![t] = path]
                /\ Goto(t, "write")
                /\ UNCHANGED <<lastTs, dropped>>
           ELSE /\ dropped' = dropped \cup {line[t]}
                /\ lastTs' = LastTs(t)
                /\ Goto(t, "unlock")
                /\ UNCHANGED <<files, fd>>
        /\ UNCHANGED <<folders, path, setting, mutex, line, counters, written, replaced>>

(* write appends the line. *)
Write(t) ==
    LET f == <<fd[t], Log>>
        l == line[t]
    IN  /\ pc[t] = "write"
        /\ files' = [files EXCEPT ![f] =
                       [lines |-> Append(@.lines, l), size |-> @.size + l.size]]
        /\ written' = written \cup {l}
        /\ lastTs' = LastTs(t)
        /\ fd' = [fd EXCEPT ![t] = NoPath]
        /\ Goto(t, "unlock")
        /\ UNCHANGED <<folders, path, setting, mutex, line, counters, dropped, replaced>>

Unlock(t) ==
    /\ pc[t] = "unlock"
    /\ mutex' = mutex \ {t}
    /\ line' = [line EXCEPT ![t] = NoLine]
    /\ Goto(t, "idle")
    /\ UNCHANGED <<fileVars, fd, counters, written, dropped, replaced>>

PrintLine(t) ==
    \/ \E size \in Sizes : Lock(t, size)
    \/ Check(t) \/ BackupFile(t) \/ Open(t) \/ Write(t) \/ Unlock(t)

------------------------------------------------------------------------------
(* vlog_setPath, by one thread at a time.  The clearing does not wait for  *)
(* the mutex: a thread that is printing sees the old path or none (paths   *)
(* are taken to be shorter than what memset clears at once).               *)
SettingPath(t) == pc[t] \in {"setPath", "mkdir"}

ClearPath(t) ==
    /\ pc[t] = "idle" /\ \A u \in Threads : ~SettingPath(u)
    /\ path' = NoPath
    /\ Goto(t, "setPath")
    /\ UNCHANGED <<files, folders, setting, lastTs, mutex, line, fd, counters, written, dropped, replaced>>

(* Under the mutex; the folder is made after it. *)
SetPath(t) ==
    /\ pc[t] = "setPath" /\ mutex = {}
    /\ path' \in Paths
    /\ Goto(t, "mkdir")
    /\ UNCHANGED <<files, folders, setting, lastTs, mutex, line, fd, counters, written, dropped, replaced>>

(* Mutant: no folder is made. *)
NoMkdir == folders

fd_mkdir == folders \cup {path}

Mkdir(t) ==
    /\ pc[t] = "mkdir"
    /\ folders' = fd_mkdir
    /\ Goto(t, "idle")
    /\ UNCHANGED <<files, path, setting, lastTs, mutex, line, fd, counters, written, dropped, replaced>>

(* Killed at any step, and started again. *)
Restart ==
    /\ run < MaxRestarts
    /\ run' = run + 1
    /\ path' \in Paths /\ folders' = folders \cup {path'}
    /\ lastTs' = 0
    /\ mutex' = {}
    /\ pc' = [t \in Threads |-> "idle"]
    /\ line' = [t \in Threads |-> NoLine]
    /\ fd' = [t \in Threads |-> NoPath]
    /\ UNCHANGED <<files, setting, now, nLine, spent, written, dropped, replaced>>

Tick ==
    /\ now < MaxTime
    /\ now' = now + 1 /\ spent' = 0
    /\ UNCHANGED <<fileVars, mutex, pc, line, fd, nLine, run, written, dropped, replaced>>

(* Everything allowed by the bounds has been done. *)
Ended == now = MaxTime /\ (\A t \in Threads : pc[t] = "idle") /\ UNCHANGED vars

Next ==
    \/ \E t \in Threads : PrintLine(t) \/ ClearPath(t) \/ SetPath(t) \/ Mkdir(t)
    \/ Restart \/ Tick \/ Ended

Spec == Init /\ [][Next]_vars

------------------------------------------------------------------------------
(* Correctness. *)

Lines == [n : 0 .. MaxLines, ts : Times, size : Sizes \cup {0}, run : 0 .. MaxRestarts]

(* The type invariant of the log and its files, checked with LinesInOrder. *)
TypeOK ==
    /\ DOMAIN files \subseteq Paths \X (Times \cup {Log})
    /\ \A f \in DOMAIN files : files[f].lines \in Seq(Lines) /\ files[f].size \in Nat
    /\ path \in Paths \cup {NoPath} /\ folders \subseteq Paths /\ setting \in Settings
    /\ lastTs \in 0 .. now
    /\ mutex \subseteq Threads
    /\ pc \in [Threads -> {"idle", "check", "backup", "open", "write", "unlock",
                        "setPath", "mkdir"}]
    /\ fd \in [Threads -> Paths \cup {NoPath}]
    /\ line \in [Threads -> Lines]
    /\ now \in Times \ {0} /\ nLine \in 0 .. MaxLines /\ spent \in Nat /\ run \in 0 .. MaxRestarts
    /\ written \subseteq Lines /\ dropped \subseteq Lines

LinesOf(f) == {files[f].lines[j] : j \in DOMAIN files[f].lines}

LinesIn(file) == {file.lines[j] : j \in DOMAIN file.lines}

(* Every line written is in one file and stays there, over renames, new    *)
(* paths, crashes and restarts, unless its file is a backup that the next  *)
(* backup of the same path replaces.  That takes two backups whose last    *)
(* print was in one second: the first was full, and the second holds lines *)
(* of that second only, as many as fill it if the log has no period.  Or   *)
(* both were the first backup after a restart, which has the name of       *)
(* second 0 (vutil.c:335-337, 354-381).                                    *)
LostInReplacedOnly ==
    /\ written = UNION ({LinesOf(f) : f \in DOMAIN files} \cup {LinesIn(x.old) : x \in replaced})
    /\ \A f, g \in DOMAIN files : LinesOf(f) \cap LinesOf(g) # {} => f = g
    /\ \A x \in replaced :
          IF x.second = 0
          THEN x.run >= 2
          ELSE /\ x.old.size >= setting.size
               /\ \A l \in LinesIn(x.new) : l.ts = x.second
               /\ setting.day = 0 => x.new.size >= setting.size

(* The lines of a path, read backup after backup in the order of their     *)
(* names and then in the log, are in the order in which they were printed, *)
(* whoever printed them; the backup of second 0, the first after a         *)
(* restart, is out of order (vutil.c:316-347, 376).                        *)
LinesInOrder ==
  /\ TypeOK
  /\ \A f, g \in DOMAIN files :
        f[1] = g[1] /\ f[2] # 0 /\ g[2] # 0 =>
            \A j \in DOMAIN files[f].lines, k \in DOMAIN files[g].lines :
                f[2] < g[2] \/ (f = g /\ j < k) => files[f].lines[j].n < files[g].lines[k].n

(* No file grows by a line after it has reached the maximal size; and of   *)
(* two lines printed one after the other less than a period apart, the     *)
(* second begins a new file when a period ends between them                *)
(* (vutil.c:354-371).  A pause of a period or more may go unnoticed.       *)
Rotated ==
    \A f \in DOMAIN files : \A j \in DOMAIN files[f].lines :
        LET l == files[f].lines
        IN  /\ j = Len(l) => files[f].size - l[j].size < setting.size
            /\ (j > 1 /\ setting.day # 0) =>
                 ~ /\ l[j - 1].n + 1 = l[j].n /\ l[j - 1].run = l[j].run
                   /\ l[j].ts - l[j - 1].ts < setting.day
                   /\ l[j].ts \div setting.day # l[j - 1].ts \div setting.day

(* A line is dropped only while another thread is in vlog_setPath: between *)
(* its clearing of the path and its making of the folder there is no file  *)
(* to write to, and at no other time, whatever paths were set before       *)
(* (vutil.c:288-310, 385-396).                                             *)
DroppedInSetPathOnly ==
    [][dropped' # dropped => \E t \in Threads : SettingPath(t)]_dropped
==============================================================================
