------------------------------ MODULE ThreadIds ------------------------------
(***************************************************************************)
(* Allocation of thread ids by several octium processes that share one     *)
(* threads directory.  The last id given out is kept in                    *)
(* thread_group_set.json; every process keeps a copy of it (ThreadNum) and *)
(* the version of the file it last read or wrote.  Every call of the       *)
(* AtomicFS holds the lock of the file, so it is one step; between two     *)
(* calls the other processes run.                                          *)
(*                                                                         *)
(* A version is a digest of the file's bytes and modification time, so a   *)
(* version is modelled by that pair; no two writes are assumed to have     *)
(* different modification times.                                           *)
(***************************************************************************)
EXTENDS Integers, Sequences

CONSTANTS Procs,          \* octium processes
          Mtimes,         \* modification times the file system may record
          MaxNum          \* bound on the ids, and on how many are given out

ASSUME IdAssumption == MaxNum \in Nat

VARIABLES
    file,       \* thread_group_set.json: bytes and modification time, or NoFile
    threadDirs, \* ids of the thread directories on disk
    num,        \* persisted.ThreadNum of every process
    ver,        \* persistedVer of every process (NoFile: the empty version)
    maxId,      \* maxID of the process's reconcileThreadNumFromLoadedThreads
    pc,         \* where every process is
    issued,     \* history: the ids newThreadId returned, in order
    missed,     \* history: was the file ever missing?
    shared      \* history: were two processes ever up at once?

vars == <<file, threadDirs, num, ver, maxId, pc, issued, missed, shared>>

Nums     == 0 .. MaxNum
Contents == [num : Nums, mtime : Mtimes]
NoFile   == [num |-> -1, mtime |-> 0]

Steps == {"down", "loading", "creating", "scanning", "raising", "rereading",
          "recreating", "ready", "bumping", "bumpRead", "bumpCreate", "naming",
          "legacyBump", "legacyRead", "legacyCreate", "renaming"}

\* The file may have been restored from a backup, so that it lags behind the
\* thread directories.
Init ==
    /\ file \in Contents \cup {NoFile}
    /\ threadDirs \in SUBSET (1 .. MaxNum)
    /\ num = [p \in Procs |-> 0]
    /\ ver = [p \in Procs |-> NoFile]
    /\ maxId = [p \in Procs |-> 0]
    /\ pc = [p \in Procs |-> "down"]
    /\ issued = <<>>
    /\ missed = (file = NoFile)
    /\ shared = FALSE

Up(p) == pc[p] # "down"

\* Process p goes to step s; whether it has company is remembered.
Goto(p, s) ==
    /\ pc' = [pc EXCEPT ![p] = s]
    /\ shared' = (shared \/ (s # "down" /\ \E q \in Procs \ {p} : Up(q)))
    /\ UNCHANGED missed

-----------------------------------------------------------------------------
(* The AtomicFS and the two helpers of ThreadGroupSet built on it.         *)

\* FS.WriteFile: replace the file, whatever it holds, by process p's ThreadNum.
WriteFile(p) ==
    \E m \in Mtimes : /\ file' = [num |-> num'[p], mtime |-> m]
                      /\ ver' = [ver EXCEPT ![p] = file']

\* Faulty variants: no version is compared; a version is the time only.
CASMatches_Never(p) == TRUE
CASMatches_MtimeOnly(p) == file.mtime = ver[p].mtime

\* FS.WriteFileCAS succeeds when the file still has version ver[p]; the empty
\* version means that the file must not exist.
CASMatches(p) == file = ver[p]

\* readPersisted with the file present: adopt its number and version.
Adopt(p) == /\ file # NoFile
            /\ num' = [num EXCEPT ![p] = file.num]
            /\ ver' = [ver EXCEPT ![p] = file]

\* readPersisted with the file missing falls back on save(force).
Missing == file = NoFile

-----------------------------------------------------------------------------
(* Load.                                                                   *)

Load(p) ==
    /\ pc[p] = "down"
    /\ Goto(p, "loading")
    /\ UNCHANGED <<file, threadDirs, num, ver, maxId, issued>>

LoadRead(p) ==
    /\ pc[p] = "loading"
    /\ \/ Adopt(p) /\ Goto(p, "scanning")
       \/ Missing /\ Goto(p, "creating") /\ UNCHANGED <<num, ver>>
    /\ UNCHANGED <<file, threadDirs, maxId, issued>>

LoadCreate(p) ==
    /\ pc[p] = "creating"
    /\ UNCHANGED num
    /\ WriteFile(p)
    /\ Goto(p, "scanning")
    /\ UNCHANGED <<threadDirs, maxId, issued>>

\* Faulty variant: threads on disk are ignored.
Reconcile_Skip(p) ==
    /\ pc[p] = "scanning"
    /\ Goto(p, "ready")
    /\ UNCHANGED <<file, threadDirs, num, ver, maxId, issued>>

\* loadThreadGroups, then the first half of reconcileThreadNumFromLoadedThreads:
\* the largest id on disk must not exceed ThreadNum.
Reconcile(p) ==
    /\ pc[p] = "scanning"
    /\ \E m \in threadDirs \cup {num[p]} :
           /\ \A id \in threadDirs \cup {num[p]} : id <= m
           /\ maxId' = [maxId EXCEPT ![p] = m]
           /\ num' = [num EXCEPT ![p] = m]
           /\ Goto(p, IF m <= num[p] THEN "ready" ELSE "raising")
    /\ UNCHANGED <<file, threadDirs, ver, issued>>

Raise(p) ==
    /\ pc[p] = "raising"
    /\ UNCHANGED num
    /\ \/ CASMatches(p) /\ WriteFile(p) /\ Goto(p, "ready")
       \/ ~CASMatches(p) /\ Goto(p, "rereading") /\ UNCHANGED <<file, ver>>
    /\ UNCHANGED <<threadDirs, maxId, issued>>

\* After a conflict: give up if another process raised the number far enough.
RaiseRead(p) ==
    /\ pc[p] = "rereading"
    /\ \/ /\ file # NoFile
          /\ ver' = [ver EXCEPT ![p] = file]
          /\ IF file.num >= maxId[p]
             THEN Goto(p, "ready") /\ num' = [num EXCEPT ![p] = file.num]
             ELSE Goto(p, "raising") /\ num' = [num EXCEPT ![p] = maxId[p]]
       \/ Missing /\ Goto(p, "recreating") /\ UNCHANGED <<num, ver>>
    /\ UNCHANGED <<file, threadDirs, maxId, issued>>

RaiseCreate(p) ==
    /\ pc[p] = "recreating"
    /\ UNCHANGED num
    /\ WriteFile(p)
    /\ Goto(p, "ready")
    /\ UNCHANGED <<threadDirs, maxId, issued>>

-----------------------------------------------------------------------------
(* newThreadId's compare-and-swap loop, from step at: advance ThreadNum    *)
(* and save it; a conflict leaves ThreadNum advanced until it is read.     *)

Draw(p, at, conflict, drawn) ==
    /\ pc[p] = at
    /\ num[p] < MaxNum
    /\ num' = [num EXCEPT ![p] = @ + 1]
    /\ \/ /\ CASMatches(p) /\ WriteFile(p)
          /\ Goto(p, drawn)
          /\ issued' = Append(issued, num'[p])
       \/ /\ ~CASMatches(p)
          /\ Goto(p, conflict)
          /\ UNCHANGED <<file, ver, issued>>
    /\ UNCHANGED <<threadDirs, maxId>>

DrawRead(p, at, again, create) ==
    /\ pc[p] = at
    /\ \/ Adopt(p) /\ Goto(p, again)
       \/ Missing /\ Goto(p, create) /\ UNCHANGED <<num, ver>>
    /\ UNCHANGED <<file, threadDirs, maxId, issued>>

DrawCreate(p, at, again) ==
    /\ pc[p] = at
    /\ UNCHANGED num
    /\ WriteFile(p)
    /\ Goto(p, again)
    /\ UNCHANGED <<threadDirs, maxId, issued>>

-----------------------------------------------------------------------------
(* NewThread: newThreadId, then the save of the new thread's directory.    *)

NewThread(p) ==
    /\ pc[p] = "ready"
    /\ Len(issued) < MaxNum
    /\ Goto(p, "bumping")
    /\ UNCHANGED <<file, threadDirs, num, ver, maxId, issued>>

Bump(p) == Draw(p, "bumping", "bumpRead", "naming")

BumpRead(p) == DrawRead(p, "bumpRead", "bumping", "bumpCreate")

BumpCreate(p) == DrawCreate(p, "bumpCreate", "bumping")

\* thread.save() of the new thread in the directory named by its id.
SaveThread(p) ==
    /\ pc[p] = "naming"
    /\ threadDirs' = threadDirs \cup {num[p]}
    /\ Goto(p, "ready")
    /\ UNCHANGED <<file, num, ver, maxId, issued>>

-----------------------------------------------------------------------------
(* A legacy thread without id, found by loadThreadGroups: newThreadId is   *)
(* called before ThreadNum was reconciled with the directories.            *)

Legacy(p) ==
    /\ pc[p] = "scanning"
    /\ Len(issued) < MaxNum
    /\ Goto(p, "legacyBump")
    /\ UNCHANGED <<file, threadDirs, num, ver, maxId, issued>>

LegacyBump(p) == Draw(p, "legacyBump", "legacyRead", "renaming")

LegacyRead(p) == DrawRead(p, "legacyRead", "legacyBump", "legacyCreate")

LegacyCreate(p) == DrawCreate(p, "legacyCreate", "legacyBump")

\* migrateOldThreadDirs renames the directory to the id, unless there is one
\* of that name.  Load fails in either case: the thread.json in the renamed
\* directory still lacks an id and is given another one, which is not the name
\* of its directory, except when the number comes to be that name by chance.
Rename(p) ==
    /\ pc[p] = "renaming"
    /\ \/ threadDirs' = threadDirs \cup {num[p]} /\ Goto(p, "down")
       \/ num[p] \in threadDirs /\ UNCHANGED threadDirs /\ Goto(p, "scanning")
    /\ UNCHANGED <<file, num, ver, maxId, issued>>

-----------------------------------------------------------------------------
(* Failures.                                                               *)

\* A Load that fails leaves the process running with what it read so far; it
\* may load again from the configuration menu.
LoadFail(p) ==
    /\ pc[p] \in {"loading", "creating", "scanning", "raising", "rereading", "recreating",
                   "legacyBump", "legacyRead", "legacyCreate", "renaming"}
    /\ Goto(p, "down")
    /\ UNCHANGED <<file, threadDirs, num, ver, maxId, issued>>

\* A write whose directory sync fails has replaced the file and still returns
\* an error, so its version is not recorded: Load fails ...
RaiseFail(p) ==
    /\ pc[p] = "raising"
    /\ CASMatches(p)
    /\ \E m \in Mtimes : file' = [num |-> num[p], mtime |-> m]
    /\ Goto(p, "down")
    /\ UNCHANGED <<threadDirs, num, ver, maxId, issued>>

\* ... also when it named a legacy thread ...
LegacyFail(p) ==
    /\ pc[p] = "legacyBump"
    /\ CASMatches(p)
    /\ num[p] < MaxNum
    /\ num' = [num EXCEPT ![p] = @ + 1]
    /\ \/ \E m \in Mtimes : file' = [num |-> num'[p], mtime |-> m]
       \/ UNCHANGED file
    /\ Goto(p, "down")
    /\ UNCHANGED <<threadDirs, ver, maxId, issued>>

\* The process is gone, and with it what it knew.
Reset(p) ==
    /\ Goto(p, "down")
    /\ num' = [num EXCEPT ![p] = 0]
    /\ ver' = [ver EXCEPT ![p] = NoFile]
    /\ maxId' = [maxId EXCEPT ![p] = 0]

\* ... or NewThread fails, which ends the process without using the id.
BumpFail(p) ==
    /\ pc[p] = "bumping"
    /\ CASMatches(p)
    /\ num[p] < MaxNum
    /\ \E m \in Mtimes : file' = [num |-> num[p] + 1, mtime |-> m]
    /\ Reset(p)
    /\ UNCHANGED <<threadDirs, issued>>

\* The process exits or crashes, at any point.
Exit(p) ==
    /\ Reset(p)
    /\ UNCHANGED <<file, threadDirs, issued>>

\* The user deletes thread_group_set.json.
Vanish ==
    /\ file' = NoFile
    /\ missed' = TRUE
    /\ UNCHANGED <<threadDirs, num, ver, maxId, pc, issued, shared>>

Step(p) ==
    \/ Load(p) \/ LoadRead(p) \/ LoadCreate(p)
    \/ Reconcile(p) \/ Raise(p) \/ RaiseRead(p) \/ RaiseCreate(p)
    \/ NewThread(p) \/ Bump(p) \/ BumpRead(p) \/ BumpCreate(p) \/ SaveThread(p)
    \/ Legacy(p) \/ LegacyBump(p) \/ LegacyRead(p) \/ LegacyCreate(p) \/ Rename(p)
    \/ LoadFail(p) \/ RaiseFail(p) \/ LegacyFail(p) \/ BumpFail(p) \/ Exit(p)

Next == Vanish \/ \E p \in Procs : Step(p)

Spec == Init /\ [][Next]_vars

-----------------------------------------------------------------------------
(* Correctness.                                                            *)

\* Every variable but the two history flags has its type: ids are positive, and
\* the number on disk and in memory stays in range.
TypeOK ==
    /\ file \in Contents \cup {NoFile}
    /\ threadDirs \subseteq 1 .. MaxNum
    /\ num \in [Procs -> Nums]
    /\ ver \in [Procs -> Contents \cup {NoFile}]
    /\ maxId \in [Procs -> Nums]
    /\ pc \in [Procs -> Steps]
    /\ issued \in Seq(1 .. MaxNum)

\* newThreadId's promise: the ids it returns, in whatever process and across
\* restarts, are strictly increasing, so no id is ever given out twice, as long
\* as thread_group_set.json has been there all the time.
IdsOrdered == \A i, j \in DOMAIN issued : i < j => issued[i] < issued[j]
IdsIncrease == ~missed => IdsOrdered

\* A thread being created never lands in the directory of another thread, not
\* of one found on disk by a Load whose ThreadNum lagged behind, nor of one
\* another process is creating, or renaming to its id, at the same moment; where processes never
\* run at the same time, not even when the file is deleted at will.
DirsFree ==
    \A p \in Procs : pc[p] = "naming" =>
        /\ num[p] \notin threadDirs
        /\ \A q \in Procs \ {p} : pc[q] \in {"naming", "renaming"} => num[q] # num[p]
NewDirIsFree == ~(missed /\ shared) => DirsFree

\* The number on disk never goes back: a save that raced another process's
\* save is refused rather than overwriting it, until the file is deleted.
FileNeverGoesBack == [][~missed' => file'.num >= file.num]_vars
=============================================================================
