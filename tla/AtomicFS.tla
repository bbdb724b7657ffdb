------------------------------- MODULE AtomicFS -------------------------------
(***************************************************************************)
(* fsatomic/local: ReadFile, WriteFile and WriteFileCAS of one path by     *)
(* goroutines of several processes.  A call takes the mutex of its         *)
(* process's FS, then polls the advisory lock of the file; a write goes to *)
(* a temporary file that is synced, renamed over the path and made durable *)
(* by a sync of the directory.  A process may be killed, and the power may *)
(* fail, between any two steps.                                            *)
(*                                                                         *)
(* Temporary files have random names and are opened with O_EXCL, so each   *)
(* belongs to one call; one that a kill leaves behind is never looked at.  *)
(***************************************************************************)
EXTENDS Integers

CONSTANTS Callers,   \* goroutines that call the FS
          ProcOf,    \* the process of each
          Data,      \* contents of the file
          Mtimes,    \* modification times the file system may record
          MaxCalls   \* bound: calls, of all goroutines

Procs == {ProcOf[c] : c \in Callers}

NoFile   == [data |-> "none", mtime |-> 0]
Torn     == [data |-> "torn", mtime |-> 0]
Contents == [data : Data, mtime : Mtimes]

Nobody == "nobody"   \* owns a lock that is free

ASSUME FsAssumption == /\ "none" \notin Data /\ "torn" \notin Data
                       /\ 0 \notin Mtimes
                       /\ Nobody \notin Callers

VARIABLES
    file,    \* the contents and modification time of the path
    synced,  \* are the contents of the path on disk?
    disk,    \* what the directory on disk last named
    mutex,   \* the owner of every process's mutex for the path
    flock,   \* the owner of the advisory lock of path.lock
    pc,      \* where every call is
    call,    \* its arguments and its result
    tmp,     \* its temporary file
    calls    \* how many calls were made

diskVars == <<file, synced, disk>>
lockVars == <<mutex, flock>>
vars     == <<diskVars, lockVars, pc, call, tmp, calls>>

\* known is the version the goroutine got last, NoFile for the empty version.
Idle(known) == [kind |-> "none", data |-> "none", known |-> known,
                result |-> "none", seen |-> NoFile]
NoTmp == [file |-> NoFile, synced |-> FALSE]

\* A goroutine may know the version of the file from an earlier call.
Init ==
    /\ file \in Contents \cup {NoFile} /\ synced = TRUE /\ disk = file
    /\ mutex = [p \in Procs |-> Nobody] /\ flock = Nobody
    /\ pc = [c \in Callers |-> "idle"]
    /\ \E known \in [Callers -> {file, NoFile}] : call = [c \in Callers |-> Idle(known[c])]
    /\ tmp = [c \in Callers |-> NoTmp]
    /\ calls = 0

Step(c, from, to) == pc[c] = from /\ pc' = [pc EXCEPT ![c] = to]

Result(c, result, ver) ==
    call' = [call EXCEPT ![c].result = result, ![c].seen = ver]

\* An error return from step from; its deferred functions start at step to.
Fails(c, from, to) == Step(c, from, to) /\ Result(c, "error", NoFile)
-----------------------------------------------------------------------------
(* lockPath.                                                               *)

Call(c) ==
    /\ Step(c, "idle", "mutex")
    /\ calls < MaxCalls
    /\ calls' = calls + 1
    /\ \E kind \in {"read", "write", "cas"} :
       \E d \in IF kind = "read" THEN {"none"} ELSE Data :
           call' = [call EXCEPT ![c].kind = kind, ![c].data = d]
    /\ UNCHANGED <<diskVars, lockVars, tmp>>

LockMutex(c) ==
    /\ Step(c, "mutex", "open")
    /\ mutex[ProcOf[c]] = Nobody
    /\ mutex' = [mutex EXCEPT ![ProcOf[c]] = c]
    /\ UNCHANGED <<diskVars, flock, call, tmp, calls>>

\* newLockFile, which creates the directory and opens path.lock
NewLockFile(c) ==
    /\ \/ Step(c, "open", "poll") /\ UNCHANGED call
       \/ Fails(c, "open", "release")
    /\ UNCHANGED <<diskVars, lockVars, tmp, calls>>

\* One round of lockFile.lock: flock excludes other open files, of any process.
Flock(c) ==
    /\ Step(c, "poll", "locked")
    /\ flock = Nobody
    /\ flock' = c
    /\ UNCHANGED <<diskVars, mutex, call, tmp, calls>>

\* Faulty variant: the error path forgets the mutex.
FlockFails_KeepMutex(c) ==
    /\ Fails(c, "poll", "returned")
    /\ UNCHANGED <<diskVars, lockVars, tmp, calls>>

\* The context is done, or flock fails for another reason.
FlockFails(c) ==
    /\ Fails(c, "poll", "release")
    /\ UNCHANGED <<diskVars, lockVars, tmp, calls>>
-----------------------------------------------------------------------------
(* Under the locks.                                                        *)

Read(c) ==
    /\ Step(c, "locked", "unlock")
    /\ call[c].kind = "read"
    /\ \/ Result(c, IF file = NoFile THEN "notFound" ELSE "ok", file)
       \/ Result(c, "error", NoFile)
    /\ UNCHANGED <<diskVars, lockVars, tmp, calls>>

Begin(c) ==
    /\ call[c].kind = "write" \/ (call[c].kind = "cas" /\ file = call[c].known)
    /\ Step(c, "locked", "create")
    /\ UNCHANGED <<diskVars, lockVars, call, tmp, calls>>

\* The file cannot be read, or has another version.
Conflict(c) ==
    /\ call[c].kind = "cas"
    /\ Step(c, "locked", "unlock")
    /\ \/ file # call[c].known /\ Result(c, "conflict", NoFile)
       \/ Result(c, "error", NoFile)
    /\ UNCHANGED <<diskVars, lockVars, tmp, calls>>

\* writeFileAtomic: MkdirAll, OpenFile, Write; what a failing Write wrote is removed.
Create(c) ==
    /\ \/ /\ Step(c, "create", "sync")
          /\ \E m \in Mtimes :
                 tmp' = [tmp EXCEPT ![c] =
                            [file |-> [data |-> call[c].data, mtime |-> m], synced |-> FALSE]]
          /\ UNCHANGED call
       \/ Fails(c, "create", "unlock") /\ UNCHANGED tmp
    /\ UNCHANGED <<diskVars, lockVars, calls>>

\* Faulty variant: the contents are not synced.
Sync_Skip(c) ==
    /\ Step(c, "sync", "rename")
    /\ UNCHANGED <<diskVars, lockVars, call, tmp, calls>>

Sync(c) ==
    /\ \/ /\ Step(c, "sync", "rename")
          /\ tmp' = [tmp EXCEPT ![c].synced = TRUE]
          /\ UNCHANGED call
       \/ Fails(c, "sync", "cleanup") /\ UNCHANGED tmp
    /\ UNCHANGED <<diskVars, lockVars, calls>>

Rename(c) ==
    /\ \/ /\ Step(c, "rename", "syncdir")
          /\ file' = tmp[c].file /\ synced' = tmp[c].synced
          /\ tmp' = [tmp EXCEPT ![c] = NoTmp]
          /\ UNCHANGED call
       \/ Fails(c, "rename", "cleanup") /\ UNCHANGED <<file, synced, tmp>>
    /\ UNCHANGED <<disk, lockVars, calls>>

SyncDir(c) ==
    /\ \/ Step(c, "syncdir", "stat") /\ disk' = file /\ UNCHANGED call
       \/ Fails(c, "syncdir", "cleanup") /\ UNCHANGED disk
    /\ UNCHANGED <<file, synced, lockVars, tmp, calls>>

\* statMtime, for the version that is returned
StatMtime(c) ==
    /\ Step(c, "stat", "unlock")
    /\ Result(c, "ok", file) \/ Result(c, "error", NoFile)
    /\ UNCHANGED <<diskVars, lockVars, tmp, calls>>

\* The deferred removal of the temporary file.
Cleanup(c) ==
    /\ Step(c, "cleanup", "unlock")
    /\ tmp' = [tmp EXCEPT ![c] = NoTmp]
    /\ UNCHANGED <<diskVars, lockVars, call, calls>>

\* The unlocker: flock and close, then the mutex.
Unlock(c) ==
    /\ Step(c, "unlock", "release")
    /\ flock' = Nobody
    /\ UNCHANGED <<diskVars, mutex, call, tmp, calls>>

Release(c) ==
    /\ Step(c, "release", "returned")
    /\ mutex' = [mutex EXCEPT ![ProcOf[c]] = Nobody]
    /\ UNCHANGED <<diskVars, flock, call, tmp, calls>>

\* The caller keeps the version of the file, as ThreadGroupSet does.
Return(c) ==
    /\ Step(c, "returned", "idle")
    /\ call' = [call EXCEPT ![c] = Idle(IF @.result = "ok" THEN @.seen ELSE @.known)]
    /\ UNCHANGED <<diskVars, lockVars, tmp, calls>>
-----------------------------------------------------------------------------
(* Failures.                                                               *)

Gone(S) ==
    /\ pc' = [c \in Callers |-> IF c \in S THEN "idle" ELSE pc[c]]
    /\ call' = [c \in Callers |-> IF c \in S THEN Idle(NoFile) ELSE call[c]]
    /\ tmp' = [c \in Callers |-> IF c \in S THEN NoTmp ELSE tmp[c]]
    /\ mutex' = [p \in Procs |-> IF mutex[p] \in S THEN Nobody ELSE mutex[p]]
    /\ flock' = IF flock \in S THEN Nobody ELSE flock
    /\ UNCHANGED calls

\* Process p is killed and started again: the kernel drops its locks.
Kill(p) ==
    /\ \E c \in Callers : ProcOf[c] = p /\ pc[c] # "idle"
    /\ Gone({c \in Callers : ProcOf[c] = p})
    /\ UNCHANGED diskVars

\* A rename that was not synced may be undone; contents that were not may be torn.
PowerLoss ==
    /\ file' \in {disk, IF synced THEN file ELSE Torn}
    /\ disk' = file' /\ synced' = TRUE
    /\ Gone(Callers)

Progress(c) ==
    \/ LockMutex(c) \/ NewLockFile(c) \/ Flock(c) \/ Read(c) \/ Begin(c) \/ Conflict(c)
    \/ Create(c) \/ Sync(c) \/ Rename(c) \/ SyncDir(c) \/ StatMtime(c) \/ Cleanup(c)
    \/ Unlock(c) \/ Release(c) \/ Return(c)

Next ==
    \/ \E c \in Callers : Call(c) \/ Progress(c) \/ FlockFails(c)
    \/ \E p \in Procs : Kill(p)
    \/ PowerLoss

\* The scheduler runs every goroutine that can run; a poll that finds the lock
\* free takes it.  No call is made, no context cancelled and no process killed
\* out of fairness.
Spec == Init /\ [][Next]_vars /\ \A c \in Callers : WF_vars(Progress(c))
-----------------------------------------------------------------------------
(* Correctness.                                                            *)

Phase(c) ==
    CASE pc[c] = "idle" -> "idle"
      [] pc[c] \in {"syncdir", "stat"} -> "committed"
      [] pc[c] \in {"cleanup", "unlock", "release", "returned"} -> "done"
      [] OTHER -> "pending"

Abstract == INSTANCE CasFile WITH safe <- disk, phase <- [c \in Callers |-> Phase(c)]

\* The locks and the order of the file operations make of every call the one
\* step that the AtomicFS interface promises, whatever is killed and whenever
\* the power fails: no reader sees torn contents, no compare-and-swap overwrites
\* a version it did not name, and no acknowledged write is lost.
ImplementsCasFile == Abstract!Spec

\* Every call returns, unless its process dies: no error path keeps a lock, and
\* the kernel frees the lock of a process that was killed (lockPath).
CallsReturn == \A c \in Callers : pc[c] # "idle" ~> pc[c] = "idle"
=============================================================================
