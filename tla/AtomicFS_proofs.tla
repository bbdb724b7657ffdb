--------------------------- MODULE AtomicFS_proofs ----------------------------
(***************************************************************************)
(* AtomicFS implements CasFile, for any goroutines, processes, contents    *)
(* and modification times, and any number of calls.                        *)
(***************************************************************************)
EXTENDS AtomicFS, TLAPS

Versions == Contents \cup {NoFile}

Calls == [kind : {"none", "read", "write", "cas"}, data : Data \cup {"none"}, known : Versions,
          result : {"none", "ok", "notFound", "conflict", "error"}, seen : Versions]

Places == {"idle", "mutex", "open", "poll", "locked", "create", "sync", "rename", "syncdir",
           "stat", "cleanup", "unlock", "release", "returned"}

\* Where a call holds the advisory lock of the file.
Locked == {"locked", "create", "sync", "rename", "syncdir", "stat", "cleanup", "unlock"}

\* The path never names contents that are not on disk: a file is synced before it
\* is renamed.
TypeInv ==
    /\ file \in Versions /\ disk \in Versions /\ synced = TRUE
    /\ pc \in [Callers -> Places]
    /\ call \in [Callers -> Calls]
    /\ tmp \in [Callers -> [file : Versions, synced : BOOLEAN]]

\* At most one call is under the advisory lock.
LockInv == \A c \in Callers : pc[c] \in Locked => flock = c

\* What a call under the lock relies on: the version it compared is still the
\* file's, its temporary file holds its contents, on disk when it is renamed, and
\* its directory entry is on disk when it is acknowledged.
WriteInv ==
    \A c \in Callers :
        /\ pc[c] \in {"create", "sync", "rename"} =>
               call[c].kind = "write" \/ (call[c].kind = "cas" /\ file = call[c].known)
        /\ pc[c] # "idle" /\ call[c].kind # "read" => call[c].data \in Data
        /\ pc[c] \in {"sync", "rename"} =>
               \E m \in Mtimes : tmp[c].file = [data |-> call[c].data, mtime |-> m]
        /\ pc[c] = "rename" => tmp[c].synced
        /\ pc[c] = "stat" => disk = file

Inv == TypeInv /\ LockInv /\ WriteInv

-----------------------------------------------------------------------------
(* Steps of one call.                                                      *)

\* What a step of a call does to the other calls' places.
LEMMA StepMoves ==
  ASSUME pc \in [Callers -> Places], NEW c \in Callers, NEW from, NEW to \in Places,
         Step(c, from, to)
  PROVE  /\ pc[c] = from /\ pc'[c] = to
         /\ \A x \in Callers \ {c} : pc'[x] = pc[x]
         /\ pc' \in [Callers -> Places]
  BY DEF Step

\* A result is recorded in the call alone, and leaves its arguments.
LEMMA ResultKeeps ==
  ASSUME TypeInv, NEW c \in Callers, NEW ver \in Versions,
         NEW result \in {"ok", "notFound", "conflict", "error"}, Result(c, result, ver)
  PROVE  /\ call' \in [Callers -> Calls]
         /\ \A x \in Callers : /\ call'[x].kind = call[x].kind /\ call'[x].data = call[x].data
                               /\ call'[x].known = call[x].known
         /\ \A x \in Callers \ {c} : call'[x] = call[x]
  BY DEF TypeInv, Result, Calls

\* Versions and idle calls.
LEMMA Constants ==
  ASSUME NEW known \in Versions
  PROVE  /\ NoFile \in Versions /\ Idle(known) \in Calls /\ Idle(known).kind = "none"
         /\ NoTmp \in [file : Versions, synced : BOOLEAN]
  BY DEF Versions, Idle, Calls, NoTmp, NoFile

\* The steps that only move a call on, or end it with an error.
Quiet(c) ==
    \/ LockMutex(c) \/ NewLockFile(c) \/ FlockFails(c) \/ Read(c) \/ Begin(c) \/ Conflict(c)
    \/ StatMtime(c) \/ Release(c)

\* They keep the file and the temporary files, the arguments of every call, and the
\* place of every other call.
LEMMA QuietKeeps ==
  ASSUME TypeInv, NEW c \in Callers, Quiet(c)
  PROVE  /\ UNCHANGED <<file, synced, disk, flock, tmp>>
         /\ call' \in [Callers -> Calls] /\ pc' \in [Callers -> Places]
         /\ \A x \in Callers : /\ call'[x].kind = call[x].kind /\ call'[x].data = call[x].data
                               /\ call'[x].known = call[x].known
         /\ \A x \in Callers \ {c} : pc'[x] = pc[x]
         /\ \/ LockMutex(c) /\ pc[c] = "mutex" /\ pc'[c] = "open"
            \/ pc[c] = "open" /\ pc'[c] \in {"poll", "release"}
            \/ pc[c] = "poll" /\ pc'[c] = "release"
            \/ pc[c] = "locked" /\ pc'[c] = "unlock"
            \/ /\ pc[c] = "locked" /\ pc'[c] = "create"
               /\ call[c].kind = "write" \/ (call[c].kind = "cas" /\ file = call[c].known)
            \/ pc[c] = "stat" /\ pc'[c] = "unlock"
            \/ pc[c] = "release" /\ pc'[c] = "returned"
  <1> USE DEF diskVars, lockVars
  <1>0. /\ pc \in [Callers -> Places] /\ call \in [Callers -> Calls] /\ file \in Versions
        /\ NoFile \in Versions
    BY DEF TypeInv, Versions
  <1>1. CASE LockMutex(c) \/ Begin(c) \/ Release(c)
    BY <1>0, <1>1, StepMoves DEF LockMutex, Begin, Release, Step, Places
  <1>2. CASE NewLockFile(c)
    <2>1. CASE Step(c, "open", "poll") /\ UNCHANGED call
      BY <1>0, <1>2, <2>1, StepMoves DEF NewLockFile, Places
    <2>2. CASE Step(c, "open", "release") /\ Result(c, "error", NoFile)
      BY <1>0, <1>2, <2>2, StepMoves, ResultKeeps DEF NewLockFile, Places
    <2>3. QED
      BY <1>2, <2>1, <2>2 DEF NewLockFile, Fails
  <1>3. CASE FlockFails(c)
    BY <1>0, <1>3, StepMoves, ResultKeeps DEF FlockFails, Fails, Places
  <1>4. CASE Read(c) \/ Conflict(c)
    <2>1. Step(c, "locked", "unlock") /\ UNCHANGED <<file, synced, disk, flock, tmp>>
      BY <1>4 DEF Read, Conflict
    <2>2. PICK result \in {"ok", "notFound", "conflict", "error"}, ver \in Versions :
              Result(c, result, ver)
      BY <1>0, <1>4 DEF Read, Conflict
    <2>3. QED
      BY <1>0, <2>1, <2>2, StepMoves, ResultKeeps DEF Places
  <1>5. CASE StatMtime(c)
    <2>1. PICK result \in {"ok", "error"}, ver \in Versions : Result(c, result, ver)
      BY <1>0, <1>5 DEF StatMtime
    <2>2. QED
      BY <1>0, <1>5, <2>1, StepMoves, ResultKeeps DEF StatMtime, Places
  <1>6. QED
    BY <1>1, <1>2, <1>3, <1>4, <1>5 DEF Quiet

\* They preserve the invariant.
LEMMA QuietStep ==
  ASSUME Inv, NEW c \in Callers, Quiet(c)
  PROVE  Inv'
  <1>1. TypeInv'
    BY QuietKeeps DEF Inv, TypeInv
  <1>2. LockInv'
    BY QuietKeeps DEF Inv, LockInv, Locked
  <1>3. WriteInv'
    BY QuietKeeps DEF Inv, WriteInv
  <1>4. QED
    BY <1>1, <1>2, <1>3 DEF Inv

\* A call begins with its arguments; it holds no lock.
LEMMA CallStep ==
  ASSUME Inv, NEW c \in Callers, Call(c)
  PROVE  Inv'
  <1>0. TypeInv /\ LockInv /\ WriteInv
    BY DEF Inv
  <1>1. PICK kind \in {"read", "write", "cas"}, d \in Data \cup {"none"} :
            /\ kind # "read" => d \in Data
            /\ call' = [call EXCEPT ![c].kind = kind, ![c].data = d]
    BY DEF Call
  <1>2. /\ pc'[c] = "mutex" /\ pc' \in [Callers -> Places]
        /\ \A x \in Callers \ {c} : pc'[x] = pc[x]
        /\ UNCHANGED <<file, synced, disk, flock, tmp>>
    BY <1>0, StepMoves DEF Call, TypeInv, Places, diskVars, lockVars
  <1>3. /\ call' \in [Callers -> Calls]
        /\ call'[c].kind = kind /\ call'[c].data = d
        /\ \A x \in Callers \ {c} : call'[x] = call[x]
    BY <1>0, <1>1 DEF TypeInv, Calls
  <1>4. TypeInv'
    BY <1>0, <1>2, <1>3 DEF TypeInv
  <1>5. LockInv'
    BY <1>0, <1>2 DEF LockInv, Locked
  <1>6. WriteInv'
    BY <1>0, <1>1, <1>2, <1>3 DEF WriteInv
  <1>7. QED
    BY <1>4, <1>5, <1>6 DEF Inv

\* The lock is taken only when it is free, so no other call is under it.
LEMMA FlockStep ==
  ASSUME Inv, NEW c \in Callers, Flock(c)
  PROVE  Inv'
  <1>0. TypeInv /\ LockInv /\ WriteInv
    BY DEF Inv
  <1>1. /\ pc'[c] = "locked" /\ pc' \in [Callers -> Places]
        /\ \A x \in Callers \ {c} : pc'[x] = pc[x]
        /\ pc[c] = "poll"
        /\ UNCHANGED <<file, synced, disk, call, tmp>>
        /\ flock = Nobody /\ flock' = c
    BY <1>0, StepMoves DEF Flock, TypeInv, Places, diskVars
  <1>2. \A x \in Callers : pc[x] \notin Locked
    BY <1>0, <1>1, FsAssumption DEF LockInv
  <1>3. TypeInv'
    BY <1>0, <1>1 DEF TypeInv
  <1>4. LockInv'
    BY <1>1, <1>2 DEF LockInv
  <1>5. WriteInv'
    BY <1>0, <1>1 DEF WriteInv
  <1>6. QED
    BY <1>3, <1>4, <1>5 DEF Inv

\* An error takes a call from under the lock to its end.
LEMMA ErrorKeeps ==
  ASSUME Inv, NEW c \in Callers, Result(c, "error", NoFile), pc' \in [Callers -> Places],
         pc[c] \in Locked, pc'[c] \in {"cleanup", "unlock"},
         \A x \in Callers \ {c} : pc'[x] = pc[x],
         UNCHANGED <<file, synced, disk, flock, tmp>>
  PROVE  Inv'
  <1>0. TypeInv /\ LockInv /\ WriteInv
    BY DEF Inv
  <1>1. /\ call' \in [Callers -> Calls]
        /\ \A x \in Callers : /\ call'[x].kind = call[x].kind /\ call'[x].data = call[x].data
                              /\ call'[x].known = call[x].known
    BY <1>0, ResultKeeps DEF Versions
  <1>2. TypeInv'
    BY <1>0, <1>1 DEF TypeInv
  <1>3. LockInv'
    BY <1>0 DEF LockInv, Locked
  <1>4. WriteInv'
    BY <1>0, <1>1 DEF WriteInv, Locked
  <1>5. QED
    BY <1>2, <1>3, <1>4 DEF Inv

\* The temporary file is created with the contents of the call.
LEMMA CreateStep ==
  ASSUME Inv, NEW c \in Callers, Create(c)
  PROVE  Inv'
  <1>0. TypeInv /\ LockInv /\ WriteInv
    BY DEF Inv
  <1>1. CASE /\ Step(c, "create", "sync") /\ UNCHANGED call
             /\ \E m \in Mtimes :
                    tmp' = [tmp EXCEPT ![c] = [file |-> [data |-> call[c].data, mtime |-> m],
                                               synced |-> FALSE]]
    <2>1. PICK m \in Mtimes :
              tmp' = [tmp EXCEPT ![c] = [file |-> [data |-> call[c].data, mtime |-> m],
                                         synced |-> FALSE]]
      BY <1>1
    <2>2. /\ pc[c] = "create" /\ pc'[c] = "sync" /\ pc' \in [Callers -> Places]
          /\ \A x \in Callers \ {c} : pc'[x] = pc[x]
          /\ UNCHANGED <<file, synced, disk, flock, call>>
      BY <1>0, <1>1, StepMoves DEF Create, TypeInv, Places, diskVars, lockVars
    <2>3. call[c].data \in Data
      BY <1>0, <2>2 DEF WriteInv
    <2>4. /\ tmp' \in [Callers -> [file : Versions, synced : BOOLEAN]]
          /\ tmp'[c].file = [data |-> call[c].data, mtime |-> m]
          /\ \A x \in Callers \ {c} : tmp'[x] = tmp[x]
      BY <1>0, <2>1, <2>3 DEF TypeInv, Versions, Contents
    <2>5. TypeInv'
      BY <1>0, <2>2, <2>4 DEF TypeInv
    <2>6. LockInv'
      BY <1>0, <2>2 DEF LockInv, Locked
    <2>7. WriteInv'
      BY <1>0, <2>2, <2>4 DEF WriteInv
    <2>8. QED
      BY <2>5, <2>6, <2>7 DEF Inv
  <1>2. CASE Fails(c, "create", "unlock") /\ UNCHANGED tmp
    <2>1. /\ pc[c] = "create" /\ pc'[c] = "unlock" /\ pc' \in [Callers -> Places]
          /\ \A x \in Callers \ {c} : pc'[x] = pc[x]
          /\ UNCHANGED <<file, synced, disk, flock, tmp>>
      BY <1>0, <1>2, StepMoves DEF Create, Fails, TypeInv, Places, diskVars, lockVars
    <2>2. QED
      BY <1>2, <2>1, ErrorKeeps DEF Fails, Locked
  <1>3. QED
    BY <1>1, <1>2 DEF Create

\* The contents of the temporary file reach the disk.
LEMMA SyncStep ==
  ASSUME Inv, NEW c \in Callers, Sync(c)
  PROVE  Inv'
  <1>0. TypeInv /\ LockInv /\ WriteInv
    BY DEF Inv
  <1>1. CASE Step(c, "sync", "rename") /\ tmp' = [tmp EXCEPT ![c].synced = TRUE] /\ UNCHANGED call
    <2>1. /\ pc[c] = "sync" /\ pc'[c] = "rename" /\ pc' \in [Callers -> Places]
          /\ \A x \in Callers \ {c} : pc'[x] = pc[x]
          /\ UNCHANGED <<file, synced, disk, flock, call>>
      BY <1>0, <1>1, StepMoves DEF Sync, TypeInv, Places, diskVars, lockVars
    <2>2. /\ tmp' \in [Callers -> [file : Versions, synced : BOOLEAN]]
          /\ tmp'[c].file = tmp[c].file /\ tmp'[c].synced
          /\ \A x \in Callers \ {c} : tmp'[x] = tmp[x]
      BY <1>0, <1>1 DEF TypeInv
    <2>3. TypeInv'
      BY <1>0, <2>1, <2>2 DEF TypeInv
    <2>4. LockInv'
      BY <1>0, <2>1 DEF LockInv, Locked
    <2>5. WriteInv'
      BY <1>0, <2>1, <2>2 DEF WriteInv
    <2>6. QED
      BY <2>3, <2>4, <2>5 DEF Inv
  <1>2. CASE Fails(c, "sync", "cleanup") /\ UNCHANGED tmp
    <2>1. /\ pc[c] = "sync" /\ pc'[c] = "cleanup" /\ pc' \in [Callers -> Places]
          /\ \A x \in Callers \ {c} : pc'[x] = pc[x]
          /\ UNCHANGED <<file, synced, disk, flock, tmp>>
      BY <1>0, <1>2, StepMoves DEF Sync, Fails, TypeInv, Places, diskVars, lockVars
    <2>2. QED
      BY <1>2, <2>1, ErrorKeeps DEF Fails, Locked
  <1>3. QED
    BY <1>1, <1>2 DEF Sync

\* The rename changes the file while no other call is under the lock.
LEMMA RenameStep ==
  ASSUME Inv, NEW c \in Callers, Rename(c)
  PROVE  Inv'
  <1>0. TypeInv /\ LockInv /\ WriteInv
    BY DEF Inv
  <1>1. CASE Step(c, "rename", "syncdir") /\ UNCHANGED call
    <2>1. /\ pc[c] = "rename" /\ pc'[c] = "syncdir" /\ pc' \in [Callers -> Places]
          /\ \A x \in Callers \ {c} : pc'[x] = pc[x]
          /\ UNCHANGED <<disk, flock, call>>
          /\ file' = tmp[c].file /\ synced' = tmp[c].synced /\ tmp' = [tmp EXCEPT ![c] = NoTmp]
      BY <1>0, <1>1, StepMoves DEF Rename, Fails, Step, TypeInv, Places, lockVars
    <2>2. \A x \in Callers \ {c} : pc'[x] \notin Locked
      BY <1>0, <2>1 DEF LockInv, Locked
    <2>3. /\ tmp' \in [Callers -> [file : Versions, synced : BOOLEAN]]
          /\ file' \in Versions
      BY <1>0, <2>1, Constants DEF TypeInv, Versions
    <2>4. synced' = TRUE
      BY <1>0, <2>1 DEF WriteInv, TypeInv
    <2>5. TypeInv'
      BY <1>0, <2>1, <2>3, <2>4 DEF TypeInv
    <2>6. LockInv'
      BY <1>0, <2>1 DEF LockInv, Locked
    <2>7. WriteInv'
      BY <1>0, <2>1, <2>2 DEF WriteInv, Locked
    <2>8. QED
      BY <2>5, <2>6, <2>7 DEF Inv
  <1>2. CASE Fails(c, "rename", "cleanup") /\ UNCHANGED <<file, synced, tmp>>
    <2>1. /\ pc[c] = "rename" /\ pc'[c] = "cleanup" /\ pc' \in [Callers -> Places]
          /\ \A x \in Callers \ {c} : pc'[x] = pc[x]
          /\ UNCHANGED <<file, synced, disk, flock, tmp>>
      BY <1>0, <1>2, StepMoves DEF Rename, Fails, TypeInv, Places, lockVars
    <2>2. QED
      BY <1>2, <2>1, ErrorKeeps DEF Fails, Locked
  <1>3. QED
    BY <1>1, <1>2 DEF Rename

\* The directory entry reaches the disk.
LEMMA SyncDirStep ==
  ASSUME Inv, NEW c \in Callers, SyncDir(c)
  PROVE  Inv'
  <1>0. TypeInv /\ LockInv /\ WriteInv
    BY DEF Inv
  <1>1. CASE Step(c, "syncdir", "stat") /\ disk' = file /\ UNCHANGED call
    <2>1. /\ pc[c] = "syncdir" /\ pc'[c] = "stat" /\ pc' \in [Callers -> Places]
          /\ \A x \in Callers \ {c} : pc'[x] = pc[x]
          /\ UNCHANGED <<file, synced, flock, call, tmp>> /\ disk' = file
      BY <1>0, <1>1, StepMoves DEF SyncDir, TypeInv, Places, lockVars
    <2>2. TypeInv'
      BY <1>0, <2>1 DEF TypeInv
    <2>3. LockInv'
      BY <1>0, <2>1 DEF LockInv, Locked
    <2>4. WriteInv'
      BY <1>0, <2>1 DEF WriteInv
    <2>5. QED
      BY <2>2, <2>3, <2>4 DEF Inv
  <1>2. CASE Fails(c, "syncdir", "cleanup") /\ UNCHANGED disk
    <2>1. /\ pc[c] = "syncdir" /\ pc'[c] = "cleanup" /\ pc' \in [Callers -> Places]
          /\ \A x \in Callers \ {c} : pc'[x] = pc[x]
          /\ UNCHANGED <<file, synced, disk, flock, tmp>>
      BY <1>0, <1>2, StepMoves DEF SyncDir, Fails, TypeInv, Places, lockVars
    <2>2. QED
      BY <1>2, <2>1, ErrorKeeps DEF Fails, Locked
  <1>3. QED
    BY <1>1, <1>2 DEF SyncDir

\* The end of a call gives up its temporary file and the lock.
LEMMA EndStep ==
  ASSUME Inv, NEW c \in Callers, Cleanup(c) \/ Unlock(c) \/ Return(c)
  PROVE  Inv'
  <1>0. TypeInv /\ LockInv /\ WriteInv
    BY DEF Inv
  <1>1. CASE Cleanup(c)
    <2>1. /\ pc[c] = "cleanup" /\ pc'[c] = "unlock" /\ pc' \in [Callers -> Places]
          /\ \A x \in Callers \ {c} : pc'[x] = pc[x]
          /\ UNCHANGED <<file, synced, disk, flock, call>> /\ tmp' = [tmp EXCEPT ![c] = NoTmp]
      BY <1>0, <1>1, StepMoves DEF Cleanup, TypeInv, Places, diskVars, lockVars
    <2>2. /\ tmp' \in [Callers -> [file : Versions, synced : BOOLEAN]]
          /\ \A x \in Callers \ {c} : tmp'[x] = tmp[x]
      BY <1>0, <2>1, Constants DEF TypeInv
    <2>3. TypeInv'
      BY <1>0, <2>1, <2>2 DEF TypeInv
    <2>4. LockInv'
      BY <1>0, <2>1 DEF LockInv, Locked
    <2>5. WriteInv'
      BY <1>0, <2>1, <2>2 DEF WriteInv
    <2>6. QED
      BY <2>3, <2>4, <2>5 DEF Inv
  <1>2. CASE Unlock(c)
    <2>1. /\ pc[c] = "unlock" /\ pc'[c] = "release" /\ pc' \in [Callers -> Places]
          /\ \A x \in Callers \ {c} : pc'[x] = pc[x]
          /\ UNCHANGED <<file, synced, disk, call, tmp>>
      BY <1>0, <1>2, StepMoves DEF Unlock, TypeInv, Places, diskVars
    <2>2. \A x \in Callers \ {c} : pc'[x] \notin Locked
      BY <1>0, <2>1 DEF LockInv, Locked
    <2>3. TypeInv'
      BY <1>0, <2>1 DEF TypeInv
    <2>4. LockInv'
      BY <2>1, <2>2 DEF LockInv, Locked
    <2>5. WriteInv'
      BY <1>0, <2>1 DEF WriteInv
    <2>6. QED
      BY <2>3, <2>4, <2>5 DEF Inv
  <1>3. CASE Return(c)
    <2>1. /\ pc'[c] = "idle" /\ pc' \in [Callers -> Places]
          /\ \A x \in Callers \ {c} : pc'[x] = pc[x]
          /\ UNCHANGED <<file, synced, disk, flock, tmp>>
      BY <1>0, <1>3, StepMoves DEF Return, TypeInv, Places, diskVars, lockVars
    <2>2. PICK known \in Versions : call' = [call EXCEPT ![c] = Idle(known)]
      BY <1>0, <1>3 DEF Return, TypeInv, Calls
    <2>3. /\ call' \in [Callers -> Calls]
          /\ \A x \in Callers \ {c} : call'[x] = call[x]
      BY <1>0, <2>2, Constants DEF TypeInv
    <2>4. TypeInv'
      BY <1>0, <2>1, <2>3 DEF TypeInv
    <2>5. LockInv'
      BY <1>0, <2>1 DEF LockInv, Locked
    <2>6. WriteInv'
      BY <1>0, <2>1, <2>3 DEF WriteInv
    <2>7. QED
      BY <2>4, <2>5, <2>6 DEF Inv
  <1>4. QED
    BY <1>1, <1>2, <1>3

-----------------------------------------------------------------------------
(* Failures.                                                               *)

\* The calls of a killed process, or all of them, are gone, and so are their locks.
LEMMA GoneStep ==
  ASSUME Inv, NEW S \in SUBSET Callers, Gone(S),
         \/ UNCHANGED diskVars
         \/ S = Callers /\ file' \in Versions /\ disk' = file' /\ synced' = TRUE
  PROVE  Inv'
  <1>0. TypeInv /\ LockInv /\ WriteInv
    BY DEF Inv
  <1>1. /\ pc' = [c \in Callers |-> IF c \in S THEN "idle" ELSE pc[c]]
        /\ call' = [c \in Callers |-> IF c \in S THEN Idle(NoFile) ELSE call[c]]
        /\ tmp' = [c \in Callers |-> IF c \in S THEN NoTmp ELSE tmp[c]]
        /\ flock' = IF flock \in S THEN Nobody ELSE flock
    BY DEF Gone
  <1>2. pc' \in [Callers -> Places]
    BY <1>0, <1>1 DEF TypeInv, Places
  <1>3. call' \in [Callers -> Calls] /\ tmp' \in [Callers -> [file : Versions, synced : BOOLEAN]]
    <2>1. Idle(NoFile) \in Calls /\ NoTmp \in [file : Versions, synced : BOOLEAN]
      BY Constants DEF Versions
    <2>2. QED
      BY <1>0, <1>1, <2>1 DEF TypeInv
  <1>4. TypeInv'
    BY <1>0, <1>2, <1>3 DEF TypeInv, diskVars
  <1>5. LockInv'
    BY <1>0, <1>1 DEF LockInv, Locked
  <1>6. WriteInv'
    <2> SUFFICES ASSUME NEW c \in Callers, c \notin S
                 PROVE  /\ pc[c] \in {"create", "sync", "rename"} =>
                              \/ call[c].kind = "write"
                              \/ call[c].kind = "cas" /\ file' = call[c].known
                        /\ pc[c] = "stat" => disk' = file'
      BY <1>0, <1>1 DEF WriteInv
    <2>1. QED
      BY <1>0 DEF WriteInv, diskVars
  <1>7. QED
    BY <1>4, <1>5, <1>6 DEF Inv

\* Power can only be lost with the file's contents on disk.
LEMMA FailureStep ==
  ASSUME Inv, PowerLoss \/ \E p \in Procs : Kill(p)
  PROVE  Inv'
  <1>1. CASE PowerLoss
    <2>1. file' \in Versions /\ disk' = file' /\ synced' = TRUE
      BY <1>1 DEF PowerLoss, Inv, TypeInv
    <2>2. QED
      BY <1>1, <2>1, GoneStep DEF PowerLoss
  <1>2. ASSUME NEW p \in Procs, Kill(p)
        PROVE  Inv'
    <2>1. {c \in Callers : ProcOf[c] = p} \in SUBSET Callers
      OBVIOUS
    <2>2. QED
      BY <1>2, <2>1, GoneStep DEF Kill
  <1>3. QED
    BY <1>1, <1>2

\* Every step preserves the invariant.
LEMMA InvStep == Inv /\ [Next]_vars => Inv'
  <1> SUFFICES ASSUME Inv, [Next]_vars
               PROVE  Inv'
    OBVIOUS
  <1>1. CASE UNCHANGED vars
    <2>1. UNCHANGED <<file, synced, disk, flock, pc, call, tmp>>
      BY <1>1 DEF vars, diskVars, lockVars
    <2>2. TypeInv' /\ LockInv'
      BY <2>1 DEF Inv, TypeInv, LockInv
    <2>3. WriteInv'
      BY <2>1 DEF Inv, WriteInv
    <2>4. QED
      BY <2>2, <2>3 DEF Inv
  <1>2. ASSUME NEW c \in Callers, Call(c) \/ Progress(c) \/ FlockFails(c)
        PROVE  Inv'
    <2>1. CASE Quiet(c)
      BY <2>1, QuietStep
    <2>2. CASE Cleanup(c) \/ Unlock(c) \/ Return(c)
      BY <2>2, EndStep
    <2>3. QED
      BY <1>2, <2>1, <2>2, CallStep, FlockStep, CreateStep, SyncStep, RenameStep, SyncDirStep
         DEF Progress, Quiet
  <1>3. CASE PowerLoss \/ \E p \in Procs : Kill(p)
    BY <1>3, FailureStep
  <1>4. QED
    BY <1>1, <1>2, <1>3 DEF Next

\* The file is unread at first, or left by an earlier program.
LEMMA InitInv == Init => Inv
  <1> SUFFICES ASSUME Init
               PROVE  Inv
    OBVIOUS
  <1>1. PICK known \in [Callers -> {file, NoFile}] : call = [c \in Callers |-> Idle(known[c])]
    BY DEF Init
  <1>2. file \in Versions /\ NoFile \in Versions
    BY DEF Init, Versions
  <1>3. call \in [Callers -> Calls] /\ \A c \in Callers : call[c].kind = "none"
    BY <1>1, <1>2, Constants
  <1>4. tmp \in [Callers -> [file : Versions, synced : BOOLEAN]]
    BY <1>2, Constants DEF Init
  <1>5. TypeInv
    BY <1>2, <1>3, <1>4 DEF Init, TypeInv, Places
  <1>6. LockInv /\ WriteInv
    BY DEF Init, LockInv, WriteInv, Locked
  <1>7. QED
    BY <1>5, <1>6 DEF Inv

LEMMA SafetyPart == Spec => Init /\ [][Next]_vars
  BY PTL DEF Spec

\* The types, mutual exclusion under the advisory lock, and what a write relies on,
\* in every state.
THEOREM InvCorrect == Spec => []Inv
  BY InitInv, InvStep, SafetyPart, PTL

-----------------------------------------------------------------------------
(* Refinement.                                                             *)

\* The phase of a call that is at a place.
PhaseAt(p) ==
    CASE p = "idle" -> "idle"
      [] p \in {"syncdir", "stat"} -> "committed"
      [] p \in {"cleanup", "unlock", "release", "returned"} -> "done"
      [] OTHER -> "pending"

\* What the phases are where the calls' steps begin and end.
LEMMA Phases ==
  /\ PhaseAt("idle") = "idle"
  /\ \A p \in {"mutex", "open", "poll", "locked", "create", "sync", "rename"} :
         PhaseAt(p) = "pending"
  /\ \A p \in {"syncdir", "stat"} : PhaseAt(p) = "committed"
  /\ \A p \in {"cleanup", "unlock", "release", "returned"} : PhaseAt(p) = "done"
  BY DEF PhaseAt

\* A step of a call between two places is a step between their phases.
LEMMA PhaseMoves ==
  ASSUME TypeInv, NEW c \in Callers, NEW from, NEW to, Step(c, from, to)
  PROVE  /\ Abstract!Step(c, PhaseAt(from), PhaseAt(to))
         /\ PhaseAt(from) = PhaseAt(to) =>
               [x \in Callers |-> Phase(x)]' = [x \in Callers |-> Phase(x)]
  <1> DEFINE phase == [x \in Callers |-> Phase(x)]
  <1>1. \A x \in Callers : Phase(x) = PhaseAt(pc[x]) /\ Phase(x)' = PhaseAt(pc'[x])
    BY DEF Phase, PhaseAt
  <1>2. pc[c] = from /\ pc'[c] = to /\ \A x \in Callers \ {c} : pc'[x] = pc[x]
    BY DEF Step, TypeInv
  <1>3. phase' = [x \in Callers |-> PhaseAt(pc'[x])] /\ phase = [x \in Callers |-> PhaseAt(pc[x])]
    BY <1>1
  <1>4. phase' = [phase EXCEPT ![c] = PhaseAt(to)] /\ phase[c] = PhaseAt(from)
    BY <1>2, <1>3
  <1>5. PhaseAt(from) = PhaseAt(to) => phase' = phase
    BY <1>2, <1>3
  <1>6. QED
    BY <1>4, <1>5 DEF Abstract!Step

\* Errors are errors of the specification.
LEMMA ErrorRefines ==
  ASSUME TypeInv, NEW c \in Callers, NEW from, NEW to, Step(c, from, to),
         PhaseAt(from) \in {"pending", "committed"}, PhaseAt(to) = "done",
         Result(c, "error", NoFile), UNCHANGED <<file, disk>>
  PROVE  Abstract!Fail(c)
  <1>1. \/ Abstract!Step(c, "pending", "done")
        \/ Abstract!Step(c, "committed", "done")
    BY PhaseMoves
  <1>2. Abstract!Result(c, "error", Abstract!NoFile)
    BY DEF Result, Abstract!Result, NoFile, Abstract!NoFile
  <1>3. QED
    BY <1>1, <1>2 DEF Abstract!Fail

\* A step between places of one phase that keeps the file and the call is none of
\* the specification.
LEMMA SilentRefines ==
  ASSUME TypeInv, NEW c \in Callers, NEW from, NEW to, Step(c, from, to),
         PhaseAt(from) = PhaseAt(to), UNCHANGED <<file, disk, call>>
  PROVE  UNCHANGED Abstract!vars
  BY PhaseMoves DEF Abstract!vars

\* Taking the locks and giving them back, and a call that begins.
LEMMA LockRefines ==
  ASSUME TypeInv, NEW c \in Callers,
         \/ LockMutex(c) \/ NewLockFile(c) \/ Flock(c) \/ FlockFails(c)
         \/ Cleanup(c) \/ Unlock(c) \/ Release(c)
  PROVE  [Abstract!Next]_Abstract!vars
  <1> USE Phases DEF diskVars, lockVars
  <1>1. CASE LockMutex(c)
    BY <1>1, SilentRefines DEF LockMutex
  <1>2. CASE NewLockFile(c)
    <2>1. CASE Step(c, "open", "poll") /\ UNCHANGED call
      BY <1>2, <2>1, SilentRefines DEF NewLockFile
    <2>2. CASE Step(c, "open", "release") /\ Result(c, "error", NoFile)
      BY <1>2, <2>2, ErrorRefines DEF NewLockFile, Abstract!Next
    <2>3. QED
      BY <1>2, <2>1, <2>2 DEF NewLockFile, Fails
  <1>3. CASE Flock(c)
    BY <1>3, SilentRefines DEF Flock
  <1>4. CASE FlockFails(c)
    BY <1>4, ErrorRefines DEF FlockFails, Fails, Abstract!Next
  <1>5. CASE Cleanup(c)
    BY <1>5, SilentRefines DEF Cleanup
  <1>6. CASE Unlock(c)
    BY <1>6, SilentRefines DEF Unlock
  <1>7. CASE Release(c)
    BY <1>7, SilentRefines DEF Release
  <1>8. QED
    BY <1>1, <1>2, <1>3, <1>4, <1>5, <1>6, <1>7

\* A call takes its arguments when it begins and gives its result when it returns.
LEMMA CallRefines ==
  ASSUME TypeInv, NEW c \in Callers, Call(c) \/ Return(c)
  PROVE  Abstract!Next
  <1>1. CASE Call(c)
    <2>1. Abstract!Step(c, "idle", "pending")
      BY <1>1, Phases, PhaseMoves DEF Call
    <2>2. \E kind \in {"read", "write", "cas"}, d \in Data \cup {"none"} :
              call' = [call EXCEPT ![c].kind = kind, ![c].data = d]
      BY <1>1 DEF Call
    <2>3. Abstract!Call(c)
      BY <1>1, <2>1, <2>2 DEF Call, Abstract!Call, diskVars
    <2>4. QED
      BY <2>3 DEF Abstract!Next
  <1>2. CASE Return(c)
    <2>1. Abstract!Step(c, "done", "idle")
      BY <1>2, Phases, PhaseMoves DEF Return
    <2>2. Abstract!Return(c)
      BY <1>2, <2>1 DEF Return, Abstract!Return, Idle, Abstract!Idle, NoFile, Abstract!NoFile,
                        diskVars
    <2>3. QED
      BY <2>2 DEF Abstract!Next
  <1>3. QED
    BY <1>1, <1>2

\* Reading and comparing under the lock.
LEMMA CompareRefines ==
  ASSUME TypeInv, NEW c \in Callers, Read(c) \/ Begin(c) \/ Conflict(c)
  PROVE  [Abstract!Next]_Abstract!vars
  <1> USE Phases DEF diskVars
  <1>1. CASE Read(c)
    <2>1. CASE Result(c, "error", NoFile)
      BY <1>1, <2>1, ErrorRefines DEF Read, Abstract!Next
    <2>2. CASE Result(c, IF file = NoFile THEN "notFound" ELSE "ok", file)
      <3>1. Abstract!Step(c, "pending", "done")
        BY <1>1, PhaseMoves DEF Read
      <3>2. Abstract!Read(c)
        BY <1>1, <2>2, <3>1
           DEF Read, Abstract!Read, Result, Abstract!Result, NoFile, Abstract!NoFile
      <3>3. QED
        BY <3>2 DEF Abstract!Next
    <2>3. QED
      BY <1>1, <2>1, <2>2 DEF Read
  <1>2. CASE Begin(c)
    BY <1>2, SilentRefines DEF Begin
  <1>3. CASE Conflict(c)
    <2>1. CASE Result(c, "error", NoFile)
      BY <1>3, <2>1, ErrorRefines DEF Conflict, Abstract!Next
    <2>2. CASE file # call[c].known /\ Result(c, "conflict", NoFile)
      <3>1. Abstract!Step(c, "pending", "done")
        BY <1>3, PhaseMoves DEF Conflict
      <3>2. Abstract!Refuse(c)
        BY <1>3, <2>2, <3>1
           DEF Conflict, Abstract!Refuse, Result, Abstract!Result, NoFile, Abstract!NoFile
      <3>3. QED
        BY <3>2 DEF Abstract!Next
    <2>3. QED
      BY <1>3, <2>1, <2>2 DEF Conflict
  <1>4. QED
    BY <1>1, <1>2, <1>3

\* The rename is the step at which a write takes effect; the sync of the directory
\* makes it safe, and only then is it acknowledged.
LEMMA WriteRefines ==
  ASSUME Inv, NEW c \in Callers,
         Create(c) \/ Sync(c) \/ Rename(c) \/ SyncDir(c) \/ StatMtime(c)
  PROVE  [Abstract!Next]_Abstract!vars
  <1> USE Phases DEF diskVars
  <1>0. TypeInv /\ WriteInv
    BY DEF Inv
  <1>1. CASE Create(c)
    <2>1. CASE Step(c, "create", "sync") /\ UNCHANGED call
      BY <1>0, <1>1, <2>1, SilentRefines DEF Create
    <2>2. CASE Step(c, "create", "unlock") /\ Result(c, "error", NoFile)
      BY <1>0, <1>1, <2>2, ErrorRefines DEF Create, Abstract!Next
    <2>3. QED
      BY <1>1, <2>1, <2>2 DEF Create, Fails
  <1>2. CASE Sync(c)
    <2>1. CASE Step(c, "sync", "rename") /\ UNCHANGED call
      BY <1>0, <1>2, <2>1, SilentRefines DEF Sync
    <2>2. CASE Step(c, "sync", "cleanup") /\ Result(c, "error", NoFile)
      BY <1>0, <1>2, <2>2, ErrorRefines DEF Sync, Abstract!Next
    <2>3. QED
      BY <1>2, <2>1, <2>2 DEF Sync, Fails
  <1>3. CASE Rename(c)
    <2>1. CASE Step(c, "rename", "syncdir") /\ file' = tmp[c].file /\ UNCHANGED call
      <3>1. pc[c] = "rename"
        BY <2>1 DEF Step
      <3>2. /\ call[c].kind = "write" \/ (call[c].kind = "cas" /\ file = call[c].known)
            /\ \E m \in Mtimes : file' = [data |-> call[c].data, mtime |-> m]
        BY <1>0, <2>1, <3>1 DEF WriteInv
      <3>3. Abstract!Step(c, "pending", "committed")
        BY <1>0, <2>1, PhaseMoves
      <3>4. Abstract!Commit(c)
        BY <1>3, <2>1, <3>2, <3>3 DEF Rename, Abstract!Commit
      <3>5. QED
        BY <3>4 DEF Abstract!Next
    <2>2. CASE Step(c, "rename", "cleanup") /\ Result(c, "error", NoFile) /\ UNCHANGED file
      BY <1>0, <1>3, <2>2, ErrorRefines DEF Rename, Abstract!Next
    <2>3. QED
      BY <1>3, <2>1, <2>2 DEF Rename, Fails
  <1>4. CASE SyncDir(c)
    <2>1. CASE Step(c, "syncdir", "stat") /\ disk' = file /\ UNCHANGED call
      <3>1. [x \in Callers |-> Phase(x)]' = [x \in Callers |-> Phase(x)]
        BY <1>0, <2>1, PhaseMoves
      <3>2. Abstract!Flush
        BY <1>4, <2>1, <3>1 DEF SyncDir, Abstract!Flush
      <3>3. QED
        BY <3>2 DEF Abstract!Next
    <2>2. CASE Step(c, "syncdir", "cleanup") /\ Result(c, "error", NoFile) /\ UNCHANGED disk
      BY <1>0, <1>4, <2>2, ErrorRefines DEF SyncDir, Abstract!Next
    <2>3. QED
      BY <1>4, <2>1, <2>2 DEF SyncDir, Fails
  <1>5. CASE StatMtime(c)
    <2>1. CASE Result(c, "ok", file)
      <3>1. pc[c] = "stat"
        BY <1>5 DEF StatMtime, Step
      <3>2. disk = file
        BY <1>0, <3>1 DEF WriteInv
      <3>3. Abstract!Step(c, "committed", "done")
        BY <1>0, <1>5, PhaseMoves DEF StatMtime
      <3>4. Abstract!Acknowledge(c)
        BY <1>5, <2>1, <3>2, <3>3 DEF StatMtime, Abstract!Acknowledge, Result, Abstract!Result
      <3>5. QED
        BY <3>4 DEF Abstract!Next
    <2>2. CASE Result(c, "error", NoFile)
      BY <1>0, <1>5, <2>2, ErrorRefines DEF StatMtime, Abstract!Next
    <2>3. QED
      BY <1>5, <2>1, <2>2 DEF StatMtime
  <1>6. QED
    BY <1>1, <1>2, <1>3, <1>4, <1>5

\* A process that dies takes its calls with it; the loss of power takes all, and
\* brings the file back that the directory on disk names, or keeps the new one.
LEMMA FailureRefines ==
  ASSUME Inv, PowerLoss \/ \E p \in Procs : Kill(p)
  PROVE  Abstract!Next
  <1>1. ASSUME NEW S \in SUBSET Callers, Gone(S)
        PROVE  Abstract!Gone(S)
    <2>1. \A x \in Callers : Phase(x)' = IF x \in S THEN "idle" ELSE Phase(x)
      BY <1>1 DEF Gone, Phase
    <2>2. [x \in Callers |-> Phase(x)]' = [x \in Callers |-> IF x \in S THEN "idle"
                                                             ELSE [y \in Callers |-> Phase(y)][x]]
      BY <2>1
    <2>3. QED
      BY <1>1, <2>2 DEF Gone, Abstract!Gone, Idle, Abstract!Idle, NoFile, Abstract!NoFile
  <1>2. CASE PowerLoss
    <2>1. Abstract!Gone(Callers)
      BY <1>1, <1>2 DEF PowerLoss
    <2>2. Abstract!PowerLoss
      BY <1>2, <2>1 DEF PowerLoss, Abstract!PowerLoss, Inv, TypeInv
    <2>3. QED
      BY <2>2 DEF Abstract!Next
  <1>3. ASSUME NEW p \in Procs, Kill(p)
        PROVE  Abstract!Next
    <2>1. Abstract!Gone({c \in Callers : ProcOf[c] = p})
      BY <1>1, <1>3 DEF Kill
    <2>2. Abstract!Die
      BY <1>3, <2>1 DEF Kill, Abstract!Die, diskVars
    <2>3. QED
      BY <2>2 DEF Abstract!Next
  <1>4. QED
    BY <1>2, <1>3

\* The locks and the order of the file operations make of every call the one step
\* that the AtomicFS interface promises, whatever is killed and whenever the power
\* fails.
THEOREM RefinementCorrect == Spec => ImplementsCasFile
  <1>1. Init => Abstract!Init
    <2> SUFFICES ASSUME Init
                 PROVE  Abstract!Init
      OBVIOUS
    <2>1. [c \in Callers |-> Phase(c)] = [c \in Callers |-> "idle"]
      BY DEF Init, Phase
    <2>2. QED
      BY <2>1 DEF Init, Abstract!Init, Idle, Abstract!Idle, NoFile, Abstract!NoFile,
                  Contents, Abstract!Contents
  <1>2. Inv /\ [Next]_vars => [Abstract!Next]_Abstract!vars
    <2> SUFFICES ASSUME Inv, [Next]_vars
                 PROVE  [Abstract!Next]_Abstract!vars
      OBVIOUS
    <2>0. TypeInv
      BY DEF Inv
    <2>1. CASE UNCHANGED vars
      BY <2>1 DEF vars, diskVars, Abstract!vars, Phase
    <2>2. ASSUME NEW c \in Callers, Call(c) \/ Progress(c) \/ FlockFails(c)
          PROVE  [Abstract!Next]_Abstract!vars
      BY <2>0, <2>2, LockRefines, CallRefines, CompareRefines, WriteRefines DEF Progress
    <2>3. CASE PowerLoss \/ \E p \in Procs : Kill(p)
      BY <2>3, FailureRefines
    <2>4. QED
      BY <2>1, <2>2, <2>3 DEF Next
  <1>3. QED
    BY <1>1, <1>2, InvCorrect, SafetyPart, PTL DEF ImplementsCasFile, Abstract!Spec
=============================================================================
