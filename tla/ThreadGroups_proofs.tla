------------------------- MODULE ThreadGroups_proofs --------------------------
(***************************************************************************)
(* Proofs about ThreadGroups for any bound on ids and any legacy           *)
(* directories, with crashes and half-done file writes.                    *)
(***************************************************************************)
EXTENDS ThreadGroups, FiniteSetTheorems, TLAPS

\* Where threads are in memory, and where one of them is being moved.
Up     == {"menu", "clearing", "checking", "saved", "removing", "undoing", "removed"}
Moving == {"clearing", "checking", "saved", "removing", "undoing", "removed"}
Copied == {"saved", "removing", "undoing"}

Stored(g)   == {t \in Ids : OnDisk(g, t)}
Dirs(g)     == {t \in Ids : disk[g][Dir(t)] # Absent}

\* A directory of a thread holds it, or was cut short.
Entry(g, t) == disk[g][Dir(t)] = t \/ (disk[g][Dir(t)] = NoThread /\ t \in cut)
Clean(g)    == \A d \in DirNames : disk[g][d] # Absent => \E t \in Ids : d = Dir(t) /\ Entry(g, t)

\* The groups that were loaded.
LoadedGroups == IF pc \in Up \cup {"reconciling", "panic"} THEN Groups
                ELSE IF pc \in {"migrating", "scanning"} /\ loadAt = 2 THEN {Main}
                ELSE {}

\* A group that was loaded holds nothing but threads, each in its own directory,
\* and its map is what its directory holds, but for the thread that is being moved.
LoadInv ==
    \A g \in LoadedGroups :
        /\ Clean(g)
        /\ pc \notin Copied \cup {"removed"} => groups[g] = Dirs(g)
        /\ pc \notin Up => Dirs(g) = Stored(g)

\* The thread that is being moved is idle and is in one of the two groups, or in
\* both between the copy and the removal.
MoveInv ==
    /\ pc \notin Up => running = {}
    /\ pc \in Moving =>
          /\ move[1] \in Ids /\ move[2] # move[3] /\ move[1] \in groups[move[2]]
          /\ pc \notin {"clearing", "checking"} =>
                /\ move[1] \notin running
                /\ OnDisk(move[3], move[1])
                /\ Dirs(move[3]) = groups[move[3]] \cup {move[1]}
                /\ Dirs(move[2]) = IF pc = "removed" THEN groups[move[2]] \ {move[1]}
                                                     ELSE groups[move[2]]

\* No thread is in two maps, and every new id is new.
IdInv ==
    pc \in Up =>
        /\ groups[Main] \cap groups[Archive] = {}
        /\ \A t \in groups[Main] \cup groups[Archive] : t <= threadNum

\* Every thread of the user is on disk, or its thread.json was destroyed.
Held(t)    == \E g \in Groups, d \in DirNames : disk[g][d] = t
Garbled(t) == \E g \in Groups : disk[g][Dir(t)] = NoThread
Safe(t)    == Held(t) \/ (t \in cut /\ Garbled(t))
HeldInv    == \A t \in created : Safe(t)

\* No thread is on disk twice, but the one that is being moved and those whose
\* move stopped half way.
Excused   == halfMoved \cup Halfway
Once(t)   == \A g, h \in Groups, d, e \in DirNames :
                 disk[g][d] = t /\ disk[h][e] = t => g = h /\ d = e
UniqueInv == /\ \A t \in Ids \ Excused : Once(t)
             /\ PanicNeedsHalfMove

Inv == TypeOK /\ LoadInv /\ MoveInv /\ IdInv /\ HeldInv /\ UniqueInv

-----------------------------------------------------------------------------
(* Directories.                                                            *)

Entries == Ids \cup {NoId, Absent, NoThread}
Disks   == [Groups -> [DirNames -> Entries]]

\* The kinds of names, and of what a directory holds.
LEMMA Names ==
  /\ \A id \in Ids : /\ id \in Nat \ {0} /\ id # NoId /\ id # Absent /\ id # NoThread
                     /\ Dir(id) \in DirNames /\ Dir(id) \notin LegacyDirs /\ Dir(id) # ScratchDir
  /\ \A id, jd \in Ids : Dir(id) = Dir(jd) => id = jd
  /\ LegacyDirs \subseteq DirNames /\ ScratchDir \in DirNames /\ ScratchDir \notin LegacyDirs
  /\ Main # Archive /\ Groups = {Main, Archive}
  /\ NoId # Absent /\ NoId # NoThread /\ Absent # NoThread
  BY GroupAssumption
     DEF Ids, NoId, Absent, NoThread, Dir, LegacyDirs, ScratchDir, DirNames, Main, Archive, Groups

\* The groups are loaded one after the other.
LEMMA Order ==
  /\ Len(LoadOrder) = 2
  /\ loadAt = 1 => Loading = Main
  /\ loadAt = 2 => Loading = Archive
  BY DEF LoadOrder, Loading

\* The entry of one thread is written.
LEMMA PutWrites ==
  ASSUME disk \in Disks, NEW g \in Groups, NEW t \in Ids, NEW v \in {t, Absent, NoThread},
         disk' = Put(g, t, v)
  PROVE  /\ disk' \in Disks
         /\ \A h \in Groups, d \in DirNames :
                disk'[h][d] = IF h = g /\ d = Dir(t) THEN v ELSE disk[h][d]
  <1>1. v \in Entries /\ Dir(t) \in DirNames
    BY Names DEF Entries
  <1>2. QED
    BY <1>1 DEF Disks, Put

\* What that does to groups that hold nothing but threads.
LEMMA PutDirs ==
  ASSUME disk \in Disks, NEW g \in Groups, NEW t \in Ids, NEW v \in {t, Absent, NoThread},
         disk' = Put(g, t, v), cut \subseteq cut', \A h \in Groups : Clean(h)
  PROVE  /\ \A h \in Groups \ {g} : Dirs(h)' = Dirs(h)
         /\ Dirs(g)' = IF v = Absent THEN Dirs(g) \ {t} ELSE Dirs(g) \cup {t}
         /\ (v = NoThread => t \in cut') => \A h \in Groups : Clean(h)'
         /\ \A h \in Groups, u \in Ids : <<h, u>> # <<g, t>> => (OnDisk(h, u)' <=> OnDisk(h, u))
  <1>1. \A h \in Groups, d \in DirNames :
            disk'[h][d] = IF h = g /\ d = Dir(t) THEN v ELSE disk[h][d]
    BY PutWrites
  <1>2. \A h \in Groups, u \in Ids :
            disk'[h][Dir(u)] = IF h = g /\ u = t THEN v ELSE disk[h][Dir(u)]
    BY <1>1, Names
  <1>3. \A h \in Groups \ {g} : Dirs(h)' = Dirs(h)
    BY <1>2 DEF Dirs
  <1>4. Dirs(g)' = IF v = Absent THEN Dirs(g) \ {t} ELSE Dirs(g) \cup {t}
    <2>1. \A u \in Ids : disk'[g][Dir(u)] = IF u = t THEN v ELSE disk[g][Dir(u)]
      BY <1>2
    <2>2. v # Absent => v \in {t, NoThread} /\ t # Absent
      BY Names
    <2>3. QED
      BY <2>1, <2>2, Names DEF Dirs
  <1>5. ASSUME v = NoThread => t \in cut', NEW h \in Groups, NEW d \in DirNames,
               disk'[h][d] # Absent
        PROVE  \E u \in Ids : d = Dir(u) /\ Entry(h, u)'
    <2>1. CASE h = g /\ d = Dir(t)
      BY <1>1, <1>5, <2>1 DEF Entry
    <2>2. CASE ~(h = g /\ d = Dir(t))
      <3>1. disk'[h][d] = disk[h][d]
        BY <1>1, <2>2
      <3>2. PICK u \in Ids : d = Dir(u) /\ Entry(h, u)
        BY <1>5, <3>1 DEF Clean
      <3>3. QED
        BY <3>1, <3>2 DEF Entry
    <2>3. QED
      BY <2>1, <2>2
  <1>6. \A h \in Groups, u \in Ids : <<h, u>> # <<g, t>> => (OnDisk(h, u)' <=> OnDisk(h, u))
    BY <1>2 DEF OnDisk
  <1>7. QED
    BY <1>3, <1>4, <1>5, <1>6 DEF Clean

\* What a step does that writes no directory.
LEMMA SameDirs ==
  ASSUME UNCHANGED disk, cut \subseteq cut', NEW g \in Groups
  PROVE  Dirs(g)' = Dirs(g) /\ Stored(g)' = Stored(g) /\ (Clean(g) => Clean(g)')
  BY DEF Dirs, Stored, OnDisk, Clean, Entry

\* A migration moves one directory of the group to a name that is free, or fails,
\* and may leave a scratch directory.
LEMMA MigrateWrites ==
  ASSUME TypeOK, NEW m \in LegacyDirs, MigrateDir(m)
  PROVE  LET g == Loading
         IN  /\ g \in Groups /\ disk' \in Disks /\ disk[g][m] \in Ids \cup {NoId}
             /\ \A h \in Groups \ {g} : disk'[h] = disk[h]
             /\ \/ /\ pc' = pc
                   /\ \E id \in Ids :
                        /\ disk[g][m] \in {id, NoId}
                        /\ disk[g][Dir(id)] = Absent
                        /\ disk'[g][Dir(id)] = disk[g][m] /\ disk'[g][m] = Absent
                        /\ \A d \in DirNames \ {Dir(id), m, ScratchDir} : disk'[g][d] = disk[g][d]
                \/ /\ pc' = "failed"
                   /\ \A d \in DirNames \ {ScratchDir} : disk'[g][d] = disk[g][d]
             /\ disk'[g][ScratchDir] = IF disk[g][m] = NoId /\ disk[g][ScratchDir] = Absent
                                       THEN NoThread ELSE disk[g][ScratchDir]
             /\ threadNum' \in 0 .. MaxId
  <1> DEFINE g == Loading
             id == IF disk[g][m] = NoId THEN threadNum + 1 ELSE disk[g][m]
             saved == IF disk[g][m] = NoId THEN SaveNamelessThread(g) ELSE disk[g]
  <1>1. g \in Groups /\ disk \in Disks /\ threadNum \in 0 .. MaxId
    BY Order, Names DEF TypeOK, Disks, Entries
  <1>2. id \in Ids /\ m \in DirNames /\ m # ScratchDir /\ disk[g][m] # Absent
    BY Names DEF MigrateDir
  <1>3. /\ saved \in [DirNames -> Entries]
        /\ \A d \in DirNames \ {ScratchDir} : saved[d] = disk[g][d]
        /\ saved[ScratchDir] = IF disk[g][m] = NoId /\ disk[g][ScratchDir] = Absent
                               THEN NoThread ELSE disk[g][ScratchDir]
    BY <1>1, Names DEF SaveNamelessThread, Disks, Entries
  <1>4. disk[g][m] \in {id, NoId}
    OBVIOUS
  <1>5. threadNum' \in 0 .. MaxId
    BY <1>1, <1>2, GroupAssumption DEF MigrateDir, Ids
  <1>6. CASE /\ saved[Dir(id)] = Absent
             /\ disk' = [disk EXCEPT ![g] = [saved EXCEPT ![Dir(id)] = saved[m], ![m] = Absent]]
             /\ UNCHANGED pc
    <2>1. disk' = [disk EXCEPT ![g] = [saved EXCEPT ![Dir(id)] = saved[m], ![m] = Absent]]
      BY <1>6
    <2>2. pc' = pc
      BY <1>6
    <2>3. Dir(id) \in DirNames /\ Dir(id) # m /\ Dir(id) # ScratchDir
      BY <1>2, Names
    <2>4. [saved EXCEPT ![Dir(id)] = saved[m], ![m] = Absent] \in [DirNames -> Entries]
      BY <1>2, <1>3, <2>3 DEF Entries
    <2>5. disk' \in Disks /\ disk'[g] = [saved EXCEPT ![Dir(id)] = saved[m], ![m] = Absent]
      BY <1>1, <2>1, <2>4 DEF Disks
    <2>6. /\ disk'[g][Dir(id)] = disk[g][m] /\ disk'[g][m] = Absent
          /\ \A d \in DirNames \ {Dir(id), m} : disk'[g][d] = saved[d]
      BY <1>2, <1>3, <2>3, <2>5
    <2>7. disk[g][Dir(id)] = Absent
      BY <1>3, <1>6, <2>3
    <2>8. \A h \in Groups \ {g} : disk'[h] = disk[h]
      BY <1>1, <2>1 DEF Disks
    <2>9. /\ \A d \in DirNames \ {Dir(id), m, ScratchDir} : disk'[g][d] = disk[g][d]
          /\ disk'[g][ScratchDir] = saved[ScratchDir]
      BY <1>2, <1>3, <2>3, <2>6, Names
    <2>10. disk[g][m] \in Ids \cup {NoId}
      BY <1>2, <1>4
    <2>11. QED
      BY <1>1, <1>2, <1>3, <1>4, <1>5, <2>2, <2>5, <2>6, <2>7, <2>8, <2>9, <2>10
  <1>7. CASE disk' = [disk EXCEPT ![g] = saved] /\ pc' = "failed"
    <2>1. disk' = [disk EXCEPT ![g] = saved] /\ pc' = "failed"
      BY <1>7
    <2>2. disk' \in Disks /\ disk'[g] = saved /\ \A h \in Groups \ {g} : disk'[h] = disk[h]
      BY <1>1, <1>3, <2>1 DEF Disks
    <2>3. QED
      BY <1>1, <1>2, <1>3, <1>4, <1>5, <2>1, <2>2
  <1>8. QED
    BY <1>6, <1>7 DEF MigrateDir

\* A directory that is no thread's stops the loading; it may leave a scratch
\* directory.
LEMMA ScanFailWrites ==
  ASSUME TypeOK, NEW f \in DirNames, ScanFail(f)
  PROVE  /\ Loading \in Groups /\ disk' \in Disks /\ threadNum' \in 0 .. MaxId
         /\ \A h \in Groups, d \in DirNames :
                disk'[h][d] = disk[h][d] \/ (d = ScratchDir /\ disk[h][d] = Absent)
  <1>1. Loading \in Groups /\ disk \in Disks /\ threadNum \in 0 .. MaxId
    BY Order, Names DEF TypeOK, Disks, Entries
  <1>2. CASE UNCHANGED <<threadNum, disk>>
    BY <1>1, <1>2
  <1>3. CASE /\ threadNum < MaxId /\ threadNum' = threadNum + 1
             /\ disk' = [disk EXCEPT ![Loading] = SaveNamelessThread(Loading)]
    <2>1. SaveNamelessThread(Loading) \in [DirNames -> Entries]
      BY <1>1, Names DEF SaveNamelessThread, Disks, Entries
    <2>2. \A d \in DirNames : \/ SaveNamelessThread(Loading)[d] = disk[Loading][d]
                              \/ d = ScratchDir /\ disk[Loading][d] = Absent
      BY <1>1, Names DEF SaveNamelessThread, Disks
    <2>3. QED
      BY <1>1, <1>3, <2>1, <2>2, GroupAssumption DEF Disks
  <1>4. QED
    BY <1>2, <1>3 DEF ScanFail

\* The thread being moved and its groups.
LEMMA MoveParts ==
  ASSUME TypeOK
  PROVE  /\ move[1] \in Ids \cup {0} /\ move[2] \in Groups /\ move[3] \in Groups
         /\ NoMove \in (Ids \cup {0}) \X Groups \X Groups
         /\ disk \in Disks
  BY Names DEF TypeOK, NoMove, Disks, Entries

-----------------------------------------------------------------------------
(* Types.                                                                  *)

\* Quitting forgets what is only in memory.
LEMMA QuitType ==
  ASSUME Quit
  PROVE  /\ pc' \in Steps /\ running' = {} /\ groups' \in [Groups -> SUBSET Ids]
         /\ move' \in (Ids \cup {0}) \X Groups \X Groups /\ consent' \in BOOLEAN
  BY Names DEF Quit, Steps, NoMove

\* Loading.
LEMMA LoadType ==
  ASSUME TypeOK, \/ Load \/ MigrateDone \/ ScanOk \/ LoadFail \/ Reconcile
                 \/ \E d \in DirNames : ScanFail(d)
                 \/ \E d \in LegacyDirs : MigrateDir(d)
  PROVE  TypeOK'
  <1> USE DEF history
  <1>0. Len(LoadOrder) = 2 /\ Loading \in Groups /\ loadAt \in 1 .. 2 /\ disk \in Disks
    BY Order, Names, MoveParts DEF TypeOK
  <1>1. CASE Load \/ MigrateDone
    BY <1>0, <1>1 DEF Load, MigrateDone, TypeOK, Steps
  <1>2. CASE ScanOk
    <2>1. groups' \in [Groups -> SUBSET Ids]
      BY <1>0, <1>2 DEF ScanOk, TypeOK
    <2>2. pc' \in Steps /\ loadAt' \in 1 .. 2
      BY <1>0, <1>2 DEF ScanOk, Steps, TypeOK
    <2>3. QED
      BY <1>0, <1>2, <2>1, <2>2 DEF ScanOk, TypeOK
  <1>3. CASE Reconcile
    <2>1. threadNum' \in 0 .. MaxId
      BY <1>3, Names, GroupAssumption DEF Reconcile, TypeOK, Ids
    <2>2. QED
      BY <1>3, <2>1 DEF Reconcile, TypeOK, Steps
  <1>4. ASSUME NEW d \in DirNames, ScanFail(d)
        PROVE  TypeOK'
    <2>1. disk' \in Disks /\ threadNum' \in 0 .. MaxId
      BY <1>4, ScanFailWrites
    <2>2. groups' \in [Groups -> SUBSET Ids] /\ pc' \in Steps
      BY <1>0, <1>4 DEF ScanFail, TypeOK, Steps
    <2>3. QED
      BY <1>4, <2>1, <2>2 DEF ScanFail, TypeOK, Disks, Entries
  <1>5. ASSUME NEW d \in LegacyDirs, MigrateDir(d)
        PROVE  TypeOK'
    <2>1. disk' \in Disks /\ threadNum' \in 0 .. MaxId /\ pc' \in {pc, "failed"}
      BY <1>5, MigrateWrites
    <2>2. UNCHANGED <<groups, running, sandbox, loadAt, move, consent, created, history>>
      BY <1>5 DEF MigrateDir
    <2>3. QED
      BY <2>1, <2>2 DEF TypeOK, Steps, Disks, Entries
  <1>6. CASE LoadFail
    <2>1. groups' \in [Groups -> SUBSET Ids]
      BY <1>0, <1>6 DEF LoadFail, TypeOK
    <2>2. QED
      BY <1>6, <2>1 DEF LoadFail, TypeOK, Steps
  <1>7. QED
    BY <1>1, <1>2, <1>3, <1>4, <1>5, <1>6

\* The menu, the runs and the sandboxes.
LEMMA MenuType ==
  ASSUME TypeOK, \/ \E g \in Groups : NewThread(g) \/ NewThreadFail(g)
                 \/ \E t \in Ids : StartRun(t) \/ AgentWork(t) \/ SetupSandbox(t)
                 \/ \E t \in Ids, g \in Groups : EndRun(t, g) \/ SaveIdle(t, g)
                 \/ \E t \in Ids, src, dst \in Groups : ConfirmMove(t, src, dst)
                 \/ ClearSandbox
  PROVE  TypeOK'
  <1>0. disk \in Disks
    BY MoveParts
  <1>1. ASSUME NEW g \in Groups, NewThread(g)
        PROVE  TypeOK'
    <2>1. threadNum + 1 \in Ids /\ disk' = Put(g, threadNum + 1, threadNum + 1)
      BY <1>1 DEF NewThread, Saved
    <2>2. disk' \in Disks
      BY <1>0, <2>1, PutWrites
    <2>3. groups' \in [Groups -> SUBSET Ids] /\ created' \subseteq Ids
      BY <1>1, <2>1 DEF NewThread, TypeOK
    <2>4. threadNum' \in 0 .. MaxId
      BY <1>1, <2>1, GroupAssumption DEF NewThread, Ids
    <2>5. QED
      BY <1>1, <2>2, <2>3, <2>4 DEF NewThread, TypeOK, Disks, Entries, history
  <1>2. ASSUME NEW g \in Groups, NewThreadFail(g)
        PROVE  TypeOK'
    <2>1. threadNum + 1 \in Ids /\ threadNum' = threadNum + 1 /\ Quit
      BY <1>2 DEF NewThreadFail
    <2>2. disk' \in Disks
      BY <1>0, <1>2, <2>1, PutWrites DEF NewThreadFail, Saved, Cut
    <2>3. threadNum' \in 0 .. MaxId
      BY <2>1, GroupAssumption DEF Ids
    <2>4. QED
      BY <1>2, <2>1, <2>2, <2>3, QuitType DEF NewThreadFail, TypeOK, Disks, Entries, history
  <1>3. ASSUME NEW t \in Ids, StartRun(t) \/ AgentWork(t) \/ SetupSandbox(t)
        PROVE  TypeOK'
    BY <1>3 DEF StartRun, AgentWork, SetupSandbox, TypeOK, history
  <1>4. ASSUME NEW t \in Ids, NEW g \in Groups, EndRun(t, g) \/ SaveIdle(t, g)
        PROVE  TypeOK'
    <2>1. SaveOwn(g, t) /\ UNCHANGED <<threadNum, sandbox, loadAt, created>>
      BY <1>4 DEF EndRun, SaveIdle
    <2>2. disk' \in Disks
      BY <1>0, <2>1, PutWrites DEF SaveOwn, Saved, Cut
    <2>3. cut' \subseteq Ids /\ halfMoved' = halfMoved
      BY <2>1 DEF SaveOwn, TypeOK
    <2>4. CASE EndRun(t, g)
      BY <2>1, <2>2, <2>3, <2>4 DEF EndRun, TypeOK, Disks, Entries
    <2>5. CASE UNCHANGED <<groups, running, pc, move, consent>>
      BY <2>1, <2>2, <2>3, <2>5 DEF TypeOK, Disks, Entries
    <2>6. CASE Quit
      BY <2>1, <2>2, <2>3, <2>6, QuitType DEF TypeOK, Disks, Entries
    <2>7. QED
      BY <1>4, <2>4, <2>5, <2>6 DEF SaveIdle
  <1>5. ASSUME NEW t \in Ids, NEW src \in Groups, NEW dst \in Groups, ConfirmMove(t, src, dst)
        PROVE  TypeOK'
    <2>1. consent' \in BOOLEAN
      BY <1>5 DEF ConfirmMove
    <2>2. move' \in (Ids \cup {0}) \X Groups \X Groups /\ pc' \in Steps
      BY <1>5 DEF ConfirmMove, Steps
    <2>3. QED
      BY <1>5, <2>1, <2>2 DEF ConfirmMove, TypeOK, history
  <1>6. CASE ClearSandbox
    BY <1>6 DEF ClearSandbox, TypeOK, Steps, history
  <1>7. QED
    BY <1>1, <1>2, <1>3, <1>4, <1>5, <1>6

\* Moves, and the end of the program.
LEMMA MoveType ==
  ASSUME TypeOK, MoveInv, \/ MoveSave \/ MoveScratch \/ MoveRemove \/ MoveUndo \/ MoveCommit
                          \/ Exit \/ (\E t \in Ids, g \in Groups : TornSave(t, g)) \/ TornRemove
  PROVE  TypeOK'
  <1>0. /\ disk \in Disks /\ move[2] \in Groups /\ move[3] \in Groups
        /\ pc \in Moving => move[1] \in Ids
        /\ NoMove \in (Ids \cup {0}) \X Groups \X Groups
        /\ Halfway \subseteq Ids
    BY MoveParts DEF MoveInv, Moving, Halfway
  <1>1. CASE MoveSave
    <2>1. UNCHANGED <<threadNum, sandbox, loadAt, created, history>> /\ move[1] \in Ids
      BY <1>0, <1>1 DEF MoveSave, Moving
    <2>2. disk' \in Disks
      BY <1>0, <1>1, <2>1, PutWrites DEF MoveSave, Saved, Cut
    <2>3. CASE Quit
      BY <2>1, <2>2, <2>3, QuitType DEF TypeOK, Disks, Entries, history
    <2>4. CASE pc' = "saved" /\ UNCHANGED <<groups, running, move, consent>>
      BY <2>1, <2>2, <2>4 DEF TypeOK, Disks, Entries, Steps, history
    <2>5. QED
      BY <1>1, <2>3, <2>4 DEF MoveSave
  <1>2. CASE MoveScratch
    BY <1>2 DEF MoveScratch, TypeOK, Steps, history
  <1>3. CASE MoveRemove
    <2>1. disk' \in Disks
      BY <1>0, <1>3, PutWrites DEF MoveRemove, Moving, Removed, Cut
    <2>2. pc' \in Steps /\ cut' \subseteq Ids
      BY <1>0, <1>3 DEF MoveRemove, Steps, Moving, TypeOK
    <2>3. QED
      BY <1>3, <2>1, <2>2 DEF MoveRemove, TypeOK, Disks, Entries
  <1>4. CASE MoveUndo
    <2>1. disk' \in Disks
      BY <1>0, <1>4, PutWrites DEF MoveUndo, Moving, Removed, Cut
    <2>2. halfMoved' \subseteq Ids
      BY <1>0, <1>4 DEF MoveUndo, Moving, TypeOK
    <2>3. QED
      BY <1>4, <2>1, <2>2, QuitType DEF MoveUndo, TypeOK, Disks, Entries
  <1>5. CASE MoveCommit
    <2>1. groups' \in [Groups -> SUBSET Ids]
      BY <1>0, <1>5 DEF MoveCommit, Moving, TypeOK
    <2>2. QED
      BY <1>0, <1>5, <2>1 DEF MoveCommit, TypeOK, Steps, history
  <1>6. CASE Exit
    <2>1. halfMoved' \subseteq Ids
      BY <1>0, <1>6 DEF Exit, TypeOK
    <2>2. QED
      BY <1>6, <2>1, QuitType DEF Exit, TypeOK
  <1>7. ASSUME NEW t \in Ids, NEW g \in Groups, TornSave(t, g)
        PROVE  TypeOK'
    <2>1. disk' \in Disks
      BY <1>0, <1>7, PutWrites DEF TornSave, Cut
    <2>2. threadNum' \in 0 .. MaxId
      BY <1>7, GroupAssumption DEF TornSave, TypeOK, Ids
    <2>3. cut' \subseteq Ids /\ halfMoved' \subseteq Ids
      BY <1>0, <1>7 DEF TornSave, TypeOK
    <2>4. QED
      BY <1>7, <2>1, <2>2, <2>3, QuitType DEF TornSave, TypeOK, Disks, Entries
  <1>8. CASE TornRemove
    <2>1. disk' \in Disks
      BY <1>0, <1>8, PutWrites DEF TornRemove, Moving, Cut
    <2>2. halfMoved' \subseteq Ids
      BY <1>0, <1>8 DEF TornRemove, TypeOK
    <2>3. QED
      BY <1>8, <2>1, <2>2, QuitType DEF TornRemove, TypeOK, Disks, Entries
  <1>9. QED
    BY <1>1, <1>2, <1>3, <1>4, <1>5, <1>6, <1>7, <1>8

\* Every step preserves the types.
LEMMA TypeStep ==
  ASSUME TypeOK, MoveInv, [Next]_vars
  PROVE  TypeOK'
  <1>1. CASE UNCHANGED vars
    BY <1>1 DEF vars, history, TypeOK
  <1>2. CASE Next
    BY <1>2, LoadType, MenuType, MoveType DEF Next
  <1>3. QED
    BY <1>1, <1>2

-----------------------------------------------------------------------------
(* Maps and directories.                                                   *)

\* Nothing is loaded, and nothing runs, when the program is not up.
LEMMA NotLoaded ==
  ASSUME pc' \in {"down", "failed"}, running' = {}
  PROVE  LoadInv' /\ MoveInv' /\ IdInv'
  BY DEF LoadInv, LoadedGroups, MoveInv, IdInv, Up, Moving

\* A directory that holds nothing but readable threads.
LEMMA ScanStored ==
  ASSUME TypeOK, NEW g \in Groups,
         \A d \in Present(g) : disk[g][d] \in Ids /\ d = Dir(disk[g][d])
  PROVE  /\ Stored(g) = {disk[g][d] : d \in Present(g)}
         /\ Dirs(g) = Stored(g) /\ Clean(g)
  <1>1. \A t \in Ids : disk[g][Dir(t)] \in {t, Absent}
    BY Names DEF Present
  <1>2. \A t \in Stored(g) : Dir(t) \in Present(g) /\ disk[g][Dir(t)] = t
    BY Names DEF Stored, OnDisk, Present
  <1>3. \A d \in Present(g) : disk[g][d] \in Stored(g)
    BY Names DEF Stored, OnDisk
  <1>4. Dirs(g) = Stored(g)
    BY <1>1, Names DEF Dirs, Stored, OnDisk
  <1>5. Clean(g)
    BY DEF Clean, Present, Entry
  <1>6. QED
    BY <1>2, <1>3, <1>4, <1>5

\* Loading: a group that was scanned stays as it was found.
LEMMA LoadStep ==
  ASSUME TypeOK, LoadInv, MoveInv, \/ Load \/ MigrateDone \/ ScanOk \/ LoadFail \/ Reconcile
                                   \/ \E d \in DirNames : ScanFail(d)
                                   \/ \E d \in LegacyDirs : MigrateDir(d)
  PROVE  LoadInv' /\ MoveInv' /\ IdInv'
  <1>0. Len(LoadOrder) = 2 /\ loadAt \in 1 .. 2 /\ groups \in [Groups -> SUBSET Ids]
    BY Order DEF TypeOK
  <1>1. CASE Load
    BY <1>1 DEF Load, LoadInv, LoadedGroups, MoveInv, IdInv, Up, Moving
  <1>2. CASE MigrateDone
    <2>1. UNCHANGED <<disk, groups, loadAt, running, cut>> /\ pc = "migrating" /\ pc' = "scanning"
      BY <1>2 DEF MigrateDone, history
    <2>2. \A g \in Groups : (Clean(g) => Clean(g)') /\ Dirs(g)' = Dirs(g) /\ Stored(g)' = Stored(g)
      BY <2>1, SameDirs
    <2>3. LoadedGroups' = LoadedGroups /\ LoadedGroups \subseteq Groups
      BY <2>1, Names DEF LoadedGroups, Up
    <2>4. LoadInv'
      BY <2>1, <2>2, <2>3 DEF LoadInv, Up, Copied
    <2>5. QED
      BY <2>1, <2>4 DEF MoveInv, IdInv, Up, Moving
  <1>3. CASE ScanOk
    <2>1. /\ pc = "scanning" /\ UNCHANGED <<disk, running, cut>>
          /\ groups' = [groups EXCEPT ![Loading] = {disk[Loading][d] : d \in Present(Loading)}]
          /\ \A d \in Present(Loading) : disk[Loading][d] \in Ids /\ d = Dir(disk[Loading][d])
      BY <1>3 DEF ScanOk, history
    <2>2. running' = {}
      BY <2>1 DEF MoveInv, Up
    <2>3. CASE loadAt = 1
      <3>1. Loading = Main /\ pc' = "migrating" /\ loadAt' = 2
        BY <1>0, <1>3, <2>3, Order DEF ScanOk
      <3>2. Clean(Main) /\ groups'[Main] = Dirs(Main) /\ Dirs(Main) = Stored(Main)
        BY <1>0, <2>1, <3>1, ScanStored, Names
      <3>3. Clean(Main)' /\ Stored(Main)' = Stored(Main) /\ Dirs(Main)' = Dirs(Main)
        BY <2>1, <3>2, SameDirs, Names
      <3>4. QED
        BY <2>2, <3>1, <3>2, <3>3 DEF LoadInv, LoadedGroups, MoveInv, IdInv, Up, Moving
    <2>4. CASE loadAt = 2
      <3>1. Loading = Archive /\ pc' = "reconciling" /\ loadAt' = 2
        BY <1>0, <1>3, <2>4, Order DEF ScanOk
      <3>2. Clean(Main) /\ groups[Main] = Dirs(Main) /\ Dirs(Main) = Stored(Main)
        BY <2>1, <2>4 DEF LoadInv, LoadedGroups, Up, Copied
      <3>3. \A g \in Groups : Clean(g) /\ groups'[g] = Dirs(g) /\ Dirs(g) = Stored(g)
        BY <1>0, <2>1, <3>1, <3>2, ScanStored, Names
      <3>4. \A g \in Groups : Clean(g)' /\ Stored(g)' = Stored(g) /\ Dirs(g)' = Dirs(g)
        BY <2>1, <3>3, SameDirs
      <3>5. QED
        BY <2>2, <3>1, <3>3, <3>4 DEF LoadInv, LoadedGroups, MoveInv, IdInv, Up, Moving
    <2>5. QED
      BY <1>0, <2>3, <2>4
  <1>4. CASE Reconcile
    <2>1. pc = "reconciling" /\ UNCHANGED <<disk, groups, running, cut>>
      BY <1>4 DEF Reconcile, history
    <2>2. running' = {} /\ \A g \in Groups : Clean(g) /\ groups[g] = Dirs(g) /\ Dirs(g) = Stored(g)
      BY <2>1 DEF MoveInv, LoadInv, LoadedGroups, Up, Copied
    <2>3. \A g \in Groups : Clean(g)' /\ groups'[g] = Dirs(g)' /\ Dirs(g)' = Stored(g)'
      BY <2>1, <2>2, SameDirs
    <2>4. LoadInv' /\ MoveInv'
      BY <1>4, <2>2, <2>3 DEF Reconcile, LoadInv, LoadedGroups, MoveInv, Up, Moving
    <2>5. IdInv'
      BY <1>4, <2>1 DEF Reconcile, IdInv, Up
    <2>6. QED
      BY <2>4, <2>5
  <1>5. ASSUME NEW d \in DirNames, ScanFail(d)
        PROVE  LoadInv' /\ MoveInv' /\ IdInv'
    <2>1. pc' = "failed" /\ running' = {}
      BY <1>5 DEF ScanFail, MoveInv, Up
    <2>2. QED
      BY <2>1, NotLoaded
  <1>6. CASE LoadFail
    <2>1. pc' = "failed" /\ running' = {}
      BY <1>6 DEF LoadFail, MoveInv, Up
    <2>2. QED
      BY <2>1, NotLoaded
  <1>7. ASSUME NEW d \in LegacyDirs, MigrateDir(d)
        PROVE  LoadInv' /\ MoveInv' /\ IdInv'
    <2>1. pc = "migrating" /\ UNCHANGED <<groups, running, loadAt, cut>> /\ running = {}
      BY <1>7 DEF MigrateDir, MoveInv, Up, history
    <2>2. pc' \in {"migrating", "failed"} /\ \A h \in Groups \ {Loading} : disk'[h] = disk[h]
      BY <1>7, <2>1, MigrateWrites
    <2>3. CASE loadAt = 2
      <3>1. /\ Clean(Main) /\ groups[Main] = Dirs(Main) /\ Dirs(Main) = Stored(Main)
            /\ disk'[Main] = disk[Main]
        BY <2>1, <2>2, <2>3, Order, Names DEF LoadInv, LoadedGroups, Up, Copied
      <3>2. Clean(Main)' /\ groups'[Main] = Dirs(Main)' /\ Dirs(Main)' = Stored(Main)'
        BY <2>1, <3>1 DEF Clean, Entry, Dirs, Stored, OnDisk
      <3>3. QED
        BY <2>1, <2>2, <2>3, <3>2 DEF LoadInv, LoadedGroups, MoveInv, IdInv, Up, Moving
    <2>4. CASE loadAt = 1
      BY <2>1, <2>2, <2>4 DEF LoadInv, LoadedGroups, MoveInv, IdInv, Up, Moving
    <2>5. QED
      BY <1>0, <2>3, <2>4
  <1>8. QED
    BY <1>1, <1>2, <1>3, <1>4, <1>5, <1>6, <1>7

\* What the invariants say while threads are in memory.
LEMMA UpFacts ==
  ASSUME TypeOK, LoadInv, pc \in Up
  PROVE  /\ \A g \in Groups : Clean(g) /\ (pc \notin Copied \cup {"removed"} => groups[g] = Dirs(g))
         /\ groups \in [Groups -> SUBSET Ids] /\ disk \in Disks
  BY MoveParts DEF LoadInv, LoadedGroups, TypeOK

\* A step that leaves the maps, the moved thread and the set of directories alone.
LEMMA QuietStep ==
  ASSUME LoadInv, MoveInv, IdInv, pc \in Up, pc' \in Up,
         UNCHANGED <<groups, move, threadNum>>,
         \A g \in Groups : Clean(g)' /\ Dirs(g)' = Dirs(g),
         pc \in Moving => move[2] \in Groups /\ move[3] \in Groups,
         pc \in Copied \cup {"removed"} /\ OnDisk(move[3], move[1]) => OnDisk(move[3], move[1])',
         running' \subseteq running \/ (pc = "menu" /\ pc' = "menu"),
         \/ pc' = pc
         \/ pc = "clearing" /\ pc' = "checking"
         \/ pc = "saved" /\ pc' \in {"removing", "undoing"}
         \/ pc = "removing" /\ pc' = "undoing"
  PROVE  LoadInv' /\ MoveInv' /\ IdInv'
  <1>1. LoadInv'
    BY DEF LoadInv, LoadedGroups, Copied, Up
  <1>2. MoveInv'
    <2>1. (move[1])' = move[1] /\ (move[2])' = move[2] /\ (move[3])' = move[3]
      OBVIOUS
    <2>2. pc' \in Moving => pc \in Moving
      BY DEF Moving
    <2>3. pc' \in Moving \ {"clearing", "checking"} => pc \in Copied \cup {"removed"}
      BY DEF Moving, Copied
    <2>4. pc' = "removed" <=> pc = "removed"
      OBVIOUS
    <2>5. pc' # "menu" => running' \subseteq running
      OBVIOUS
    <2>6. ASSUME pc' \in Moving
          PROVE  /\ move[1] \in Ids /\ move[2] # move[3] /\ move[1] \in groups[move[2]]
                 /\ pc' \notin {"clearing", "checking"} =>
                      /\ move[1] \notin running'
                      /\ OnDisk(move[3], move[1])'
                      /\ Dirs(move[3])' = groups[move[3]] \cup {move[1]}
                      /\ Dirs(move[2])' = IF pc' = "removed" THEN groups[move[2]] \ {move[1]}
                                                            ELSE groups[move[2]]
      BY <2>2, <2>3, <2>4, <2>5, <2>6 DEF MoveInv, Moving, Copied
    <2>7. QED
      BY <2>1, <2>6 DEF MoveInv
  <1>3. IdInv'
    BY DEF IdInv, Up
  <1>4. QED
    BY <1>1, <1>2, <1>3

\* A thread that is not being moved has a directory in its own group only.
LEMMA OwnGroup ==
  ASSUME TypeOK, LoadInv, MoveInv, IdInv, pc \in Up, NEW g \in Groups, NEW t \in groups[g],
         pc \in Copied \cup {"removed"} => t # move[1]
  PROVE  /\ t \in Ids /\ t \in Dirs(g) /\ Entry(g, t)
         /\ \A h \in Groups \ {g} : disk[h][Dir(t)] = Absent
  <1>1. /\ \A h \in Groups : Clean(h) /\ (pc \notin Copied \cup {"removed"} => groups[h] = Dirs(h))
        /\ groups \in [Groups -> SUBSET Ids] /\ move[2] \in Groups /\ move[3] \in Groups
    BY UpFacts, MoveParts
  <1>2. t \in Ids /\ \A h \in Groups \ {g} : t \notin groups[h]
    BY <1>1, Names DEF IdInv
  <1>3. \A h \in Groups : t \in Dirs(h) <=> t \in groups[h]
    <2>1. CASE pc \notin Copied \cup {"removed"}
      BY <1>1, <2>1
    <2>2. CASE pc \in Copied \cup {"removed"}
      <3>1. move[2] # move[3] /\ Groups = {move[2], move[3]}
        BY <1>1, <2>2, Names DEF MoveInv, Copied, Moving
      <3>2. /\ Dirs(move[3]) = groups[move[3]] \cup {move[1]}
            /\ Dirs(move[2]) \in {groups[move[2]], groups[move[2]] \ {move[1]}}
        BY <2>2 DEF MoveInv, Copied, Moving
      <3>3. QED
        BY <2>2, <3>1, <3>2
    <2>3. QED
      BY <2>1, <2>2
  <1>4. t \in Dirs(g) /\ \A h \in Groups \ {g} : disk[h][Dir(t)] = Absent
    BY <1>2, <1>3 DEF Dirs
  <1>5. Entry(g, t)
    <2>1. Dir(t) \in DirNames /\ disk[g][Dir(t)] # Absent
      BY <1>2, <1>4, Names DEF Dirs
    <2>2. PICK u \in Ids : Dir(t) = Dir(u) /\ Entry(g, u)
      BY <1>1, <2>1 DEF Clean
    <2>3. QED
      BY <1>2, <2>2, Names
  <1>6. QED
    BY <1>2, <1>4, <1>5

\* Saving a thread where it is, well or not, leaves the set of directories alone.
LEMMA SaveOwnDirs ==
  ASSUME TypeOK, LoadInv, MoveInv, IdInv, pc \in Up, NEW g \in Groups, NEW t \in groups[g],
         pc \in Copied \cup {"removed"} => t # move[1], SaveOwn(g, t)
  PROVE  /\ \A h \in Groups : Clean(h)' /\ Dirs(h)' = Dirs(h)
         /\ \A h \in Groups, u \in Ids \ {t} : OnDisk(h, u)' <=> OnDisk(h, u)
         /\ cut \subseteq cut'
  <1>1. t \in Ids /\ t \in Dirs(g) /\ disk \in Disks /\ \A h \in Groups : Clean(h)
    BY OwnGroup, UpFacts
  <1>2. CASE UNCHANGED <<disk, cut>>
    BY <1>1, <1>2, SameDirs DEF OnDisk
  <1>3. ASSUME NEW v \in {t, NoThread}, disk' = Put(g, t, v), cut \subseteq cut',
               v = NoThread => t \in cut'
        PROVE  /\ \A h \in Groups : Clean(h)' /\ Dirs(h)' = Dirs(h)
               /\ \A h \in Groups, u \in Ids \ {t} : OnDisk(h, u)' <=> OnDisk(h, u)
    <2>1. v \in {t, Absent, NoThread} /\ v # Absent
      BY <1>1, Names
    <2>2. /\ \A h \in Groups \ {g} : Dirs(h)' = Dirs(h)
          /\ Dirs(g)' = Dirs(g) \cup {t}
          /\ \A h \in Groups : Clean(h)'
          /\ \A h \in Groups, u \in Ids : <<h, u>> # <<g, t>> => (OnDisk(h, u)' <=> OnDisk(h, u))
      BY <1>1, <1>3, <2>1, PutDirs
    <2>3. \A h \in Groups : Dirs(h)' = Dirs(h)
      BY <1>1, <2>2
    <2>4. QED
      BY <2>2, <2>3
  <1>4. CASE disk' = Saved(g, t) /\ UNCHANGED cut
    <2>1. t \in {t, NoThread} /\ disk' = Put(g, t, t) /\ t # NoThread
      BY <1>1, <1>4, Names DEF Saved
    <2>2. QED
      BY <1>3, <1>4, <2>1
  <1>5. CASE disk' = Cut(g, t) /\ cut' = cut \cup {t}
    BY <1>3, <1>5 DEF Cut
  <1>6. QED
    BY <1>2, <1>4, <1>5 DEF SaveOwn

\* The menu, the runs and the sandboxes.
LEMMA MenuStep ==
  ASSUME TypeOK, LoadInv, MoveInv, IdInv,
         \/ \E g \in Groups : NewThread(g) \/ NewThreadFail(g)
         \/ \E t \in Ids : StartRun(t) \/ AgentWork(t) \/ SetupSandbox(t)
         \/ \E t \in Ids, g \in Groups : EndRun(t, g) \/ SaveIdle(t, g)
         \/ \E t \in Ids, src, dst \in Groups : ConfirmMove(t, src, dst)
         \/ ClearSandbox \/ MoveScratch
  PROVE  LoadInv' /\ MoveInv' /\ IdInv'
  <1>1. ASSUME NEW g \in Groups, NewThread(g)
        PROVE  LoadInv' /\ MoveInv' /\ IdInv'
    <2> DEFINE id == threadNum + 1
    <2>1. /\ pc = "menu" /\ id \in Ids /\ disk' = Put(g, id, id)
          /\ groups' = [groups EXCEPT ![g] = @ \cup {id}]
          /\ threadNum' = id /\ UNCHANGED <<running, pc, move, cut>>
      BY <1>1 DEF NewThread, Saved, history
    <2>2. /\ \A h \in Groups : Clean(h) /\ groups[h] = Dirs(h)
          /\ groups \in [Groups -> SUBSET Ids] /\ disk \in Disks
      BY <2>1, UpFacts DEF Up, Copied
    <2>3. /\ \A h \in Groups \ {g} : Dirs(h)' = Dirs(h)
          /\ Dirs(g)' = Dirs(g) \cup {id}
          /\ \A h \in Groups : Clean(h)'
      BY <2>1, <2>2, PutDirs, Names
    <2>4. \A h \in Groups : groups'[h] = Dirs(h)'
      BY <2>1, <2>2, <2>3
    <2>6. LoadInv'
      BY <2>1, <2>3, <2>4, Names DEF LoadInv, LoadedGroups, Up
    <2>7. MoveInv'
      BY <2>1 DEF MoveInv, Up, Moving
    <2>8. IdInv'
      <3>1. /\ groups[Main] \cap groups[Archive] = {} /\ id \notin groups[Main] \cup groups[Archive]
            /\ \A t \in groups[Main] \cup groups[Archive] : t <= id
        BY <2>1, <2>2, GroupAssumption, Names DEF IdInv, Up, TypeOK
      <3>2. groups'[Main] \cap groups'[Archive] = {}
        BY <2>1, <2>2, <3>1, Names
      <3>3. \A t \in groups'[Main] \cup groups'[Archive] : t <= id
        BY <2>1, <2>2, <3>1, Names
      <3>4. QED
        BY <2>1, <3>2, <3>3 DEF IdInv
    <2>9. QED
      BY <2>6, <2>7, <2>8
  <1>2. ASSUME NEW g \in Groups, NewThreadFail(g)
        PROVE  LoadInv' /\ MoveInv' /\ IdInv'
    BY <1>2, NotLoaded DEF NewThreadFail, Quit
  <1>3. ASSUME NEW t \in Ids, StartRun(t) \/ AgentWork(t) \/ SetupSandbox(t)
        PROVE  LoadInv' /\ MoveInv' /\ IdInv'
    <2>1. /\ pc' = pc /\ UNCHANGED <<disk, groups, move, threadNum, cut>>
          /\ running' = running \/ pc = "menu"
      BY <1>3 DEF StartRun, AgentWork, SetupSandbox, history
    <2>2. pc \in Up
      BY <1>3 DEF StartRun, AgentWork, SetupSandbox, MoveInv, Up
    <2>3. \A g \in Groups : Clean(g)' /\ Dirs(g)' = Dirs(g)
      BY <2>1, <2>2, UpFacts, SameDirs
    <2>4. QED
      BY <2>1, <2>2, <2>3, MoveParts, QuietStep DEF OnDisk
  <1>4. ASSUME NEW t \in Ids, NEW g \in Groups, EndRun(t, g)
        PROVE  LoadInv' /\ MoveInv' /\ IdInv'
    <2>1. /\ t \in running /\ running' = running \ {t} /\ pc \in Up /\ t \in groups[g]
          /\ SaveOwn(g, t) /\ UNCHANGED <<threadNum, groups, pc, move>>
      BY <1>4 DEF EndRun, MoveInv
    <2>2. pc \in Copied \cup {"removed"} => t # move[1]
      BY <2>1 DEF MoveInv, Copied, Moving
    <2>3. /\ \A h \in Groups : Clean(h)' /\ Dirs(h)' = Dirs(h)
          /\ \A h \in Groups, u \in Ids \ {t} : OnDisk(h, u)' <=> OnDisk(h, u)
      BY <2>1, <2>2, SaveOwnDirs
    <2>4. pc \in Moving => move[1] \in Ids
      BY DEF MoveInv
    <2>5. pc \in Copied \cup {"removed"} /\ OnDisk(move[3], move[1]) => OnDisk(move[3], move[1])'
      <3>1. pc \in Copied \cup {"removed"} => pc \in Moving
        BY DEF Copied, Moving
      <3>2. move[3] \in Groups /\ move' = move
        BY <2>1, MoveParts
      <3>3. pc \in Copied \cup {"removed"} => (OnDisk(move[3], move[1])' <=> OnDisk(move[3], move[1]))
        BY <2>2, <2>3, <2>4, <3>1, <3>2 DEF OnDisk
      <3>4. QED
        BY <3>3
    <2>6. QED
      BY <2>1, <2>3, <2>5, MoveParts, QuietStep
  <1>5. ASSUME NEW t \in Ids, NEW g \in Groups, SaveIdle(t, g)
        PROVE  LoadInv' /\ MoveInv' /\ IdInv'
    <2>1. pc = "menu" /\ t \in groups[g] /\ SaveOwn(g, t) /\ threadNum' = threadNum
      BY <1>5 DEF SaveIdle
    <2>2. CASE Quit
      BY <2>2, NotLoaded DEF Quit
    <2>3. CASE UNCHANGED <<groups, running, pc, move>>
      <3>1. pc \in Up /\ pc \notin Copied \cup {"removed"} /\ pc \notin Moving
        BY <2>1 DEF Up, Copied, Moving
      <3>2. \A h \in Groups : Clean(h)' /\ Dirs(h)' = Dirs(h)
        BY <2>1, <3>1, SaveOwnDirs
      <3>3. QED
        BY <2>1, <2>3, <3>1, <3>2, QuietStep
    <2>4. QED
      BY <1>5, <2>2, <2>3 DEF SaveIdle
  <1>6. ASSUME NEW t \in Ids, NEW src \in Groups, NEW dst \in Groups, ConfirmMove(t, src, dst)
        PROVE  LoadInv' /\ MoveInv' /\ IdInv'
    <2>1. /\ pc = "menu" /\ pc' = "clearing" /\ src # dst /\ t \in groups[src]
          /\ move' = <<t, src, dst>> /\ UNCHANGED <<disk, threadNum, groups, running, cut>>
      BY <1>6 DEF ConfirmMove, history
    <2>2. \A g \in Groups : Clean(g)' /\ groups'[g] = Dirs(g)'
      BY <2>1, UpFacts, SameDirs DEF Up, Copied
    <2>3. LoadInv' /\ IdInv'
      BY <2>1, <2>2, Names DEF LoadInv, LoadedGroups, Up, Copied, IdInv
    <2>4. MoveInv'
      BY <2>1 DEF MoveInv, Up
    <2>5. QED
      BY <2>3, <2>4
  <1>7. CASE ClearSandbox \/ MoveScratch
    <2>1. /\ pc \in Up /\ pc' \in Up /\ UNCHANGED <<disk, groups, running, move, threadNum, cut>>
          /\ \/ pc = "clearing" /\ pc' = "checking"
             \/ pc = "saved" /\ pc' \in {"removing", "undoing"}
      BY <1>7 DEF ClearSandbox, MoveScratch, Up, history
    <2>2. \A g \in Groups : Clean(g)' /\ Dirs(g)' = Dirs(g)
      BY <2>1, UpFacts, SameDirs
    <2>3. QED
      BY <2>1, <2>2, MoveParts, QuietStep DEF OnDisk
  <1>8. QED
    BY <1>1, <1>2, <1>3, <1>4, <1>5, <1>6, <1>7

\* A move copies the thread, removes the original or the copy, and only then
\* changes the maps.
LEMMA MoveStep ==
  ASSUME TypeOK, LoadInv, MoveInv, IdInv, \/ MoveSave \/ MoveRemove \/ MoveUndo \/ MoveCommit
  PROVE  LoadInv' /\ MoveInv' /\ IdInv'
  <1> DEFINE t == move[1]
             src == move[2]
             dst == move[3]
  <1>0. /\ pc \in Moving /\ pc \in Up
        /\ t \in Ids /\ src \in Groups /\ dst \in Groups /\ src # dst /\ t \in groups[src]
        /\ groups \in [Groups -> SUBSET Ids] /\ disk \in Disks
        /\ \A g \in Groups : Clean(g)
        /\ Groups = {src, dst}
    BY MoveParts, UpFacts, Names
       DEF MoveInv, Moving, Up, MoveSave, MoveRemove, MoveUndo, MoveCommit
  <1>1. CASE MoveSave
    <2>1. CASE pc' = "down" /\ running' = {}
      BY <2>1, NotLoaded
    <2>2. CASE /\ t \notin running /\ t \notin groups[dst]
               /\ disk' = Put(dst, t, t)
               /\ pc' = "saved" /\ UNCHANGED <<groups, running, move>>
      <3>1. pc = "checking" /\ UNCHANGED <<threadNum, cut>>
        BY <1>1 DEF MoveSave, history
      <3>2. /\ \A h \in Groups \ {dst} : Dirs(h)' = Dirs(h)
            /\ Dirs(dst)' = Dirs(dst) \cup {t}
            /\ \A h \in Groups : Clean(h)'
        BY <1>0, <2>2, <3>1, PutDirs, Names
      <3>3. \A g \in Groups : groups[g] = Dirs(g)
        BY <1>0, <3>1, UpFacts DEF Copied
      <3>4. OnDisk(dst, t)'
        BY <1>0, <2>2, PutWrites, Names DEF OnDisk
      <3>5. Dirs(dst)' = groups[dst] \cup {t} /\ Dirs(src)' = groups[src]
        BY <1>0, <2>2, <3>2, <3>3
      <3>6. LoadInv'
        BY <2>2, <3>2, Names DEF LoadInv, LoadedGroups, Copied, Up
      <3>7. MoveInv'
        BY <1>0, <2>2, <3>4, <3>5 DEF MoveInv, Up, OnDisk
      <3>8. IdInv'
        BY <1>0, <2>2, <3>1 DEF IdInv
      <3>9. QED
        BY <3>6, <3>7, <3>8
    <2>3. QED
      BY <1>1, <2>1, <2>2 DEF MoveSave, Quit, Saved
  <1>2. CASE MoveRemove
    <2>1. /\ pc = "removing" /\ UNCHANGED <<threadNum, groups, running, move>> /\ cut \subseteq cut'
      BY <1>2 DEF MoveRemove
    <2>2. /\ Dirs(dst) = groups[dst] \cup {t} /\ Dirs(src) = groups[src] /\ t \notin running
          /\ OnDisk(dst, t)
      BY <1>0, <2>1 DEF MoveInv
    <2>3. ASSUME NEW v \in {t, Absent, NoThread}, disk' = Put(src, t, v)
          PROVE  OnDisk(dst, t)'
      BY <1>0, <2>1, <2>2, <2>3, PutDirs
    <2>4. CASE UNCHANGED disk /\ pc' = "undoing"
      <3>1. \A g \in Groups : Clean(g)' /\ Dirs(g)' = Dirs(g)
        BY <1>0, <2>1, <2>4, SameDirs
      <3>2. QED
        BY <1>0, <2>1, <2>4, <3>1, QuietStep DEF Up, OnDisk
    <2>5. CASE disk' = Put(src, t, NoThread) /\ pc' = "undoing" /\ cut' = cut \cup {t}
      <3>1. /\ \A h \in Groups \ {src} : Dirs(h)' = Dirs(h)
            /\ Dirs(src)' = Dirs(src) \cup {t}
            /\ \A h \in Groups : Clean(h)'
        BY <1>0, <2>1, <2>5, PutDirs, Names
      <3>2. \A g \in Groups : Clean(g)' /\ Dirs(g)' = Dirs(g)
        BY <1>0, <2>1, <2>2, <3>1
      <3>3. OnDisk(dst, t)' /\ move' = move
        BY <2>1, <2>3, <2>5
      <3>4. OnDisk(move[3], move[1])'
        BY <3>3
      <3>5. QED
        BY <1>0, <2>1, <2>5, <3>2, <3>4, QuietStep DEF Up
    <2>6. CASE disk' = Put(src, t, Absent) /\ pc' = "removed"
      <3>1. /\ \A h \in Groups \ {src} : Dirs(h)' = Dirs(h)
            /\ Dirs(src)' = Dirs(src) \ {t}
            /\ \A h \in Groups : Clean(h)'
        BY <1>0, <2>1, <2>6, PutDirs, Names
      <3>2. Dirs(dst)' = groups[dst] \cup {t} /\ Dirs(src)' = groups[src] \ {t}
        BY <1>0, <2>1, <2>2, <3>1
      <3>3. LoadInv'
        BY <2>6, <3>1, Names DEF LoadInv, LoadedGroups, Copied, Up
      <3>4. OnDisk(dst, t)'
        BY <2>3, <2>6
      <3>5. MoveInv'
        BY <1>0, <2>1, <2>2, <2>6, <3>2, <3>4 DEF MoveInv, Up
      <3>6. IdInv'
        BY <1>0, <2>1 DEF IdInv
      <3>7. QED
        BY <3>3, <3>5, <3>6
    <2>7. QED
      BY <1>2, <2>4, <2>5, <2>6 DEF MoveRemove, Removed, Cut
  <1>3. CASE MoveUndo
    BY <1>3, NotLoaded DEF MoveUndo, Quit
  <1>4. CASE MoveCommit
    <2>1. /\ pc = "removed" /\ pc' = "menu" /\ UNCHANGED <<disk, threadNum, running, cut>>
          /\ groups' = [groups EXCEPT ![src] = @ \ {t}, ![dst] = @ \cup {t}]
      BY <1>4 DEF MoveCommit, history
    <2>2. /\ groups'[src] = groups[src] \ {t} /\ groups'[dst] = groups[dst] \cup {t}
          /\ Groups = {src, dst}
      BY <1>0, <2>1, Names
    <2>3. \A g \in Groups : groups'[g] = Dirs(g)
      BY <1>0, <2>1, <2>2 DEF MoveInv
    <2>4. \A g \in Groups : Clean(g)' /\ Dirs(g)' = Dirs(g)
      BY <1>0, <2>1, SameDirs
    <2>5. LoadInv'
      BY <2>1, <2>3, <2>4, Names DEF LoadInv, LoadedGroups, Up
    <2>6. MoveInv'
      BY <2>1 DEF MoveInv, Up, Moving
    <2>7. IdInv'
      <3>1. /\ groups[src] \cap groups[dst] = {}
            /\ \A u \in groups[src] \cup groups[dst] : u <= threadNum
        BY <1>0, <2>2, Names DEF IdInv
      <3>2. /\ groups'[src] \cap groups'[dst] = {}
            /\ \A u \in groups'[src] \cup groups'[dst] : u <= threadNum'
        BY <1>0, <2>1, <2>2, <3>1
      <3>3. QED
        BY <2>2, <3>2, Names DEF IdInv
    <2>8. QED
      BY <2>5, <2>6, <2>7
  <1>5. QED
    BY <1>1, <1>2, <1>3, <1>4

\* Every step keeps the maps and the directories together.
LEMMA MapsStep ==
  ASSUME TypeOK, LoadInv, MoveInv, IdInv, [Next]_vars
  PROVE  LoadInv' /\ MoveInv' /\ IdInv'
  <1>1. CASE UNCHANGED vars
    <2>1. UNCHANGED <<disk, threadNum, groups, running, pc, loadAt, move, cut>>
      BY <1>1 DEF vars, history
    <2>2. QED
      BY <2>1 DEF LoadInv, LoadedGroups, MoveInv, IdInv, Clean, Entry, Dirs, Stored, OnDisk
  <1>2. CASE Exit \/ (\E t \in Ids, g \in Groups : TornSave(t, g)) \/ TornRemove
    BY <1>2, NotLoaded DEF Exit, TornSave, TornRemove, Quit
  <1>3. QED
    BY <1>1, <1>2, LoadStep, MenuStep, MoveStep DEF Next

-----------------------------------------------------------------------------
(* Threads on disk.                                                        *)

\* The steps that write directories.
Writes == \/ \E d \in LegacyDirs : MigrateDir(d)
          \/ \E d \in DirNames : ScanFail(d)
          \/ \E g \in Groups : NewThread(g) \/ NewThreadFail(g)
          \/ \E t \in Ids, g \in Groups : EndRun(t, g) \/ SaveIdle(t, g)
          \/ MoveSave \/ MoveRemove \/ MoveUndo
          \/ \E t \in Ids, g \in Groups : TornSave(t, g)
          \/ TornRemove

\* The others; the program never stops between the copy and its removal without
\* the thread being counted as moved half way, nor panics but after a load.
LEMMA DiskFrame ==
  ASSUME [Next]_vars
  PROVE  \/ Writes
         \/ /\ UNCHANGED <<disk, created, cut>>
            /\ Excused \subseteq Excused'
            /\ pc' = "panic" => Reconcile \/ (pc = "panic" /\ UNCHANGED groups /\ halfMoved \subseteq halfMoved')
  <1> USE DEF Excused, Halfway, history
  <1>1. CASE Load \/ MigrateDone \/ ScanOk \/ LoadFail \/ Reconcile
    BY <1>1 DEF Load, MigrateDone, ScanOk, LoadFail, Reconcile
  <1>2. CASE \E t \in Ids : StartRun(t) \/ AgentWork(t) \/ SetupSandbox(t)
    BY <1>2 DEF StartRun, AgentWork, SetupSandbox
  <1>3. CASE \E t \in Ids, src, dst \in Groups : ConfirmMove(t, src, dst)
    BY <1>3 DEF ConfirmMove
  <1>4. CASE ClearSandbox \/ MoveScratch \/ MoveCommit
    BY <1>4 DEF ClearSandbox, MoveScratch, MoveCommit
  <1>5. CASE Exit
    BY <1>5 DEF Exit, Quit
  <1>6. CASE UNCHANGED vars
    BY <1>6 DEF vars
  <1>7. QED
    BY <1>1, <1>2, <1>3, <1>4, <1>5, <1>6 DEF Next, Writes

\* A directory that stays.
LEMMA EntryStays ==
  ASSUME NEW g \in Groups, NEW t \in Ids, Entry(g, t), disk'[g][Dir(t)] = disk[g][Dir(t)],
         cut \subseteq cut'
  PROVE  Safe(t)'
  BY Names DEF Entry, Safe, Held, Garbled

\* Writing the directory of one thread leaves the others safe.
LEMMA PutHeld ==
  ASSUME TypeOK, HeldInv, \A h \in Groups : Clean(h),
         NEW g \in Groups, NEW t \in Ids, NEW v \in {t, Absent, NoThread}, disk' = Put(g, t, v),
         created' \subseteq created \cup {t}, cut \subseteq cut', t \in created' => Safe(t)'
  PROVE  HeldInv'
  <1> SUFFICES ASSUME NEW u \in created, u # t
               PROVE  Safe(u)'
    BY DEF HeldInv
  <1>1. u \in Ids /\ Safe(u)
    BY DEF TypeOK, HeldInv
  <1>2. \A h \in Groups, d \in DirNames :
            disk'[h][d] = IF h = g /\ d = Dir(t) THEN v ELSE disk[h][d]
    BY PutWrites, MoveParts
  <1>3. CASE Held(u)
    <2>1. PICK h \in Groups, d \in DirNames : disk[h][d] = u
      BY <1>3 DEF Held
    <2>2. d = Dir(u)
      <3>1. PICK w \in Ids : d = Dir(w) /\ Entry(h, w)
        BY <1>1, <2>1, Names DEF Clean
      <3>2. QED
        BY <1>1, <2>1, <3>1, Names DEF Entry
    <2>3. disk'[h][d] = u
      BY <1>1, <1>2, <2>1, <2>2, Names
    <2>4. QED
      BY <2>3 DEF Safe, Held
  <1>4. CASE u \in cut /\ Garbled(u)
    <2>1. PICK h \in Groups : disk[h][Dir(u)] = NoThread
      BY <1>4 DEF Garbled
    <2>2. disk'[h][Dir(u)] = NoThread
      BY <1>1, <1>2, <2>1, Names
    <2>3. QED
      BY <1>4, <2>2 DEF Safe, Garbled
  <1>5. QED
    BY <1>1, <1>3, <1>4 DEF Safe

\* A step that keeps every readable thread and every unreadable file keeps the
\* threads of the user.
LEMMA HeldKeeps ==
  ASSUME TypeOK, HeldInv, created' \subseteq created, cut \subseteq cut',
         \A g \in Groups, d \in DirNames :
             disk[g][d] \in Ids => \E h \in Groups, e \in DirNames : disk'[h][e] = disk[g][d],
         \A g \in Groups, t \in Ids :
             disk[g][Dir(t)] = NoThread => disk'[g][Dir(t)] = NoThread
  PROVE  HeldInv'
  <1> SUFFICES ASSUME NEW t \in created
               PROVE  Safe(t)'
    BY DEF HeldInv
  <1>1. t \in Ids
    BY DEF TypeOK
  <1>2. CASE Held(t)
    BY <1>1, <1>2 DEF Held, Safe
  <1>3. CASE t \in cut /\ Garbled(t)
    BY <1>1, <1>3 DEF Garbled, Safe
  <1>4. QED
    BY <1>2, <1>3 DEF HeldInv, Safe

\* A new id is that of no directory and of no thread.
LEMMA NewIdFree ==
  ASSUME TypeOK, LoadInv, IdInv, HeldInv, pc = "menu"
  PROVE  /\ pc \in Up /\ threadNum + 1 \notin created
         /\ \A h \in Groups : Clean(h) /\ (threadNum + 1 \in Ids => disk[h][Dir(threadNum + 1)] = Absent)
  <1>1. /\ pc \in Up /\ pc \notin Copied \cup {"removed"} /\ threadNum \in Nat
        /\ \A h \in Groups : Clean(h) /\ groups[h] = Dirs(h)
    BY UpFacts DEF Up, Copied, TypeOK
  <1>2. \A h \in Groups : threadNum + 1 \notin groups[h]
    BY <1>1, Names, GroupAssumption DEF IdInv, TypeOK, Ids
  <1>3. threadNum + 1 \in Ids => \A h \in Groups : disk[h][Dir(threadNum + 1)] = Absent
    BY <1>1, <1>2 DEF Dirs
  <1>4. ASSUME threadNum + 1 \in created
        PROVE  FALSE
    <2> DEFINE id == threadNum + 1
    <2>1. id \in Ids /\ Safe(id)
      BY <1>4 DEF TypeOK, HeldInv
    <2>2. ~Garbled(id)
      BY <1>3, <2>1, Names DEF Garbled
    <2>3. PICK h \in Groups, d \in DirNames : disk[h][d] = id
      BY <2>1, <2>2 DEF Safe, Held
    <2>4. PICK w \in Ids : d = Dir(w) /\ Entry(h, w)
      BY <1>1, <2>1, <2>3, Names DEF Clean
    <2>5. w = id
      BY <2>1, <2>3, <2>4, Names DEF Entry
    <2>6. QED
      BY <1>3, <2>1, <2>3, <2>4, <2>5, Names
  <1>5. QED
    BY <1>1, <1>3, <1>4

\* The thread that is being moved, before and after the copy.
LEMMA MovedEntry ==
  ASSUME TypeOK, LoadInv, MoveInv, pc \in Moving \ {"removed"}
  PROVE  /\ pc \in Up /\ disk \in Disks /\ \A h \in Groups : Clean(h)
         /\ move[1] \in Ids /\ move[2] \in Groups /\ move[3] \in Groups /\ move[2] # move[3]
         /\ Entry(move[2], move[1])
         /\ pc \notin {"clearing", "checking"} => OnDisk(move[3], move[1])
         /\ pc = "checking" /\ move[1] \notin groups[move[3]] => disk[move[3]][Dir(move[1])] = Absent
  <1>1. /\ pc \in Up /\ disk \in Disks /\ groups \in [Groups -> SUBSET Ids]
        /\ \A h \in Groups : Clean(h) /\ (pc \notin Copied \cup {"removed"} => groups[h] = Dirs(h))
    BY UpFacts DEF Up, Moving
  <1>2. /\ move[1] \in Ids /\ move[2] \in Groups /\ move[3] \in Groups /\ move[2] # move[3]
        /\ move[1] \in groups[move[2]]
        /\ pc \notin {"clearing", "checking"} => OnDisk(move[3], move[1])
    BY MoveParts DEF MoveInv
  <1>3. move[1] \in Dirs(move[2])
    <2>1. CASE pc \in Copied
      BY <1>2, <2>1 DEF MoveInv, Copied
    <2>2. CASE pc \notin Copied
      BY <1>1, <1>2, <2>2
    <2>3. QED
      BY <2>1, <2>2
  <1>4. Entry(move[2], move[1])
    <2>1. Dir(move[1]) \in DirNames /\ disk[move[2]][Dir(move[1])] # Absent
      BY <1>2, <1>3, Names DEF Dirs
    <2>2. PICK u \in Ids : Dir(move[1]) = Dir(u) /\ Entry(move[2], u)
      BY <1>1, <1>2, <2>1 DEF Clean
    <2>3. QED
      BY <1>2, <2>2, Names
  <1>5. pc = "checking" /\ move[1] \notin groups[move[3]] => disk[move[3]][Dir(move[1])] = Absent
    BY <1>1, <1>2 DEF Dirs, Copied
  <1>6. QED
    BY <1>1, <1>2, <1>4, <1>5

\* A save of a thread in its own group leaves it there, or counts it as cut short.
LEMMA SaveOwnSafe ==
  ASSUME TypeOK, LoadInv, MoveInv, IdInv, pc \in Up, NEW g \in Groups, NEW t \in groups[g],
         pc \in Copied \cup {"removed"} => t # move[1], SaveOwn(g, t)
  PROVE  Safe(t)'
  <1>1. t \in Ids /\ Entry(g, t) /\ disk \in Disks /\ cut \subseteq cut'
    BY OwnGroup, UpFacts DEF SaveOwn
  <1>2. CASE UNCHANGED disk
    BY <1>1, <1>2, EntryStays
  <1>3. CASE disk' = Saved(g, t)
    <2>1. disk'[g][Dir(t)] = t
      BY <1>1, <1>3, PutWrites, Names DEF Saved
    <2>2. QED
      BY <1>1, <2>1, Names DEF Safe, Held
  <1>4. CASE disk' = Cut(g, t) /\ cut' = cut \cup {t}
    <2>1. disk'[g][Dir(t)] = NoThread
      BY <1>1, <1>4, PutWrites, Names DEF Cut
    <2>2. QED
      BY <1>4, <2>1 DEF Safe, Garbled
  <1>5. QED
    BY <1>2, <1>3, <1>4 DEF SaveOwn

\* No step loses a thread, but a save or a removal of its own file that stops half
\* way.
LEMMA HeldStep ==
  ASSUME TypeOK, LoadInv, MoveInv, IdInv, HeldInv, [Next]_vars
  PROVE  HeldInv'
  <1>1. CASE UNCHANGED <<disk, created>> /\ cut \subseteq cut'
    BY <1>1, HeldKeeps
  <1>2. ASSUME NEW m \in LegacyDirs, MigrateDir(m)
        PROVE  HeldInv'
    <2> DEFINE g == Loading
    <2>1. UNCHANGED <<created, cut>>
      BY <1>2 DEF MigrateDir, history
    <2>2. g \in Groups /\ m \in DirNames /\ m # ScratchDir /\ m \notin {Dir(t) : t \in Ids}
      BY <1>2, MigrateWrites, Names
    <2>3. /\ \A h \in Groups \ {g} : disk'[h] = disk[h]
          /\ disk[g][ScratchDir] # Absent => disk'[g][ScratchDir] = disk[g][ScratchDir]
          /\ \/ \E id \in Ids :
                  /\ disk[g][Dir(id)] = Absent
                  /\ disk'[g][Dir(id)] = disk[g][m]
                  /\ \A d \in DirNames \ {Dir(id), m, ScratchDir} : disk'[g][d] = disk[g][d]
             \/ \A d \in DirNames \ {ScratchDir} : disk'[g][d] = disk[g][d]
      BY <1>2, MigrateWrites
    <2>4. \A h \in Groups, d \in DirNames :
              disk[h][d] \in Ids => \E k \in Groups, e \in DirNames : disk'[k][e] = disk[h][d]
      BY <2>2, <2>3, Names
    <2>5. \A h \in Groups, t \in Ids :
              disk[h][Dir(t)] = NoThread => disk'[h][Dir(t)] = NoThread
      BY <2>2, <2>3, Names
    <2>6. QED
      BY <2>1, <2>4, <2>5, HeldKeeps
  <1>3. ASSUME NEW f \in DirNames, ScanFail(f)
        PROVE  HeldInv'
    <2>1. UNCHANGED <<created, cut>>
      BY <1>3 DEF ScanFail, history
    <2>2. \A h \in Groups, d \in DirNames :
              disk'[h][d] = disk[h][d] \/ (d = ScratchDir /\ disk[h][d] = Absent)
      BY <1>3, ScanFailWrites
    <2>3. \A h \in Groups, d \in DirNames :
              disk[h][d] \in Ids => \E k \in Groups, e \in DirNames : disk'[k][e] = disk[h][d]
      BY <2>2, Names
    <2>4. \A h \in Groups, t \in Ids :
              disk[h][Dir(t)] = NoThread => disk'[h][Dir(t)] = NoThread
      BY <2>2, Names
    <2>5. QED
      BY <2>1, <2>3, <2>4, HeldKeeps
  <1>4. ASSUME NEW g \in Groups, NewThread(g) \/ NewThreadFail(g)
        PROVE  HeldInv'
    <2>1. PICK id \in Ids : id = threadNum + 1
      BY <1>4 DEF NewThread, NewThreadFail
    <2>2. /\ pc = "menu" /\ cut' = cut
          /\ \/ UNCHANGED <<disk, created>>
             \/ created' = created /\ disk' \in {Put(g, id, id), Put(g, id, NoThread)}
             \/ created' = created \cup {id} /\ disk' = Put(g, id, id)
      BY <1>4, <2>1 DEF NewThread, NewThreadFail, Saved, Cut, history
    <2>3. id \notin created /\ \A h \in Groups : Clean(h)
      BY <2>1, <2>2, NewIdFree
    <2>4. disk' = Put(g, id, id) => Safe(id)'
      BY PutWrites, MoveParts, Names DEF Safe, Held
    <2>5. QED
      BY <1>1, <2>2, <2>3, <2>4, PutHeld
  <1>5. ASSUME NEW t \in Ids, NEW g \in Groups, EndRun(t, g) \/ SaveIdle(t, g)
        PROVE  HeldInv'
    <2>1. /\ pc \in Up /\ t \in groups[g] /\ SaveOwn(g, t) /\ created' = created
          /\ pc \in Copied \cup {"removed"} => t # move[1]
      BY <1>5 DEF EndRun, SaveIdle, MoveInv, Up, Copied, Moving
    <2>2. Safe(t)' /\ \A h \in Groups : Clean(h)
      BY <2>1, SaveOwnSafe, UpFacts
    <2>3. cut \subseteq cut' /\ disk' \in {disk, Put(g, t, t), Put(g, t, NoThread)}
      BY <2>1 DEF SaveOwn, Saved, Cut
    <2>4. QED
      BY <1>1, <2>1, <2>2, <2>3, PutHeld
  <1>6. CASE MoveSave \/ MoveRemove \/ MoveUndo \/ TornRemove
    <2> DEFINE t == move[1]
               src == move[2]
               dst == move[3]
    <2>1. pc \in Moving \ {"removed"}
      BY <1>6 DEF MoveSave, MoveRemove, MoveUndo, TornRemove, Moving
    <2>2. /\ disk \in Disks /\ \A h \in Groups : Clean(h)
          /\ t \in Ids /\ src \in Groups /\ dst \in Groups /\ src # dst
          /\ Entry(src, t)
          /\ pc \notin {"clearing", "checking"} => disk[dst][Dir(t)] = t
      BY <2>1, MovedEntry DEF OnDisk
    <2>3. UNCHANGED created /\ cut \subseteq cut'
      BY <1>6 DEF MoveSave, MoveRemove, MoveUndo, TornRemove, history
    <2>4. ASSUME NEW v \in {t, Absent, NoThread}, disk' = Put(dst, t, v)
          PROVE  HeldInv'
      <3>1. disk'[src][Dir(t)] = disk[src][Dir(t)]
        BY <2>2, <2>4, PutWrites, Names
      <3>2. Entry(src, t) /\ t \in Ids /\ src \in Groups
        BY <2>2
      <3>3. \E g \in Groups, u \in Ids : u = t /\ Entry(g, u) /\ disk'[g][Dir(u)] = disk[g][Dir(u)]
        BY <3>1, <3>2
      <3>4. \E u \in Ids : u = t /\ Safe(u)'
        BY <2>3, <3>3, EntryStays
      <3>5. \E g \in Groups, u \in Ids :
                 \E w \in {u, Absent, NoThread} : disk' = Put(g, u, w) /\ Safe(u)'
        BY <2>2, <2>4, <3>4
      <3>6. QED
        BY <2>2, <2>3, <3>5, PutHeld
    <2>5. ASSUME NEW v \in {t, Absent, NoThread}, disk' = Put(src, t, v), pc = "removing"
          PROVE  HeldInv'
      <3>1. disk'[dst][Dir(t)] = t
        BY <2>2, <2>5, PutWrites, Names
      <3>2. \E g \in Groups, u \in Ids : u = t /\ disk'[g][Dir(u)] = u
        BY <2>2, <3>1
      <3>3. \E u \in Ids : u = t /\ Safe(u)'
        BY <3>2, Names DEF Safe, Held
      <3>4. \E g \in Groups, u \in Ids :
                 \E w \in {u, Absent, NoThread} : disk' = Put(g, u, w) /\ Safe(u)'
        BY <2>2, <2>5, <3>3
      <3>5. QED
        BY <2>2, <2>3, <3>4, PutHeld
    <2>6. CASE UNCHANGED disk
      BY <1>1, <2>3, <2>6
    <2>7. QED
      BY <1>6, <2>4, <2>5, <2>6
         DEF MoveSave, MoveRemove, MoveUndo, TornRemove, Saved, Removed, Cut
  <1>7. ASSUME NEW t \in Ids, NEW g \in Groups, TornSave(t, g)
        PROVE  HeldInv'
    <2>1. /\ disk' = Put(g, t, NoThread) /\ created' = created /\ cut \subseteq cut'
          /\ \/ t \in groups[g] /\ (t \in running \/ pc = "menu") /\ t \in cut'
             \/ pc = "menu" /\ t = threadNum + 1
             \/ pc = "checking" /\ t = move[1] /\ g = move[3]
      BY <1>7 DEF TornSave, Cut
    <2>2. disk \in Disks /\ \A h \in Groups, d \in DirNames :
                disk'[h][d] = IF h = g /\ d = Dir(t) THEN NoThread ELSE disk[h][d]
      BY <2>1, MoveParts, PutWrites
    <2>3. pc \in Up /\ \A h \in Groups : Clean(h)
      <3>1. pc \in Up
        BY <2>1 DEF MoveInv, Up
      <3>2. QED
        BY <3>1, UpFacts
    <2>4. t \in created => Safe(t)'
      <3>1. CASE t \in cut'
        BY <2>2, <3>1, Names DEF Safe, Garbled
      <3>2. CASE pc = "menu" /\ t = threadNum + 1
        BY <3>2, NewIdFree
      <3>3. CASE pc = "checking" /\ t = move[1] /\ g = move[3]
        <4>1. Entry(move[2], t) /\ move[2] \in Groups /\ move[2] # g
          BY <3>3, MovedEntry DEF Moving
        <4>2. disk'[move[2]][Dir(t)] = disk[move[2]][Dir(t)]
          BY <2>2, <4>1, Names
        <4>3. QED
          BY <2>1, <4>1, <4>2, EntryStays
      <3>4. QED
        BY <2>1, <3>1, <3>2, <3>3
    <2>5. QED
      BY <2>1, <2>3, <2>4, PutHeld
  <1>8. QED
    BY <1>1, <1>2, <1>3, <1>4, <1>5, <1>6, <1>7, DiskFrame DEF Writes

\* After a write a thread has its only directory in the group it was written to.
LEMMA PutOnce ==
  ASSUME disk \in Disks, \A h \in Groups : Clean(h),
         NEW g \in Groups, NEW t \in Ids, NEW v \in {t, Absent, NoThread}, disk' = Put(g, t, v),
         v = t => \A h \in Groups \ {g} : disk[h][Dir(t)] # t
  PROVE  Once(t)'
  <1>1. \A h \in Groups, d \in DirNames :
            disk'[h][d] = IF h = g /\ d = Dir(t) THEN v ELSE disk[h][d]
    BY PutWrites
  <1>2. ASSUME NEW h \in Groups, NEW d \in DirNames, disk'[h][d] = t
        PROVE  d = Dir(t) /\ (v = t => h = g) /\ (v # t => h # g)
    <2>1. CASE h = g /\ d = Dir(t)
      BY <1>1, <1>2, <2>1
    <2>2. CASE ~(h = g /\ d = Dir(t))
      <3>1. disk[h][d] = t
        BY <1>1, <1>2, <2>2
      <3>2. PICK u \in Ids : d = Dir(u) /\ Entry(h, u)
        BY <3>1, Names DEF Clean
      <3>3. u = t
        BY <3>1, <3>2, Names DEF Entry
      <3>4. QED
        BY <2>2, <3>1, <3>2, <3>3
    <2>3. QED
      BY <2>1, <2>2
  <1>3. \A h, k \in Groups : h # g /\ k # g => h = k
    BY Names
  <1>4. QED
    BY <1>2, <1>3 DEF Once

\* The other threads stay where they are.
LEMMA PutUnique ==
  ASSUME TypeOK, UniqueInv, \A h \in Groups : Clean(h),
         NEW g \in Groups, NEW t \in Ids, NEW v \in {t, Absent, NoThread}, disk' = Put(g, t, v),
         \A u \in Ids \ {t} : u \in Excused => u \in Excused',
         t \notin Excused' => Once(t)', pc' # "panic"
  PROVE  UniqueInv'
  <1>1. \A h \in Groups, d \in DirNames :
            disk'[h][d] = IF h = g /\ d = Dir(t) THEN v ELSE disk[h][d]
    BY MoveParts, PutWrites
  <1>2. ASSUME NEW u \in Ids \ Excused', u # t
        PROVE  Once(u)'
    <2>1. Once(u)
      BY <1>2 DEF UniqueInv
    <2>2. \A h \in Groups, d \in DirNames : disk'[h][d] = u => disk[h][d] = u
      BY <1>1, <1>2, Names
    <2>3. QED
      BY <2>1, <2>2 DEF Once
  <1>3. QED
    BY <1>2 DEF UniqueInv, PanicNeedsHalfMove

\* A step that writes no thread where there was none keeps them apart.
LEMMA SameUnique ==
  ASSUME UniqueInv, Excused \subseteq Excused', pc' # "panic",
         \A h \in Groups, d \in DirNames : disk'[h][d] \in Ids => disk'[h][d] = disk[h][d]
  PROVE  UniqueInv'
  <1>1. \A u \in Ids : Once(u) => Once(u)'
    BY DEF Once
  <1>2. QED
    BY <1>1 DEF UniqueInv, PanicNeedsHalfMove

\* No step leaves a thread on disk twice, but a move that stops half way.
LEMMA UniqueStep ==
  ASSUME TypeOK, LoadInv, MoveInv, IdInv, HeldInv, UniqueInv, [Next]_vars
  PROVE  UniqueInv'
  <1>1. CASE /\ UNCHANGED disk
             /\ Excused \subseteq Excused'
             /\ pc' = "panic" => Reconcile \/ (pc = "panic" /\ UNCHANGED groups /\ halfMoved \subseteq halfMoved')
    <2>1. CASE pc' # "panic"
      BY <1>1, <2>1, SameUnique
    <2>2. ASSUME NEW t \in Ids \ Excused'
          PROVE  Once(t)'
      BY <1>1, <2>2 DEF UniqueInv, Once
    <2>3. CASE pc = "panic" /\ UNCHANGED groups /\ halfMoved \subseteq halfMoved'
      BY <2>2, <2>3 DEF UniqueInv, PanicNeedsHalfMove
    <2>4. CASE Reconcile
      <3>1. pc = "reconciling" /\ UNCHANGED <<halfMoved, groups>>
        BY <2>4 DEF Reconcile, history
      <3>2. \A g \in Groups : groups[g] = Stored(g)
        BY <3>1 DEF LoadInv, LoadedGroups, Copied, Up
      <3>3. Excused = halfMoved
        BY <3>1 DEF Excused, Halfway
      <3>4. ASSUME NEW t \in groups[Main] \cap groups[Archive]
            PROVE  t \in halfMoved
        <4>1. t \in Ids /\ disk[Main][Dir(t)] = t /\ disk[Archive][Dir(t)] = t
          BY <3>2, <3>4, Names DEF Stored, OnDisk
        <4>2. ~Once(t)
          BY <4>1, Names DEF Once
        <4>3. QED
          BY <3>3, <4>1, <4>2 DEF UniqueInv
      <3>5. QED
        BY <2>2, <3>1, <3>4 DEF UniqueInv, PanicNeedsHalfMove
    <2>5. QED
      BY <1>1, <2>1, <2>3, <2>4
  <1>2. ASSUME NEW m \in LegacyDirs, MigrateDir(m)
        PROVE  UniqueInv'
    <2> DEFINE g == Loading
    <2>1. pc = "migrating" /\ halfMoved' = halfMoved
      BY <1>2 DEF MigrateDir, history
    <2>2. pc' \in {"migrating", "failed"} /\ g \in Groups /\ m \in DirNames
      BY <1>2, <2>1, MigrateWrites, Names
    <2>3. Excused' = Excused /\ pc' # "panic"
      BY <2>1, <2>2 DEF Excused, Halfway
    <2>4. /\ \A h \in Groups \ {g} : disk'[h] = disk[h]
          /\ disk'[g][ScratchDir] \in {NoThread, disk[g][ScratchDir]}
          /\ \/ \E id \in Ids :
                  /\ disk[g][Dir(id)] = Absent
                  /\ disk'[g][Dir(id)] = disk[g][m] /\ disk'[g][m] = Absent
                  /\ \A d \in DirNames \ {Dir(id), m, ScratchDir} : disk'[g][d] = disk[g][d]
             \/ \A d \in DirNames \ {ScratchDir} : disk'[g][d] = disk[g][d]
      BY <1>2, MigrateWrites
    <2>5. CASE \E id \in Ids :
                 /\ disk[g][Dir(id)] = Absent
                 /\ disk'[g][Dir(id)] = disk[g][m] /\ disk'[g][m] = Absent
                 /\ \A d \in DirNames \ {Dir(id), m, ScratchDir} : disk'[g][d] = disk[g][d]
      <3>1. PICK id \in Ids :
                 /\ disk[g][Dir(id)] = Absent
                 /\ disk'[g][Dir(id)] = disk[g][m] /\ disk'[g][m] = Absent
                 /\ \A d \in DirNames \ {Dir(id), m, ScratchDir} : disk'[g][d] = disk[g][d]
        BY <2>5
      <3> DEFINE From(h, d) == IF h = g /\ d = Dir(id) THEN m ELSE d
      <3>2. \A h \in Groups, d \in DirNames : disk'[h][d] \in Ids =>
                /\ From(h, d) \in DirNames /\ disk[h][From(h, d)] = disk'[h][d]
                /\ h = g => d # m
        BY <2>2, <2>4, <3>1, Names
      <3>3. \A h \in Groups, d, e \in DirNames :
                disk'[h][d] \in Ids /\ disk'[h][e] \in Ids /\ From(h, d) = From(h, e) => d = e
        BY <3>2
      <3>4. ASSUME NEW t \in Ids, Once(t)
            PROVE  Once(t)'
        <4> SUFFICES ASSUME NEW h \in Groups, NEW k \in Groups, NEW d \in DirNames, NEW e \in DirNames,
                            disk'[h][d] = t, disk'[k][e] = t
                     PROVE  h = k /\ d = e
          BY DEF Once
        <4>1. /\ From(h, d) \in DirNames /\ disk[h][From(h, d)] = t
              /\ From(k, e) \in DirNames /\ disk[k][From(k, e)] = t
          BY <3>2
        <4>2. h = k /\ From(h, d) = From(k, e)
          BY <3>4, <4>1 DEF Once
        <4>3. QED
          BY <3>3, <4>2
      <3>5. QED
        BY <2>3, <3>4 DEF UniqueInv, PanicNeedsHalfMove
    <2>6. CASE \A d \in DirNames \ {ScratchDir} : disk'[g][d] = disk[g][d]
      <3>1. \A h \in Groups, d \in DirNames : disk'[h][d] \in Ids => disk'[h][d] = disk[h][d]
        BY <2>2, <2>4, <2>6, Names
      <3>2. QED
        BY <2>3, <3>1, SameUnique
    <2>7. QED
      BY <2>4, <2>5, <2>6
  <1>3. ASSUME NEW f \in DirNames, ScanFail(f)
        PROVE  UniqueInv'
    <2>1. pc = "scanning" /\ pc' = "failed" /\ halfMoved' = halfMoved
      BY <1>3 DEF ScanFail, history
    <2>2. \A h \in Groups, d \in DirNames : disk'[h][d] \in Ids => disk'[h][d] = disk[h][d]
      <3>1. CASE UNCHANGED disk
        BY <3>1
      <3>2. CASE disk' = [disk EXCEPT ![Loading] = SaveNamelessThread(Loading)]
        BY <3>2, MoveParts, Order, Names DEF SaveNamelessThread, Disks, TypeOK
      <3>3. QED
        BY <1>3, <3>1, <3>2 DEF ScanFail
    <2>3. Excused \subseteq Excused' /\ pc' # "panic"
      BY <2>1 DEF Excused, Halfway
    <2>4. QED
      BY <2>2, <2>3, SameUnique
  <1>4. ASSUME NEW g \in Groups, NewThread(g) \/ NewThreadFail(g)
        PROVE  UniqueInv'
    <2>1. PICK id \in Ids : id = threadNum + 1
      BY <1>4 DEF NewThread, NewThreadFail
    <2>2. /\ pc = "menu" /\ pc' \in {"menu", "down"} /\ halfMoved' = halfMoved
          /\ disk' \in {disk, Put(g, id, id), Put(g, id, NoThread)}
      BY <1>4, <2>1 DEF NewThread, NewThreadFail, Quit, Saved, Cut, history
    <2>3. Excused' = Excused /\ pc' # "panic"
      BY <2>2 DEF Excused, Halfway
    <2>4. \A h \in Groups : Clean(h) /\ disk[h][Dir(id)] = Absent
      BY <2>1, <2>2, NewIdFree
    <2>5. disk' # disk => Once(id)'
      BY <2>2, <2>4, MoveParts, Names, PutOnce
    <2>6. CASE disk' = disk
      BY <2>3, <2>6, SameUnique
    <2>7. CASE disk' # disk
      BY <2>2, <2>3, <2>4, <2>5, <2>7, PutUnique
    <2>8. QED
      BY <2>6, <2>7
  <1>5. ASSUME NEW t \in Ids, NEW g \in Groups, EndRun(t, g) \/ SaveIdle(t, g)
        PROVE  UniqueInv'
    <2>1. /\ pc \in Up /\ t \in groups[g] /\ SaveOwn(g, t)
          /\ pc \in Copied \cup {"removed"} => t # move[1]
      BY <1>5 DEF EndRun, SaveIdle, MoveInv, Up, Copied, Moving
    <2>2. disk' \in {disk, Put(g, t, t), Put(g, t, NoThread)} /\ halfMoved' = halfMoved
      BY <2>1 DEF SaveOwn, Saved, Cut
    <2>3. Excused' = Excused /\ pc' # "panic"
      <3>1. CASE UNCHANGED <<pc, move>>
        BY <2>1, <2>2, <3>1 DEF Excused, Halfway, Up
      <3>2. CASE pc = "menu" /\ pc' = "down"
        BY <2>2, <3>2 DEF Excused, Halfway
      <3>3. QED
        BY <1>5, <3>1, <3>2 DEF EndRun, SaveIdle, Quit
    <2>4. /\ \A h \in Groups : Clean(h)
          /\ \A h \in Groups \ {g} : disk[h][Dir(t)] = Absent
      BY <2>1, UpFacts, OwnGroup
    <2>5. disk' # disk => Once(t)'
      BY <2>2, <2>4, MoveParts, Names, PutOnce
    <2>6. CASE disk' = disk
      BY <2>3, <2>6, SameUnique
    <2>7. CASE disk' # disk
      BY <2>2, <2>3, <2>4, <2>5, <2>7, PutUnique
    <2>8. QED
      BY <2>6, <2>7
  <1>6. CASE MoveSave \/ MoveRemove \/ MoveUndo \/ TornRemove
    <2>1. pc \in Moving \ {"removed"}
      BY <1>6 DEF MoveSave, MoveRemove, MoveUndo, TornRemove, Moving
    <2>2. /\ disk \in Disks /\ \A h \in Groups : Clean(h)
          /\ move[1] \in Ids /\ move[2] \in Groups /\ move[3] \in Groups
      BY <2>1, MovedEntry
    <2>3. PICK t \in Ids, src \in Groups, dst \in Groups :
            t = move[1] /\ src = move[2] /\ dst = move[3]
      BY <2>2
    <2>4. pc' # "panic" /\ \A u \in Ids \ {t} : u \in Excused => u \in Excused'
      <3>1. /\ halfMoved \subseteq halfMoved' /\ Halfway \subseteq {t}
            /\ pc' \in {"down", "saved", "removed", "undoing"}
        BY <1>6, <2>3 DEF MoveSave, MoveRemove, MoveUndo, TornRemove, Quit, Halfway, history
      <3>2. QED
        BY <3>1 DEF Excused
    <2>5. \/ UNCHANGED disk /\ Excused \subseteq Excused'
          \/ \E g \in Groups, v \in {Absent, NoThread} : disk' = Put(g, t, v)
          \/ disk' = Put(dst, t, t) /\ pc' = "saved" /\ move' = move
      <3>1. CASE MoveSave
        BY <2>3, <3>1 DEF MoveSave, Quit, Saved, Cut, Excused, Halfway, history
      <3>2. CASE MoveRemove
        BY <2>3, <3>2 DEF MoveRemove, Removed, Cut, Excused, Halfway
      <3>3. CASE MoveUndo
        BY <2>3, <3>3 DEF MoveUndo, Removed, Cut, Excused, Halfway
      <3>4. CASE TornRemove
        BY <2>3, <3>4 DEF TornRemove, Cut
      <3>5. QED
        BY <1>6, <3>1, <3>2, <3>3, <3>4
    <2>6. CASE UNCHANGED disk /\ Excused \subseteq Excused'
      BY <2>4, <2>6, SameUnique
    <2>7. ASSUME NEW g \in Groups, NEW v \in {Absent, NoThread}, disk' = Put(g, t, v)
          PROVE  UniqueInv'
      <3>1. v # t /\ v \in {t, Absent, NoThread}
        BY Names
      <3>2. Once(t)'
        BY <2>2, <2>7, <3>1, PutOnce
      <3>3. QED
        BY <2>2, <2>4, <2>7, <3>1, <3>2, PutUnique
    <2>8. CASE disk' = Put(dst, t, t) /\ pc' = "saved" /\ move' = move
      <3>1. t \in Excused'
        BY <2>3, <2>8 DEF Excused, Halfway
      <3>2. QED
        BY <2>2, <2>4, <2>8, <3>1, PutUnique
    <2>9. QED
      BY <2>5, <2>6, <2>7, <2>8
  <1>7. ASSUME NEW t \in Ids, NEW g \in Groups, TornSave(t, g)
        PROVE  UniqueInv'
    <2>1. disk' = Put(g, t, NoThread) /\ halfMoved' = halfMoved \cup Halfway /\ pc' = "down"
      BY <1>7 DEF TornSave, Cut, Quit
    <2>2. pc \in Up /\ disk \in Disks /\ \A h \in Groups : Clean(h)
      <3>1. pc \in Up
        BY <1>7 DEF TornSave, MoveInv, Up
      <3>2. QED
        BY <3>1, UpFacts
    <2>3. Excused \subseteq Excused' /\ pc' # "panic"
      BY <2>1 DEF Excused
    <2>4. Once(t)'
      BY <2>1, <2>2, PutOnce, Names
    <2>5. QED
      BY <2>1, <2>2, <2>3, <2>4, PutUnique
  <1>8. QED
    BY <1>1, <1>2, <1>3, <1>4, <1>5, <1>6, <1>7, DiskFrame DEF Writes

-----------------------------------------------------------------------------
(* Results.                                                                *)

\* Legacy directories hold one thread each, and nothing is loaded yet.
LEMMA InitInv == Init => Inv
  <1> SUFFICES ASSUME Init
               PROVE  Inv
    OBVIOUS
  <1>1. PICK idOf \in [LegacyDirs -> Ids \cup (IF LegacyMayLackId THEN {NoId} ELSE {})] :
          /\ \A d, e \in LegacyDirs : d # e /\ idOf[d] # NoId => idOf[d] # idOf[e]
          /\ disk = [g \in Groups |-> [d \in DirNames |->
                        IF g = Main /\ d \in LegacyDirs THEN idOf[d] ELSE Absent]]
          /\ created = {idOf[d] : d \in LegacyDirs} \ {NoId}
    BY DEF Init
  <1>2. idOf \in [LegacyDirs -> Ids \cup {NoId}]
    BY <1>1
  <1>3. /\ \A d \in LegacyDirs : idOf[d] \in Ids \cup {NoId}
        /\ \A g \in Groups, d \in DirNames :
              disk[g][d] = IF g = Main /\ d \in LegacyDirs THEN idOf[d] ELSE Absent
    BY <1>1, <1>2
  <1>4. disk \in Disks /\ created \subseteq Ids
    <2>1. \A g \in Groups, d \in DirNames :
            (IF g = Main /\ d \in LegacyDirs THEN idOf[d] ELSE Absent) \in Entries
      BY <1>3 DEF Entries
    <2>2. disk \in Disks
      BY <1>1, <2>1 DEF Disks
    <2>3. created \subseteq Ids
      BY <1>1, <1>3
    <2>4. QED
      BY <2>2, <2>3
  <1>5. TypeOK
    <2>1. /\ threadNum = 0 /\ groups = [g \in Groups |-> {}] /\ running = {}
          /\ sandbox = [t \in Ids |-> "none"] /\ pc = "down" /\ loadAt = 1
          /\ move = NoMove /\ consent = FALSE /\ cut = {} /\ halfMoved = {}
      BY DEF Init
    <2>2. threadNum \in 0 .. MaxId /\ loadAt \in 1 .. Len(LoadOrder)
      BY <2>1, Order, GroupAssumption
    <2>3. /\ groups \in [Groups -> SUBSET Ids] /\ running \subseteq Ids
          /\ sandbox \in [Ids -> {"none", "clean", "dirty"}] /\ pc \in Steps
          /\ cut \subseteq Ids /\ halfMoved \subseteq Ids
      BY <2>1 DEF Steps
    <2>4. move \in (Ids \cup {0}) \X Groups \X Groups
      BY <2>1, Names DEF NoMove
    <2>5. consent \in BOOLEAN
      BY <2>1
    <2>6. QED
      BY <1>4, <2>2, <2>3, <2>4, <2>5 DEF TypeOK, Disks, Entries
  <1>6. LoadInv /\ MoveInv /\ IdInv
    BY DEF Init, LoadInv, LoadedGroups, MoveInv, IdInv, Up, Moving
  <1>7. HeldInv
    <2>1. ASSUME NEW t \in created
          PROVE  Held(t)
      <3>1. PICK d \in LegacyDirs : t = idOf[d]
        BY <1>1, <2>1
      <3>2. disk[Main][d] = t
        BY <1>3, <3>1, Names
      <3>3. QED
        BY <3>1, <3>2, Names DEF Held
    <2>2. QED
      BY <2>1 DEF HeldInv, Safe
  <1>8. UniqueInv
    <2>1. \A t \in Ids : Once(t)
      BY <1>1, <1>3, Names DEF Once
    <2>2. QED
      BY <2>1 DEF UniqueInv, PanicNeedsHalfMove, Init
  <1>9. QED
    BY <1>5, <1>6, <1>7, <1>8 DEF Inv

\* The maps in memory, the directories on disk and the thread being moved agree
\* whatever happens between two file operations.
THEOREM InvCorrect == Spec => []Inv
  <1>1. Inv /\ [Next]_vars => Inv'
    BY TypeStep, MapsStep, HeldStep, UniqueStep DEF Inv
  <1>2. QED
    BY InitInv, <1>1, PTL DEF Spec

\* Every variable keeps its type: a move names two groups and a thread, a map
\* holds only ids that can be drawn.
THEOREM TypeCorrect == Spec => []TypeOK
  BY InvCorrect, PTL DEF Inv

\* Migrating, loading, creating and moving threads, with a crash or a failure at any
\* file operation, never lose the thread.json of a thread, unless a save or a
\* removal of that very file, in the group the thread is in, stopped half way.
THEOREM LossCorrect == Spec => []LossNeedsCut
  <1>1. Inv => LossNeedsCut
    BY DEF Inv, HeldInv, Safe, Held, LossNeedsCut
  <1>2. QED
    BY <1>1, InvCorrect, PTL

\* Whenever the menu is shown, the maps of the two groups are disjoint, are what
\* the directories hold, and leave out no thread of the user.
THEOREM OneHomeCorrect == Spec => []OneHome
  <1>1. ASSUME Inv, pc = "menu"
        PROVE  /\ groups[Main] \cap groups[Archive] = {}
               /\ created \subseteq groups[Main] \cup groups[Archive]
               /\ \A g \in Groups : /\ groups[g] = {t \in Ids : disk[g][Dir(t)] # Absent}
                                    /\ \A t \in groups[g] \ cut : OnDisk(g, t)
    <2>1. pc \in Up /\ pc \notin Copied \cup {"removed"}
      BY <1>1 DEF Up, Copied
    <2>2. \A g \in Groups : Clean(g) /\ groups[g] = Dirs(g)
      BY <1>1, <2>1, UpFacts DEF Inv
    <2>3. groups[Main] \cap groups[Archive] = {}
      BY <1>1, <2>1 DEF Inv, IdInv
    <2>4. ASSUME NEW t \in created
          PROVE  t \in groups[Main] \cup groups[Archive]
      <3>1. t \in Ids /\ Safe(t)
        BY <1>1, <2>4 DEF Inv, TypeOK, HeldInv
      <3>2. PICK g \in Groups : disk[g][Dir(t)] # Absent
        <4>1. CASE Garbled(t)
          BY <4>1, Names DEF Garbled
        <4>2. CASE Held(t)
          <5>1. PICK g \in Groups, d \in DirNames : disk[g][d] = t
            BY <4>2 DEF Held
          <5>2. PICK u \in Ids : d = Dir(u) /\ Entry(g, u)
            BY <2>2, <3>1, <5>1, Names DEF Clean
          <5>3. u = t
            BY <3>1, <5>1, <5>2, Names DEF Entry
          <5>4. QED
            BY <3>1, <5>1, <5>2, <5>3, Names
        <4>3. QED
          BY <3>1, <4>1, <4>2 DEF Safe
      <3>3. t \in groups[g]
        BY <2>2, <3>1, <3>2 DEF Dirs
      <3>4. QED
        BY <3>3, Names
    <2>5. ASSUME NEW g \in Groups, NEW t \in groups[g] \ cut
          PROVE  OnDisk(g, t)
      <3>1. t \in Ids /\ disk[g][Dir(t)] # Absent /\ Dir(t) \in DirNames
        BY <2>2, Names DEF Dirs
      <3>2. PICK u \in Ids : Dir(t) = Dir(u) /\ Entry(g, u)
        BY <2>2, <3>1 DEF Clean
      <3>3. QED
        BY <3>1, <3>2, Names DEF Entry, OnDisk
    <2>6. QED
      BY <2>2, <2>3, <2>4, <2>5 DEF Dirs
  <1>2. Inv => OneHome
    BY <1>1 DEF OneHome
  <1>3. QED
    BY <1>2, InvCorrect, PTL

\* The assertion at the start fails only for threads whose move stopped between
\* the copy and the removal, or failed to undo the copy: no migration, creation or
\* save, and no other failure of a move, leaves a thread in two groups.
THEOREM PanicCorrect == Spec => []PanicNeedsHalfMove
  <1>1. Inv => PanicNeedsHalfMove
    BY DEF Inv, UniqueInv
  <1>2. QED
    BY <1>1, InvCorrect, PTL

-----------------------------------------------------------------------------
(* Threads without an id.                                                  *)

\* There are finitely many directories to count.
LEMMA FiniteDisk == IsFiniteSet(Groups \X DirNames)
  <1>1. IsFiniteSet(LegacyDirs)
    <2> DEFINE f == [l \in LegacyNames |-> <<"legacy", l>>]
    <2>1. f \in Surjection(LegacyNames, LegacyDirs)
      BY DEF Surjection, LegacyDirs
    <2>2. QED
      BY <2>1, FS_Surjection, GroupAssumption
  <1>2. IsFiniteSet({Dir(id) : id \in Ids})
    <2> DEFINE f == [id \in Ids |-> Dir(id)]
    <2>1. f \in Surjection(Ids, {Dir(id) : id \in Ids})
      BY DEF Surjection
    <2>2. IsFiniteSet(Ids)
      BY FS_Interval, GroupAssumption DEF Ids
    <2>3. QED
      BY <2>1, <2>2, FS_Surjection
  <1>3. IsFiniteSet(DirNames)
    <2>1. IsFiniteSet({Dir(id) : id \in Ids} \cup LegacyDirs)
      BY <1>1, <1>2, FS_Union
    <2>2. QED
      BY <2>1, FS_AddElement DEF DirNames
  <1>4. IsFiniteSet(Groups)
    <2>1. IsFiniteSet({Main})
      BY FS_Singleton
    <2>2. IsFiniteSet({Main} \cup {Archive}) /\ Groups = {Main} \cup {Archive}
      BY <2>1, FS_AddElement DEF Groups
    <2>3. QED
      BY <2>2
  <1>5. QED
    BY <1>3, <1>4, FS_Product

\* Nameless threads that stay where they are, or of which one moves to a free
\* place, are counted as before.
LEMMA NamelessCount ==
  ASSUME \/ Nameless \subseteq Nameless'
         \/ \E x, y : Nameless' = (Nameless \ {x}) \cup {y} /\ x \in Nameless /\ y \notin Nameless
  PROVE  Cardinality(Nameless') >= Cardinality(Nameless)
  <1>1. Nameless \in SUBSET (Groups \X DirNames) /\ Nameless' \in SUBSET (Groups \X DirNames)
    BY DEF Nameless
  <1>2. /\ IsFiniteSet(Nameless) /\ IsFiniteSet(Nameless')
        /\ Cardinality(Nameless) \in Nat /\ Cardinality(Nameless') \in Nat
    BY <1>1, FiniteDisk, FS_Subset, FS_CardinalityType
  <1>3. CASE Nameless \subseteq Nameless'
    <2>1. Cardinality(Nameless) <= Cardinality(Nameless')
      BY <1>2, <1>3, FS_Subset
    <2>2. QED
      BY <1>2, <2>1
  <1>4. CASE \E x, y : /\ Nameless' = (Nameless \ {x}) \cup {y}
                       /\ x \in Nameless /\ y \notin Nameless
    <2>1. PICK x, y : /\ Nameless' = (Nameless \ {x}) \cup {y}
                      /\ x \in Nameless /\ y \notin Nameless
      BY <1>4
    <2>2. IsFiniteSet(Nameless \ {x}) /\ Cardinality(Nameless \ {x}) = Cardinality(Nameless) - 1
      BY <1>2, <2>1, FS_RemoveElement
    <2>3. Cardinality((Nameless \ {x}) \cup {y}) = Cardinality(Nameless \ {x}) + 1
      BY <2>1, <2>2, FS_AddElement
    <2>4. QED
      BY <1>2, <2>1, <2>2, <2>3
  <1>5. QED
    BY <1>3, <1>4

\* A step that leaves every directory that holds a nameless thread alone.
LEMMA NamelessStays ==
  ASSUME \A g \in Groups, d \in DirNames : disk[g][d] = NoId => disk'[g][d] = NoId
  PROVE  Nameless \subseteq Nameless'
  BY DEF Nameless

\* A migration moves a nameless thread to a free name, a scan leaves it, and no
\* other step writes while there is one.
LEMMA NamelessStep ==
  ASSUME Inv, [Next]_vars
  PROVE  Cardinality(Nameless') >= Cardinality(Nameless)
  <1>1. CASE UNCHANGED disk
    BY <1>1, NamelessStays, NamelessCount
  <1>2. ASSUME NEW m \in LegacyDirs, MigrateDir(m)
        PROVE  Cardinality(Nameless') >= Cardinality(Nameless)
    <2> DEFINE g == Loading
    <2>1. g \in Groups /\ m \in DirNames /\ m # ScratchDir
      BY <1>2, MigrateWrites, Names DEF Inv
    <2>2. /\ \A h \in Groups \ {g} : disk'[h] = disk[h]
          /\ disk'[g][ScratchDir] = IF disk[g][m] = NoId /\ disk[g][ScratchDir] = Absent
                                    THEN NoThread ELSE disk[g][ScratchDir]
          /\ \/ \E id \in Ids :
                  /\ disk[g][Dir(id)] = Absent
                  /\ disk'[g][Dir(id)] = disk[g][m] /\ disk'[g][m] = Absent
                  /\ \A d \in DirNames \ {Dir(id), m, ScratchDir} : disk'[g][d] = disk[g][d]
             \/ \A d \in DirNames \ {ScratchDir} : disk'[g][d] = disk[g][d]
      BY <1>2, MigrateWrites DEF Inv
    <2>3. /\ disk[g][ScratchDir] = NoId <=> disk'[g][ScratchDir] = NoId
          /\ \A h \in Groups \ {g}, d \in DirNames : disk'[h][d] = disk[h][d]
      BY <2>2, Names
    <2>4. CASE \A d \in DirNames \ {ScratchDir} : disk'[g][d] = disk[g][d]
      BY <2>3, <2>4, NamelessStays, NamelessCount
    <2>5. CASE \E id \in Ids :
                  /\ disk[g][Dir(id)] = Absent
                  /\ disk'[g][Dir(id)] = disk[g][m] /\ disk'[g][m] = Absent
                  /\ \A d \in DirNames \ {Dir(id), m, ScratchDir} : disk'[g][d] = disk[g][d]
      <3>1. PICK id \in Ids :
                  /\ disk[g][Dir(id)] = Absent
                  /\ disk'[g][Dir(id)] = disk[g][m] /\ disk'[g][m] = Absent
                  /\ \A d \in DirNames \ {Dir(id), m, ScratchDir} : disk'[g][d] = disk[g][d]
        BY <2>5
      <3>2. CASE disk[g][m] # NoId
        <4>1. \A d \in DirNames : disk[g][d] = NoId => disk'[g][d] = NoId
          BY <2>3, <3>1, <3>2, Names
        <4>2. QED
          BY <2>3, <4>1, NamelessStays, NamelessCount
      <3>3. CASE disk[g][m] = NoId
        <4>1. <<g, m>> \in Nameless /\ <<g, Dir(id)>> \notin Nameless
          BY <2>1, <3>1, <3>3, Names DEF Nameless
        <4>2. \A d \in DirNames : disk'[g][d] = NoId <=>
                  (disk[g][d] = NoId /\ d # m) \/ d = Dir(id)
          BY <2>1, <2>3, <3>1, <3>3, Names
        <4>3. ASSUME NEW h \in Groups, NEW d \in DirNames
              PROVE  <<h, d>> \in Nameless' <=>
                       (<<h, d>> \in Nameless /\ <<h, d>> # <<g, m>>) \/ <<h, d>> = <<g, Dir(id)>>
          <5>1. CASE h = g
            BY <4>2, <5>1 DEF Nameless
          <5>2. CASE h # g
            BY <2>3, <5>2 DEF Nameless
          <5>3. QED
            BY <5>1, <5>2
        <4>4. /\ Nameless \subseteq Groups \X DirNames /\ Nameless' \subseteq Groups \X DirNames
              /\ <<g, Dir(id)>> \in Groups \X DirNames
          BY <2>1, Names DEF Nameless
        <4>5. Nameless' = (Nameless \ {<<g, m>>}) \cup {<<g, Dir(id)>>}
          <5>1. ASSUME NEW x \in Groups \X DirNames
                PROVE  x \in Nameless' <=> x \in (Nameless \ {<<g, m>>}) \cup {<<g, Dir(id)>>}
            <6>1. PICK h \in Groups, d \in DirNames : x = <<h, d>>
              OBVIOUS
            <6>2. QED
              BY <4>3, <6>1
          <5>2. QED
            BY <4>4, <5>1
        <4>6. QED
          BY <4>1, <4>5, NamelessCount
      <3>4. QED
        BY <3>2, <3>3
    <2>6. QED
      BY <2>2, <2>4, <2>5
  <1>3. ASSUME NEW f \in DirNames, ScanFail(f)
        PROVE  Cardinality(Nameless') >= Cardinality(Nameless)
    <2>1. \A h \in Groups, d \in DirNames : disk[h][d] = NoId => disk'[h][d] = NoId
      BY <1>3, ScanFailWrites, Names DEF Inv
    <2>2. QED
      BY <2>1, NamelessStays, NamelessCount
  <1>4. CASE pc \in Up
    <2>1. \A g \in Groups, d \in DirNames : disk[g][d] # NoId
      BY <1>4, UpFacts, Names DEF Inv, Clean, Entry
    <2>2. QED
      BY <2>1, NamelessStays, NamelessCount
  <1>5. QED
    <2>1. (\E g \in Groups : NewThread(g) \/ NewThreadFail(g)) => pc \in Up
      BY DEF NewThread, NewThreadFail, Up
    <2>2. (\E t \in Ids, g \in Groups : EndRun(t, g) \/ SaveIdle(t, g)) => pc \in Up
      BY DEF EndRun, SaveIdle, Up, Inv, MoveInv
    <2>3. MoveSave \/ MoveRemove \/ MoveUndo \/ TornRemove => pc \in Up
      BY DEF MoveSave, MoveRemove, MoveUndo, TornRemove, Up
    <2>4. (\E t \in Ids, g \in Groups : TornSave(t, g)) => pc \in Up
      BY DEF TornSave, Up, Inv, MoveInv
    <2>5. QED
      BY <1>1, <1>2, <1>3, <1>4, <2>1, <2>2, <2>3, <2>4, DiskFrame DEF Writes

\* However often loading fails, and whatever is created, moved or cut short
\* afterwards, the thread.json of a thread without an id is never overwritten.
THEOREM NamelessCorrect == Spec => NamelessKept
  <1>1. Inv /\ [Next]_vars => [Cardinality(Nameless') >= Cardinality(Nameless)]_vars
    BY NamelessStep
  <1>2. QED
    BY <1>1, InvCorrect, PTL DEF Spec, NamelessKept
=============================================================================
