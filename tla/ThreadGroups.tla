----------------------------- MODULE ThreadGroups -----------------------------
(***************************************************************************)
(* The thread groups of one octium process and the directories they are    *)
(* persisted in: loading them (with the migration of legacy directories),  *)
(* creating threads, and moving them between the main and the archive      *)
(* group from the menu, while worker goroutines run chats.                 *)
(*                                                                         *)
(* A group's directory maps the name of a thread directory to what its     *)
(* thread.json holds: an id, NoId when it predates ids, NoThread when the  *)
(* directory has no readable one, and Absent when there is no directory.   *)
(* ThreadIds models the allocation of ids among processes; here one        *)
(* process allocates them.                                                 *)
(***************************************************************************)
EXTENDS Integers, Sequences, FiniteSets

CONSTANTS MaxId,           \* bound on thread ids
          LegacyNames,     \* names of legacy thread directories (crc32_time)
          LegacyMayLackId, \* may a legacy thread.json predate ids?
          CrashMayHappen,  \* may the process die between two file operations?
          TornWrites       \* may it also die inside os.WriteFile?

ASSUME GroupAssumption == /\ MaxId \in Nat
                          /\ IsFiniteSet(LegacyNames)
                          /\ LegacyMayLackId \in BOOLEAN
                          /\ CrashMayHappen \in BOOLEAN
                          /\ TornWrites \in BOOLEAN

Ids       == 1 .. MaxId
NoId      == 0
Absent    == -1
NoThread  == -2
Main      == "main"
Archive   == "archive"
Groups    == {Main, Archive}
LoadOrder == <<Main, Archive>>

\* Directory names, tagged by kind: a thread id, a legacy name, or "scratch".
Dir(id)     == <<"id", id>>
LegacyDirs  == {<<"legacy", l>> : l \in LegacyNames}
ScratchDir  == <<"scratch", 0>>
DirNames    == {Dir(id) : id \in Ids} \cup LegacyDirs \cup {ScratchDir}

VARIABLES
    disk,       \* the directories of each group
    threadNum,  \* persisted.ThreadNum of the set
    groups,     \* ids in each group's threads map
    running,    \* threads in memory that are not idle
    sandbox,    \* workspace sandbox of each thread: "none", "clean" or "dirty"
    pc,         \* what the UI goroutine is doing
    loadAt,     \* group being loaded: index in LoadOrder
    move,       \* thread being moved, source and destination group
    consent,    \* did the user agree to discard the sandbox of that thread?
    created,    \* history: threads that exist for the user
    cut,        \* history: threads whose own thread.json, in the group they are in, a
                \* save or a removal destroyed that stopped half way
    halfMoved   \* history: threads that a move may have left in both groups

vars == <<disk, threadNum, groups, running, sandbox, pc, loadAt, move, consent, created,
          cut, halfMoved>>

history == <<cut, halfMoved>>

Steps == {"down", "failed", "panic", "migrating", "scanning", "reconciling", "menu",
          "clearing", "checking", "saved", "removing", "undoing", "removed"}

NoMove == <<0, Main, Main>>

\* Directories found when octium starts for the first time after an upgrade:
\* legacy directories in the main group, no two with the same id.
Init ==
    /\ \E idOf \in [LegacyDirs -> Ids \cup (IF LegacyMayLackId THEN {NoId} ELSE {})] :
          /\ \A d, e \in LegacyDirs : d # e /\ idOf[d] # NoId => idOf[d] # idOf[e]
          /\ disk = [g \in Groups |-> [d \in DirNames |->
                        IF g = Main /\ d \in LegacyDirs THEN idOf[d] ELSE Absent]]
          /\ created = {idOf[d] : d \in LegacyDirs} \ {NoId}
    /\ threadNum = 0
    /\ groups = [g \in Groups |-> {}]
    /\ running = {}
    /\ sandbox = [t \in Ids |-> "none"]
    /\ pc = "down" /\ loadAt = 1 /\ move = NoMove /\ consent = FALSE
    /\ cut = {} /\ halfMoved = {}

OnDisk(g, t) == disk[g][Dir(t)] = t
Present(g)   == {d \in DirNames : disk[g][d] # Absent}
Loading      == LoadOrder[loadAt]

\* saveWithDir rewrites a thread.json in place and removeWithDir removes a
\* directory entry by entry: each ends well, changes nothing, or leaves a
\* directory without a readable thread.json.
Put(g, t, v)  == [disk EXCEPT ![g][Dir(t)] = v]
Saved(g, t)   == Put(g, t, t)
Removed(g, t) == Put(g, t, Absent)
Cut(g, t)     == Put(g, t, NoThread)

\* An error of the menu's operations ends the program; what was running is lost.
Quit == /\ pc' = "down"
        /\ running' = {}
        /\ groups' = [g \in Groups |-> {}]
        /\ move' = NoMove /\ consent' = FALSE

-----------------------------------------------------------------------------
(* Load.                                                                   *)

\* main() loads the set; after a failure the configuration menu loads it again.
Load ==
    /\ pc \in {"down", "failed"}
    /\ pc' = "migrating" /\ loadAt' = 1
    /\ UNCHANGED <<disk, threadNum, groups, running, sandbox, move, consent, created, history>>

\* thread.load of a thread without id draws a new one and saves the thread
\* while dirName is still empty: the file lands in the group's own directory,
\* next to a scratch directory, and the thread's directory keeps its old one.
SaveNamelessThread(g) == [disk[g] EXCEPT ![ScratchDir] = IF @ = Absent THEN NoThread ELSE @]

\* Faulty variant: the destination is not checked before the rename.
MigrateDir_Overwrite(d) ==
    LET g  == Loading
        id == IF disk[g][d] = NoId THEN threadNum + 1 ELSE disk[g][d]
        saved == IF disk[g][d] = NoId THEN SaveNamelessThread(g) ELSE disk[g]
    IN  /\ pc = "migrating"
        /\ disk[g][d] # Absent
        /\ id \in Ids
        /\ threadNum' = IF disk[g][d] = NoId THEN id ELSE threadNum
        /\ disk' = [disk EXCEPT ![g] = [saved EXCEPT ![Dir(id)] = saved[d], ![d] = Absent]]
        /\ UNCHANGED <<pc, groups, running, sandbox, loadAt, move, consent, created, history>>

\* migrateOldThreadDirs, for one legacy directory; the rename may fail.
MigrateDir(d) ==
    LET g  == Loading
        id == IF disk[g][d] = NoId THEN threadNum + 1 ELSE disk[g][d]
        saved == IF disk[g][d] = NoId THEN SaveNamelessThread(g) ELSE disk[g]
    IN  /\ pc = "migrating"
        /\ disk[g][d] # Absent
        /\ id \in Ids
        /\ threadNum' = IF disk[g][d] = NoId THEN id ELSE threadNum
        /\ \/ /\ saved[Dir(id)] = Absent
              /\ disk' = [disk EXCEPT ![g] = [saved EXCEPT ![Dir(id)] = saved[d], ![d] = Absent]]
              /\ UNCHANGED pc
           \/ disk' = [disk EXCEPT ![g] = saved] /\ pc' = "failed"
        /\ UNCHANGED <<groups, running, sandbox, loadAt, move, consent, created, history>>

MigrateDone ==
    /\ pc = "migrating"
    /\ Present(Loading) \cap LegacyDirs = {}
    /\ pc' = "scanning"
    /\ UNCHANGED <<disk, threadNum, groups, running, sandbox, loadAt, move, consent, created, history>>

\* LoadThreads after the migration: every directory must hold a thread whose
\* id is the directory's name.
ScanOk ==
    /\ pc = "scanning"
    /\ \A d \in Present(Loading) : disk[Loading][d] \in Ids /\ d = Dir(disk[Loading][d])
    /\ groups' = [groups EXCEPT ![Loading] = {disk[Loading][d] : d \in Present(Loading)}]
    /\ IF loadAt = Len(LoadOrder)
       THEN pc' = "reconciling" /\ UNCHANGED loadAt
       ELSE pc' = "migrating" /\ loadAt' = loadAt + 1
    /\ UNCHANGED <<disk, threadNum, running, sandbox, move, consent, created, history>>

ScanFail(d) ==
    LET g == Loading
    IN  /\ pc = "scanning"
        /\ d \in Present(g)
        /\ d # Dir(disk[g][d])
        /\ IF disk[g][d] = NoId
           THEN /\ threadNum < MaxId
                /\ threadNum' = threadNum + 1
                /\ disk' = [disk EXCEPT ![g] = SaveNamelessThread(g)]
           ELSE UNCHANGED <<threadNum, disk>>
        /\ groups' = [groups EXCEPT ![g] = {}]
        /\ pc' = "failed"
        /\ UNCHANGED <<running, sandbox, loadAt, move, consent, created, history>>

\* A directory or a file cannot be read, or the id file cannot be written.
LoadFail ==
    /\ pc \in {"migrating", "scanning", "reconciling"}
    /\ groups' = IF pc = "scanning" THEN [groups EXCEPT ![Loading] = {}] ELSE groups
    /\ pc' = "failed"
    /\ UNCHANGED <<disk, threadNum, running, sandbox, loadAt, move, consent, created, history>>

\* reconcileThreadNumFromLoadedThreads panics on a thread in two groups.
Reconcile ==
    /\ pc = "reconciling"
    /\ IF groups[Main] \cap groups[Archive] # {}
       THEN pc' = "panic" /\ UNCHANGED threadNum
       ELSE /\ pc' = "menu"
            /\ \E m \in groups[Main] \cup groups[Archive] \cup {threadNum} :
                  /\ \A id \in groups[Main] \cup groups[Archive] \cup {threadNum} : id <= m
                  /\ threadNum' = m
    /\ UNCHANGED <<disk, groups, running, sandbox, loadAt, move, consent, created, history>>

-----------------------------------------------------------------------------
(* The menu and the thread view.                                           *)

\* NewThread in the group on screen: draw an id, save the thread, register it.
NewThread(g) ==
    LET id == threadNum + 1
    IN  /\ pc = "menu"
        /\ id \in Ids
        /\ threadNum' = id
        /\ disk' = Saved(g, id)
        /\ groups' = [groups EXCEPT ![g] = @ \cup {id}]
        /\ created' = created \cup {id}
        /\ UNCHANGED <<running, sandbox, pc, loadAt, move, consent, history>>

\* The save of thread.json fails, or that of ws.json after it.
NewThreadFail(g) ==
    LET id == threadNum + 1
    IN  /\ pc = "menu"
        /\ id \in Ids
        /\ threadNum' = id
        /\ disk' \in {disk, Saved(g, id), Cut(g, id)}
        /\ Quit
        /\ UNCHANGED <<sandbox, loadAt, created, history>>

\* thread.save of a thread in its own group.
SaveOwn(g, t) ==
    /\ \/ disk' \in {Saved(g, t), disk} /\ UNCHANGED cut
       \/ disk' = Cut(g, t) /\ cut' = cut \cup {t}
    /\ UNCHANGED halfMoved

\* Access saves an idle thread that is opened or left, and Rename one that is
\* renamed.  Not every caller of Access ends the program when it fails.
SaveIdle(t, g) ==
    /\ pc = "menu"
    /\ t \in groups[g] \ running
    /\ SaveOwn(g, t)
    /\ \/ UNCHANGED <<groups, running, pc, move, consent>>
       \/ disk' # Saved(g, t) /\ Quit
    /\ UNCHANGED <<threadNum, sandbox, loadAt, created>>

\* A chat starts in an idle thread of the main group (archived ones are
\* read-only) ...
StartRun(t) ==
    /\ pc = "menu"
    /\ t \in groups[Main] \ running
    /\ running' = running \cup {t}
    /\ UNCHANGED <<disk, threadNum, groups, sandbox, pc, loadAt, move, consent, created, history>>

\* ... its tools change the sandbox ...
AgentWork(t) ==
    /\ t \in running
    /\ sandbox[t] = "clean"
    /\ sandbox' = [sandbox EXCEPT ![t] = "dirty"]
    /\ UNCHANGED <<disk, threadNum, groups, running, pc, loadAt, move, consent, created, history>>

\* ... and its worker makes it idle and saves it in the group it is in; a run that
\* failed is not saved.
EndRun(t, g) ==
    /\ t \in running \cap groups[g]
    /\ running' = running \ {t}
    /\ SaveOwn(g, t)
    /\ UNCHANGED <<threadNum, groups, sandbox, pc, loadAt, move, consent, created>>

SetupSandbox(t) ==
    /\ pc = "menu"
    /\ t \in groups[Main]
    /\ sandbox[t] = "none"
    /\ sandbox' = [sandbox EXCEPT ![t] = "clean"]
    /\ UNCHANGED <<disk, threadNum, groups, running, pc, loadAt, move, consent, created, history>>

-----------------------------------------------------------------------------
(* Archiving and unarchiving: handleMenuArchiveUnarchive and MoveThread.   *)

\* confirmDiscardThreadWorkspaceIfDirtyOrAhead: only a dirty sandbox of a
\* thread of the main group is put to the user, who may decline (no step).
ConfirmMove(t, src, dst) ==
    /\ pc = "menu"
    /\ src # dst /\ t \in groups[src]
    /\ move' = <<t, src, dst>>
    /\ consent' = (src = Main /\ sandbox[t] = "dirty")
    /\ pc' = "clearing"
    /\ UNCHANGED <<disk, threadNum, groups, running, sandbox, loadAt, created, history>>

ClearSandbox ==
    /\ pc = "clearing"
    /\ sandbox' = [sandbox EXCEPT ![move[1]] = "none"]
    /\ pc' = "checking"
    /\ UNCHANGED <<disk, threadNum, groups, running, loadAt, move, consent, created, history>>

\* Faulty variant: the source directory is removed before the thread is saved
\* in the destination.
MoveSave_RemoveFirst ==
    /\ pc = "checking"
    /\ LET t == move[1]
       IN  IF t \in running \/ t \in groups[move[3]]
           THEN Quit /\ UNCHANGED disk
           ELSE \/ /\ disk' = Removed(move[2], t)
                   /\ pc' = "saved"
                   /\ UNCHANGED <<groups, running, move, consent>>
                \/ disk' \in {disk, Cut(move[2], t)} /\ Quit
    /\ UNCHANGED <<threadNum, sandbox, loadAt, created, history>>

\* MoveThread up to saveWithDir: refuse a thread that is not idle, then save it
\* in the destination group; what a failed save leaves there stays.
MoveSave ==
    /\ pc = "checking"
    /\ LET t == move[1]
       IN  IF t \in running \/ t \in groups[move[3]]
           THEN Quit /\ UNCHANGED disk
           ELSE \/ /\ disk' = Saved(move[3], t)
                   /\ pc' = "saved"
                   /\ UNCHANGED <<groups, running, move, consent>>
                \/ disk' \in {disk, Cut(move[3], t)} /\ Quit
    /\ UNCHANGED <<threadNum, sandbox, loadAt, created, history>>

\* ws.SetScratchDir succeeds or fails.
MoveScratch ==
    /\ pc = "saved"
    /\ pc' \in {"removing", "undoing"}
    /\ UNCHANGED <<disk, threadNum, groups, running, sandbox, loadAt, move, consent, created, history>>

\* Faulty variant: an error of the removal is ignored.
MoveRemove_IgnoreError ==
    /\ pc = "removing"
    /\ \/ disk' \in {Removed(move[2], move[1]), disk} /\ UNCHANGED cut
       \/ disk' = Cut(move[2], move[1]) /\ cut' = cut \cup {move[1]}
    /\ pc' = "removed"
    /\ UNCHANGED <<threadNum, groups, running, sandbox, loadAt, move, consent, created,
                   halfMoved>>

\* removeWithDir of the source.
MoveRemove ==
    /\ pc = "removing"
    /\ \/ disk' = Removed(move[2], move[1]) /\ pc' = "removed" /\ UNCHANGED cut
       \/ UNCHANGED disk /\ pc' = "undoing" /\ UNCHANGED cut
       \/ disk' = Cut(move[2], move[1]) /\ pc' = "undoing" /\ cut' = cut \cup {move[1]}
    /\ UNCHANGED <<threadNum, groups, running, sandbox, loadAt, move, consent, created,
                   halfMoved>>

\* The best-effort removal of the copy in the destination after a failure, whose
\* own error is ignored.
MoveUndo ==
    /\ pc = "undoing"
    /\ \/ /\ disk' \in {Removed(move[3], move[1]), Cut(move[3], move[1])}
          /\ UNCHANGED halfMoved
       \/ UNCHANGED disk /\ halfMoved' = halfMoved \cup {move[1]}
    /\ Quit
    /\ UNCHANGED <<threadNum, sandbox, loadAt, created, cut>>

\* Faulty variant: the thread stays in the map of the source group.
MoveCommit_NoDelete ==
    /\ pc = "removed"
    /\ groups' = [groups EXCEPT ![move[3]] = @ \cup {move[1]}]
    /\ pc' = "menu" /\ move' = NoMove /\ consent' = FALSE
    /\ UNCHANGED <<disk, threadNum, running, sandbox, loadAt, created, history>>

\* addThread in the destination, delete from the source.
MoveCommit ==
    /\ pc = "removed"
    /\ groups' = [groups EXCEPT ![move[2]] = @ \ {move[1]}, ![move[3]] = @ \cup {move[1]}]
    /\ pc' = "menu" /\ move' = NoMove /\ consent' = FALSE
    /\ UNCHANGED <<disk, threadNum, running, sandbox, loadAt, created, history>>

-----------------------------------------------------------------------------
\* The thread a crash would leave in both groups.
Halfway == IF pc \in {"saved", "removing", "undoing"} THEN {move[1]} ELSE {}

\* The user quits from the menu, or the process dies wherever it is.
Exit ==
    /\ pc = "menu" \/ (CrashMayHappen /\ pc # "down")
    /\ Quit
    /\ halfMoved' = halfMoved \cup Halfway
    /\ UNCHANGED <<disk, threadNum, sandbox, loadAt, created, cut>>

\* The process dies while os.WriteFile rewrites a thread.json: the file has been
\* truncated and does not parse.  The thread may be one that is saved where it is,
\* a new one, or one being saved in the group it moves to.
TornSave(t, g) ==
    /\ TornWrites
    /\ \/ t \in groups[g] /\ (t \in running \/ pc = "menu")
          /\ cut' = cut \cup {t} /\ UNCHANGED threadNum
       \/ pc = "menu" /\ t = threadNum + 1 /\ threadNum' = t /\ UNCHANGED cut
       \/ pc = "checking" /\ t = move[1] /\ g = move[3] /\ t \notin running
          /\ UNCHANGED <<threadNum, cut>>
    /\ disk' = Cut(g, t)
    /\ halfMoved' = halfMoved \cup Halfway
    /\ Quit
    /\ UNCHANGED <<sandbox, loadAt, created>>

\* It dies inside os.RemoveAll, after the thread.json is gone.
TornRemove ==
    /\ TornWrites
    /\ \/ pc = "removing" /\ disk' = Cut(move[2], move[1])
       \/ pc = "undoing" /\ disk' = Cut(move[3], move[1])
    /\ halfMoved' = halfMoved \cup Halfway
    /\ Quit
    /\ UNCHANGED <<threadNum, sandbox, loadAt, created, cut>>

Next ==
    \/ Load \/ MigrateDone \/ ScanOk \/ LoadFail \/ Reconcile
    \/ \E d \in DirNames : ScanFail(d)
    \/ \E d \in LegacyDirs : MigrateDir(d)
    \/ \E g \in Groups : NewThread(g) \/ NewThreadFail(g)
    \/ \E t \in Ids : StartRun(t) \/ AgentWork(t) \/ SetupSandbox(t)
    \/ \E t \in Ids, g \in Groups : EndRun(t, g) \/ SaveIdle(t, g)
    \/ \E t \in Ids, src, dst \in Groups : ConfirmMove(t, src, dst)
    \/ ClearSandbox \/ MoveSave \/ MoveScratch \/ MoveRemove \/ MoveUndo \/ MoveCommit
    \/ Exit \/ \E t \in Ids, g \in Groups : TornSave(t, g)
    \/ TornRemove

Spec == Init /\ [][Next]_vars

-----------------------------------------------------------------------------
(* Correctness.                                                            *)

\* Every variable has its type.
TypeOK ==
    /\ disk \in [Groups -> [DirNames -> Ids \cup {NoId, Absent, NoThread}]]
    /\ threadNum \in 0 .. MaxId
    /\ groups \in [Groups -> SUBSET Ids]
    /\ running \subseteq Ids
    /\ sandbox \in [Ids -> {"none", "clean", "dirty"}]
    /\ pc \in Steps
    /\ loadAt \in 1 .. Len(LoadOrder)
    /\ move \in (Ids \cup {0}) \X Groups \X Groups
    /\ consent \in BOOLEAN
    /\ created \subseteq Ids /\ cut \subseteq Ids /\ halfMoved \subseteq Ids

\* Threads are persistent: a thread is lost only if its own thread.json was
\* destroyed, in the group it is in, by a save or a removal that stopped half way.
\* Wherever else the process stops or an operation fails, in a migration, a
\* creation or a move, its file is on disk, under its name or its old one.
LossNeedsCut ==
    \A t \in created \ cut : \E g \in Groups, d \in DirNames : disk[g][d] = t

\* Nor is a legacy thread that has no id yet: however often loading fails, its
\* thread.json is moved, never overwritten.
Nameless == {e \in Groups \X DirNames : disk[e[1]][e[2]] = NoId}
NamelessKept == [][Cardinality(Nameless') >= Cardinality(Nameless)]_vars

\* Between two commands every thread of the user is in exactly one group, and
\* each group's map is what its directory holds, with a readable thread.json but
\* for those that a save or a removal cut short: octium refuses to come up rather
\* than show a thread twice or leave one out.
OneHome ==
    pc = "menu" =>
        /\ groups[Main] \cap groups[Archive] = {}
        /\ created \subseteq groups[Main] \cup groups[Archive]
        /\ \A g \in Groups : /\ groups[g] = {t \in Ids : disk[g][Dir(t)] # Absent}
                             /\ \A t \in groups[g] \ cut : OnDisk(g, t)

\* The assertion in reconcileThreadNumFromLoadedThreads, that no thread is found in
\* two groups, fails only for a thread whose move stopped between the copy and the
\* removal, or failed to remove both the original and then the copy.  Nothing else
\* that fails, is killed or is migrated keeps octium from starting that way.
PanicNeedsHalfMove == pc = "panic" => groups[Main] \cap groups[Archive] \subseteq halfMoved

\* The sandbox of a thread is discarded while it holds work only with the user's
\* consent, which confirmDiscardThreadWorkspaceIfDirtyOrAhead asks for.
DiscardNeedsConsent ==
    [][\A t \in Ids : sandbox[t] = "dirty" /\ sandbox'[t] = "none" => consent]_vars
=============================================================================
