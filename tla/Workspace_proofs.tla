--------------------------- MODULE Workspace_proofs ----------------------------
(***************************************************************************)
(* Proofs about Workspace for any sets of commits and files.  Unless a     *)
(* theorem says otherwise, for any faults: crashes, saves, clones and      *)
(* reads that fail, and git commands that are killed.                      *)
(***************************************************************************)
EXTENDS Workspace, TLAPS

\* Operations that start only on a workspace with an origin.
OnOrigin == {"sboxCheck", "sboxRemove", "sboxClone", "sboxSave",
             "syncStatus", "syncFetch", "syncCheck", "syncMerge", "pushStatus", "push",
             "mergeOrigin", "mergeSbox", "mergeAdd", "mergeFetch", "mergeCheck", "mergeMerge",
             "mergeDelete", "commitList", "commitAsk", "commitAdd", "commitRun"}

\* The record knows of the origin wherever the sandbox is replaced or worked in,
\* and ws.json knows of it whenever the record does.
RecordInv ==
    /\ SandboxHasOrigin
    /\ rec.origin => file.origin
    /\ pc \in OnOrigin => rec.origin

\* What the merge has of the branch it looked at: it is still in the sandbox, then
\* fetched, then merged.
MergeInv ==
    /\ pc \in {"mergeAdd", "mergeFetch"} /\ st.on = "main" /\ SboxExists =>
           st.tip \subseteq sbox.tip["main"]
    /\ pc \in {"mergeCheck", "mergeMerge"} => st.tip \subseteq st.got
    /\ MergeTakesAll

\* A sandbox in which nobody worked since it was cloned.
Pristine ==
    SboxExists => ~SboxDirty /\ \A h \in Heads : sbox.tip[h] \subseteq sbox.fetched

\* Why an operation may remove the sandbox: nobody can have worked in a sandbox
\* that neither ws.json nor the record tells of, and the other removals follow an
\* answer of the user or the ruin of a repository, which nothing repairs meanwhile.
KeepInv ==
    /\ ~file.origin => Pristine
    /\ ~rec.origin /\ pc \notin {"down", "resetRemove"} => Pristine
    /\ pc \in {"askDir", "addClone", "addSave"} => ~rec.origin
    /\ pc \in {"resetSave", "sboxClone"} => ~SboxExists
    /\ pc = "resetRemove" => consent \/ ~origin.ok
    /\ pc \in {"sboxCheck", "sboxRemove"} => consent \/ ~SboxValid
    /\ sbox.on = "main" => sbox.tip["detached"] = {}
    /\ pc = "archiveClear" /\ seen = "shown" => consent \/ ~rec.sbox
-----------------------------------------------------------------------------
(* Types.                                                                  *)

Repository == [ok : BOOLEAN, head : SUBSET Commits, dirty : BOOLEAN,
               mergeHead : SUBSET Commits, pushed : SUBSET Commits, remote : BOOLEAN]
Sandbox    == [on : Heads \cup {"none"}, tip : [Heads -> SUBSET Commits], linked : BOOLEAN,
               dirty : BOOLEAN, staged : BOOLEAN, new : SUBSET Files, mergeHead : SUBSET Commits,
               fetched : SUBSET Commits]
Status     == [ok : BOOLEAN, on : Heads \cup {"none"}, files : SUBSET Files,
               tip : SUBSET Commits, got : SUBSET Commits]

RecordsOK == rec \in Record /\ file \in Record \cup {NoFile}
LocalsOK  == /\ pc \in Steps
             /\ ret \in {"idle", "setup", "setupLoad"}
             /\ st \in Status
             /\ include \in [Files -> {"unknown", "yes", "no"}]
             /\ consent \in BOOLEAN
             /\ seen \in {"nothing", "hidden", "shown"}

\* The type invariant, one part for each group of variables.
LEMMA TypeParts ==
  TypeOK <=> /\ origin \in Repository /\ sbox \in Sandbox
             /\ RecordsOK /\ LocalsOK /\ archived \in BOOLEAN
  BY DEF TypeOK, Repository, Sandbox, Status, RecordsOK, LocalsOK

\* Only the user, and the commands of git on the origin, change the origin.
LEMMA OriginFrame ==
  ASSUME [Next]_vars
  PROVE  UNCHANGED origin \/ AskDir \/ Push \/ MergeAdd \/ MergeMerge \/ MergeDelete \/ User \/ Quit
  <1>1. CASE LoadThread \/ ResetRemove \/ ResetSave \/ SboxCheck \/ SboxRemove \/ SboxClone
             \/ SboxSave
    BY <1>1 DEF LoadThread, ResetRemove, ResetSave, SboxCheck, SboxRemove, SboxClone, SboxSave, disk
  <1>2. CASE SetupLoad \/ Setup \/ AddClone \/ AddSave \/ SyncStatus \/ SyncFetch
             \/ SyncCheck \/ SyncMerge
    BY <1>2 DEF SetupLoad, Setup, AddClone, AddSave, SyncStatus, SyncFetch, SyncCheck, SyncMerge,
                disk
  <1>3. CASE PushStatus \/ MergeOrigin \/ MergeSbox \/ MergeFetch \/ MergeCheck
    BY <1>3 DEF PushStatus, MergeOrigin, MergeSbox, MergeFetch, MergeCheck, disk
  <1>4. CASE CommitList \/ CommitAsk \/ CommitAdd \/ CommitRun \/ ArchiveCheck
             \/ ArchiveClear \/ ArchiveMove
    BY <1>4 DEF CommitList, CommitAsk, CommitAdd, CommitRun, ArchiveCheck, ArchiveClear,
                ArchiveMove, disk
  <1>5. CASE OpenSetup \/ Choose \/ ChooseReset \/ ChooseArchive
    BY <1>5 DEF OpenSetup, Choose, ChooseReset, ChooseArchive, Begin, disk
  <1>6. CASE Agent
    BY <1>6 DEF Agent
  <1>7. CASE UNCHANGED vars
    BY <1>7 DEF vars
  <1>8. QED
    BY <1>1, <1>2, <1>3, <1>4, <1>5, <1>6, <1>7 DEF Next, Program

\* Only clones, removals, a sync, a commit and the agent change the sandbox.
LEMMA SandboxFrame ==
  ASSUME [Next]_vars
  PROVE  UNCHANGED sbox \/ ResetRemove \/ SboxRemove \/ SboxClone \/ AddClone \/ AddSave
           \/ SyncFetch \/ SyncMerge \/ CommitAdd \/ CommitRun \/ ArchiveClear \/ Agent
  <1>1. CASE LoadThread \/ ResetSave \/ SboxCheck \/ SboxSave
    BY <1>1 DEF LoadThread, ResetSave, SboxCheck, SboxSave, disk
  <1>2. CASE SetupLoad \/ Setup \/ AskDir \/ SyncStatus \/ SyncCheck \/ PushStatus \/ Push
    BY <1>2 DEF SetupLoad, Setup, AskDir, SyncStatus, SyncCheck, PushStatus, Push, disk
  <1>3. CASE MergeOrigin \/ MergeSbox \/ MergeAdd \/ MergeFetch \/ MergeCheck \/ MergeMerge
             \/ MergeDelete
    BY <1>3 DEF MergeOrigin, MergeSbox, MergeAdd, MergeFetch, MergeCheck, MergeMerge,
                MergeDelete, disk
  <1>4. CASE CommitList \/ CommitAsk \/ ArchiveCheck \/ ArchiveMove
    BY <1>4 DEF CommitList, CommitAsk, ArchiveCheck, ArchiveMove, disk
  <1>5. CASE OpenSetup \/ Choose \/ ChooseReset \/ ChooseArchive
    BY <1>5 DEF OpenSetup, Choose, ChooseReset, ChooseArchive, Begin, disk
  <1>6. CASE User \/ Quit
    BY <1>6 DEF User, Quit
  <1>7. CASE UNCHANGED vars
    BY <1>7 DEF vars
  <1>8. QED
    BY <1>1, <1>2, <1>3, <1>4, <1>5, <1>6, <1>7 DEF Next, Program

\* Only loading, saving and forgetting change the record and ws.json.
LEMMA RecordFrame ==
  ASSUME [Next]_vars
  PROVE  UNCHANGED record \/ LoadThread \/ ResetRemove \/ ResetSave \/ SboxSave \/ SetupLoad
           \/ Setup \/ AddSave \/ ArchiveClear \/ ArchiveMove \/ Quit
  <1>1. CASE SboxCheck \/ SboxRemove \/ SboxClone \/ AskDir \/ AddClone
    BY <1>1 DEF SboxCheck, SboxRemove, SboxClone, AskDir, AddClone
  <1>2. CASE SyncStatus \/ SyncFetch \/ SyncCheck \/ SyncMerge \/ PushStatus \/ Push
    BY <1>2 DEF SyncStatus, SyncFetch, SyncCheck, SyncMerge, PushStatus, Push
  <1>3. CASE MergeOrigin \/ MergeSbox \/ MergeAdd \/ MergeFetch \/ MergeCheck \/ MergeMerge
             \/ MergeDelete
    BY <1>3 DEF MergeOrigin, MergeSbox, MergeAdd, MergeFetch, MergeCheck, MergeMerge, MergeDelete
  <1>4. CASE CommitList \/ CommitAsk \/ CommitAdd \/ CommitRun \/ ArchiveCheck
    BY <1>4 DEF CommitList, CommitAsk, CommitAdd, CommitRun, ArchiveCheck
  <1>5. CASE OpenSetup \/ Choose \/ ChooseReset \/ ChooseArchive
    BY <1>5 DEF OpenSetup, Choose, ChooseReset, ChooseArchive, Begin
  <1>6. CASE Agent \/ User
    BY <1>6 DEF Agent, User
  <1>7. CASE UNCHANGED vars
    BY <1>7 DEF vars, record
  <1>8. QED
    BY <1>1, <1>2, <1>3, <1>4, <1>5, <1>6, <1>7 DEF Next, Program

\* Sandboxes as the operations leave them, and statuses as they read them.
LEMMA SandboxType ==
  ASSUME TypeOK
  PROVE  /\ NoSbox \in Sandbox /\ FreshClone \in Sandbox
         /\ SboxExists => sbox.on \in Heads /\ SboxStatus \in Status
  BY DEF TypeOK, Sandbox, Status, NoSbox, FreshClone, SboxStatus, SboxExists, SboxClean,
         SboxDirty, Tip, Heads

\* The origin stays a repository, or what is left of one.
LEMMA OriginType ==
  ASSUME TypeOK, [Next]_vars
  PROVE  origin' \in Repository
  <1> USE TypeParts DEF Repository
  <1>1. CASE UNCHANGED origin
    BY <1>1
  <1>2. CASE AskDir
    BY <1>2 DEF AskDir
  <1>3. CASE Push
    <2>1. CanPush => Tip \in SUBSET Commits
      BY SandboxType DEF CanPush, SboxClean, Sandbox, Tip
    <2>2. QED
      BY <1>3, <2>1 DEF Push
  <1>4. CASE MergeAdd \/ MergeDelete
    BY <1>4 DEF MergeAdd, MergeDelete
  <1>5. CASE MergeMerge
    BY <1>5 DEF MergeMerge, LocalsOK, Status
  <1>6. CASE User
    <2>1. CASE \E c \in UserCommits \ origin.head :
                   origin' = [origin EXCEPT !.dirty = FALSE, !.mergeHead = {},
                                            !.head = @ \cup {c} \cup origin.mergeHead]
      BY <2>1 DEF Commits
    <2>2. CASE origin' = [origin EXCEPT !.dirty = TRUE]
      BY <2>2
    <2>3. CASE origin' = [ok |-> FALSE, head |-> {}, dirty |-> FALSE, mergeHead |-> {},
                          pushed |-> {}, remote |-> FALSE]
      BY <2>3
    <2>4. QED
      BY <1>6, <2>1, <2>2, <2>3 DEF User
  <1>7. CASE Quit
    BY <1>7 DEF Quit
  <1>8. QED
    BY <1>1, <1>2, <1>3, <1>4, <1>5, <1>6, <1>7, OriginFrame

\* A commit in the sandbox, of the agent or of the commit operation, leaves branches.
LEMMA CommitInSandbox ==
  ASSUME TypeOK, SboxExists, NEW c \in Unused
  PROVE  [sbox.tip EXCEPT ![sbox.on] = @ \cup {c} \cup sbox.mergeHead] \in [Heads -> SUBSET Commits]
  <1>1. c \in Commits
    BY DEF Unused, Commits
  <1>2. sbox \in Sandbox /\ sbox.on \in Heads
    BY TypeParts, SandboxType
  <1>3. QED
    BY <1>1, <1>2 DEF Sandbox

\* The sandbox stays a clone, or none.
LEMMA SandboxStepType ==
  ASSUME TypeOK, [Next]_vars
  PROVE  sbox' \in Sandbox
  <1>0. sbox \in Sandbox /\ st \in Status
    BY TypeParts DEF LocalsOK
  <1>1. CASE UNCHANGED sbox
    BY <1>0, <1>1
  <1>2. CASE ResetRemove \/ SboxRemove \/ SboxClone \/ AddClone \/ AddSave \/ ArchiveClear
    BY <1>0, <1>2, SandboxType
       DEF ResetRemove, SboxRemove, SboxClone, AddClone, AddSave, ArchiveClear, CloneSandbox
  <1>3. CASE SyncFetch
    BY <1>0, <1>3, TypeParts DEF SyncFetch, Sandbox, Repository
  <1>4. CASE SyncMerge
    <2>1. [sbox.tip EXCEPT ![sbox.on] = @ \cup sbox.fetched] \in [Heads -> SUBSET Commits]
      BY <1>0 DEF Sandbox, Heads
    <2>2. QED
      BY <1>0, <1>4, <2>1 DEF SyncMerge, Sandbox
  <1>5. CASE CommitAdd
    <2>1. CASE UNCHANGED sbox
      BY <1>0, <2>1
    <2>2. CASE \E files : Stage(files)
      <3>1. PICK files : Stage(files)
        BY <2>2
      <3>2. DEFINE staged == sbox.dirty \/ sbox.staged \/ files \cap sbox.new # {}
      <3>3. staged \in BOOLEAN
        OBVIOUS
      <3>4. sbox' = [sbox EXCEPT !.staged = staged, !.dirty = FALSE, !.new = @ \ files]
        BY <3>1 DEF Stage
      <3>5. HIDE DEF staged
      <3>6. QED
        BY <1>0, <3>3, <3>4 DEF Sandbox
    <2>3. QED
      BY <1>5, <2>1, <2>2 DEF CommitAdd
  <1>6. CASE CommitRun
    <2>1. CASE UNCHANGED sbox
      BY <1>0, <2>1
    <2>2. CASE SboxExists /\ \E c \in Unused :
                   sbox' = [sbox EXCEPT !.tip[sbox.on] = @ \cup {c} \cup sbox.mergeHead,
                                        !.staged = FALSE, !.mergeHead = {}]
      <3>1. PICK c \in Unused :
               sbox' = [sbox EXCEPT !.tip[sbox.on] = @ \cup {c} \cup sbox.mergeHead,
                                    !.staged = FALSE, !.mergeHead = {}]
        BY <2>2
      <3>2. DEFINE tip == [sbox.tip EXCEPT ![sbox.on] = @ \cup {c} \cup sbox.mergeHead]
      <3>3. tip \in [Heads -> SUBSET Commits]
        BY <2>2, CommitInSandbox
      <3>4. sbox' = [sbox EXCEPT !.tip = tip, !.staged = FALSE, !.mergeHead = {}]
        BY <1>0, <3>1 DEF Sandbox
      <3>5. QED
        BY <1>0, <3>3, <3>4 DEF Sandbox
    <2>3. QED
      BY <1>6, <2>1, <2>2 DEF CommitRun
  <1>7. CASE Agent
    <2>1. CASE sbox' = [sbox EXCEPT !.dirty = TRUE] \/ sbox' = [sbox EXCEPT !.linked = FALSE]
      BY <1>0, <2>1 DEF Sandbox
    <2>2. CASE \E f \in Files : sbox' = [sbox EXCEPT !.new = @ \cup {f}]
      BY <1>0, <2>2 DEF Sandbox
    <2>3. CASE SboxExists /\ \E c \in Unused :
                   sbox' = [sbox EXCEPT !.tip[sbox.on] = @ \cup {c} \cup sbox.mergeHead,
                                        !.dirty = FALSE, !.staged = FALSE, !.new = {},
                                        !.mergeHead = {}]
      <3>1. PICK c \in Unused :
               sbox' = [sbox EXCEPT !.tip[sbox.on] = @ \cup {c} \cup sbox.mergeHead,
                                    !.dirty = FALSE, !.staged = FALSE, !.new = {},
                                    !.mergeHead = {}]
        BY <2>3
      <3>2. DEFINE tip == [sbox.tip EXCEPT ![sbox.on] = @ \cup {c} \cup sbox.mergeHead]
      <3>3. tip \in [Heads -> SUBSET Commits]
        BY <2>3, CommitInSandbox
      <3>4. sbox' = [sbox EXCEPT !.tip = tip, !.dirty = FALSE, !.staged = FALSE, !.new = {},
                                 !.mergeHead = {}]
        BY <1>0, <3>1 DEF Sandbox
      <3>5. QED
        BY <1>0, <3>3, <3>4 DEF Sandbox
    <2>4. CASE SboxExists /\ \E h \in Heads \ {sbox.on} :
                   sbox' = [sbox EXCEPT !.on = h,
                                        !.tip["detached"] = IF h = "detached" THEN Tip ELSE {}]
      <3>1. PICK h \in Heads \ {sbox.on} :
               sbox' = [sbox EXCEPT !.on = h,
                                    !.tip["detached"] = IF h = "detached" THEN Tip ELSE {}]
        BY <2>4
      <3>2. Tip \in SUBSET Commits
        BY <1>0, <2>4, SandboxType DEF Sandbox, Tip
      <3>3. [sbox.tip EXCEPT !["detached"] = IF h = "detached" THEN Tip ELSE {}]
              \in [Heads -> SUBSET Commits]
        BY <1>0, <3>2 DEF Sandbox, Heads
      <3>4. QED
        BY <1>0, <3>1, <3>3 DEF Sandbox
    <2>5. QED
      BY <1>7, <2>1, <2>2, <2>3, <2>4 DEF Agent
  <1>8. QED
    BY <1>1, <1>2, <1>3, <1>4, <1>5, <1>6, <1>7, SandboxFrame

\* What reading ws.json leaves in memory.
LEMMA LoadType ==
  ASSUME TypeOK, NEW outcome, Load(outcome)
  PROVE  rec' \in Record /\ (rec' = rec \/ (rec' = file /\ file # NoFile))
  <1>1. ~NoFile.origin /\ ~NoFile.sbox
    BY DEF NoFile
  <1>2. QED
    BY <1>1 DEF Load, TypeOK

\* Saving ws.json writes the record or nothing.
LEMMA SaveType ==
  ASSUME TypeOK, rec' \in Record, NEW ok \in BOOLEAN, Save(ok)
  PROVE  file' \in Record \cup {NoFile} /\ (file' = rec' \/ file' = file)
  BY DEF TypeOK, Save

\* The record stays a record, and ws.json a record that was saved.
LEMMA RecordType ==
  ASSUME TypeOK, [Next]_vars
  PROVE  RecordsOK'
  <1>0. RecordsOK /\ NoRecord \in Record
    BY TypeParts DEF NoRecord, Record
  <1>1. CASE UNCHANGED record
    BY <1>0, <1>1 DEF RecordsOK, record
  <1>2. CASE LoadThread
    <2>1. rec' \in Record
      BY <1>2, LoadType DEF LoadThread
    <2>2. UNCHANGED file \/ \E ok \in BOOLEAN : Save(ok)
      <3>1. PICK outcome \in {"missing", "unreadable", "originInvalid", "sandboxInvalid", "ok"} :
               CASE outcome = "originInvalid"  -> Goto("resetRemove") /\ UNCHANGED file
                 [] outcome = "sandboxInvalid" -> Goto("sboxCheck") /\ UNCHANGED file
                 [] outcome = "ok"             -> Goto("idle") /\ UNCHANGED file
                 [] OTHER                      -> Goto("idle") /\ \E ok \in BOOLEAN : Save(ok)
        BY <1>2 DEF LoadThread
      <3>2. QED
        BY <3>1
    <2>3. QED
      BY <1>0, <2>1, <2>2, SaveType DEF RecordsOK
  <1>3. CASE ResetRemove
    BY <1>0, <1>3 DEF ResetRemove, RecordsOK, Record
  <1>4. CASE ResetSave
    BY <1>0, <1>4 DEF ResetSave, RecordsOK, Save
  <1>5. CASE SboxSave \/ ArchiveClear
    <2>1. rec' \in Record
      BY <1>0, <1>5 DEF SboxSave, ArchiveClear, RecordsOK, Record
    <2>2. file' = rec' \/ file' = file
      BY <1>5 DEF SboxSave, ArchiveClear, Save
    <2>3. QED
      BY <1>0, <2>1, <2>2 DEF RecordsOK
  <1>6. CASE SetupLoad
    <2>1. rec' \in Record
      BY <1>0, <1>6, LoadType DEF SetupLoad, RecordsOK
    <2>2. file' = rec' \/ file' = file
      BY <1>6 DEF SetupLoad, Save, locals
    <2>3. QED
      BY <1>0, <2>1, <2>2 DEF RecordsOK
  <1>7. CASE Setup
    BY <1>0, <1>7 DEF Setup, RecordsOK, Record
  <1>8. CASE AddSave
    <2>1. rec' \in Record
      BY <1>0, <1>8 DEF AddSave, RecordsOK, Record
    <2>2. file' = rec' \/ file' = file
      BY <1>8 DEF AddSave, Save
    <2>3. QED
      BY <1>0, <2>1, <2>2 DEF RecordsOK
  <1>9. CASE ArchiveMove
    BY <1>0, <1>9 DEF ArchiveMove, RecordsOK, Save
  <1>10. CASE Quit
    BY <1>0, <1>10 DEF Quit, RecordsOK
  <1>11. QED
    BY <1>1, <1>2, <1>3, <1>4, <1>5, <1>6, <1>7, <1>8, <1>9, <1>10, RecordFrame

\* Most steps end the operation or go on to the next step with the same answers.
LEMMA LocalFrame ==
  ASSUME [Next]_vars
  PROVE  \/ Finish \/ (pc' \in Steps \cup {pc} /\ UNCHANGED locals)
         \/ SboxCheck \/ SetupLoad \/ Setup \/ ChooseReset \/ SyncStatus \/ MergeSbox
         \/ MergeFetch \/ MergeCheck \/ MergeMerge \/ CommitList \/ CommitAsk \/ ArchiveCheck
         \/ ArchiveMove \/ Quit
  <1>1. CASE LoadThread
    BY <1>1 DEF LoadThread, Goto, Steps
  <1>2. CASE ResetRemove \/ ResetSave \/ SboxRemove \/ SboxClone \/ SboxSave
    BY <1>2 DEF ResetRemove, ResetSave, SboxRemove, SboxClone, CloneSandbox, SboxSave, Goto, Steps
  <1>3. CASE AskDir \/ AddClone \/ AddSave
    BY <1>3 DEF AskDir, AddClone, CloneSandbox, AddSave, Goto, Steps
  <1>4. CASE SyncFetch \/ SyncCheck \/ SyncMerge \/ PushStatus \/ Push
    BY <1>4 DEF SyncFetch, SyncCheck, SyncMerge, PushStatus, Push, Goto, Steps
  <1>5. CASE MergeOrigin \/ MergeAdd \/ MergeDelete
    BY <1>5 DEF MergeOrigin, MergeAdd, MergeDelete, Goto, Steps
  <1>6. CASE CommitAdd \/ CommitRun \/ ArchiveClear
    BY <1>6 DEF CommitAdd, CommitRun, ArchiveClear, Goto, Steps
  <1>7. CASE OpenSetup \/ Choose \/ ChooseArchive
    BY <1>7 DEF OpenSetup, Choose, ChooseArchive, Begin, Goto, Steps
  <1>8. CASE Agent \/ User
    BY <1>8 DEF Agent, User
  <1>9. CASE UNCHANGED vars
    BY <1>9 DEF vars, locals
  <1>10. QED
    BY <1>1, <1>2, <1>3, <1>4, <1>5, <1>6, <1>7, <1>8, <1>9 DEF Next, Program

\* The end of an operation leaves the variables of the UI goroutine well-typed.
LEMMA FinishType ==
  ASSUME Finish
  PROVE  LocalsOK'
  <1>1. NoStatus \in Status
    BY DEF NoStatus, Status
  <1>2. QED
    BY <1>1 DEF Finish, LocalsOK, Steps

\* The UI goroutine keeps its place in an operation, and what it read and asked.
LEMMA LocalType ==
  ASSUME TypeOK, [Next]_vars
  PROVE  LocalsOK'
  <1>0. LocalsOK /\ NoStatus \in Status /\ (SboxExists => SboxStatus \in Status)
    BY TypeParts, SandboxType DEF NoStatus, Status
  <1>1. CASE Finish
    BY <1>1, FinishType
  <1>2. CASE pc' \in Steps \cup {pc} /\ UNCHANGED locals
    BY <1>0, <1>2 DEF locals, LocalsOK
  <1>3. CASE SboxCheck
    BY <1>0, <1>3 DEF SboxCheck, LocalsOK, Goto, Steps
  <1>4. CASE SetupLoad
    BY <1>0, <1>1, <1>4 DEF SetupLoad, LocalsOK, Goto, Steps, locals
  <1>5. CASE Setup \/ ChooseReset
    BY <1>0, <1>1, <1>5 DEF Setup, ChooseReset, Begin, LocalsOK, Goto, Steps, locals
  <1>6. CASE SyncStatus \/ MergeSbox \/ CommitList
    BY <1>0, <1>1, <1>6 DEF SyncStatus, MergeSbox, CommitList, SboxClean, LocalsOK, Goto, Steps
  <1>7. CASE MergeFetch
    <2>1. st' \in Status
      BY <1>0, <1>7, TypeParts DEF MergeFetch, LocalsOK, Status, Sandbox, Heads
    <2>2. QED
      BY <1>0, <1>7, <2>1 DEF MergeFetch, LocalsOK, Goto, Steps
  <1>8. CASE MergeCheck \/ MergeMerge
    <2>1. st' \in Status
      BY <1>0, <1>8 DEF MergeCheck, MergeMerge, LocalsOK, Status
    <2>2. QED
      BY <1>0, <1>8, <2>1 DEF MergeCheck, MergeMerge, LocalsOK, Goto, Steps
  <1>9. CASE CommitAsk
    BY <1>0, <1>1, <1>9 DEF CommitAsk, LocalsOK, Goto, Steps, locals
  <1>10. CASE ArchiveCheck
    BY <1>0, <1>1, <1>10 DEF ArchiveCheck, Sight, LocalsOK, Goto, Steps
  <1>11. CASE ArchiveMove
    BY <1>0, <1>1, <1>11 DEF ArchiveMove, LocalsOK, Steps
  <1>12. CASE Quit
    BY <1>0, <1>12 DEF Quit, LocalsOK, Steps
  <1>13. QED
    BY <1>1, <1>2, <1>3, <1>4, <1>5, <1>6, <1>7, <1>8, <1>9, <1>10, <1>11, <1>12, LocalFrame

\* Only the move between the groups changes where the thread is.
LEMMA ArchivedType ==
  ASSUME TypeOK, [Next]_vars
  PROVE  archived' \in BOOLEAN
  <1>1. CASE UNCHANGED archived
    BY <1>1 DEF TypeOK
  <1>2. CASE ArchiveMove
    BY <1>2 DEF ArchiveMove, TypeOK
  <1>3. UNCHANGED archived \/ ArchiveMove
    <2>1. CASE LoadThread \/ ResetRemove \/ ResetSave \/ SboxCheck \/ SboxRemove \/ SboxClone
               \/ SboxSave
      BY <2>1 DEF LoadThread, ResetRemove, ResetSave, SboxCheck, SboxRemove, SboxClone, SboxSave
    <2>2. CASE SetupLoad \/ Setup \/ AskDir \/ AddClone \/ AddSave \/ SyncStatus \/ SyncFetch
               \/ SyncCheck \/ SyncMerge
      BY <2>2 DEF SetupLoad, Setup, AskDir, AddClone, AddSave, SyncStatus, SyncFetch, SyncCheck,
                  SyncMerge
    <2>3. CASE PushStatus \/ Push \/ MergeOrigin \/ MergeSbox \/ MergeAdd \/ MergeFetch
                 \/ MergeCheck \/ MergeMerge \/ MergeDelete
      BY <2>3 DEF PushStatus, Push, MergeOrigin, MergeSbox, MergeAdd, MergeFetch, MergeCheck,
                  MergeMerge, MergeDelete
    <2>4. CASE CommitList \/ CommitAsk \/ CommitAdd \/ CommitRun \/ ArchiveCheck \/ ArchiveClear
      BY <2>4 DEF CommitList, CommitAsk, CommitAdd, CommitRun, ArchiveCheck, ArchiveClear
    <2>5. CASE OpenSetup \/ Choose \/ ChooseReset \/ ChooseArchive \/ Agent \/ User \/ Quit
      BY <2>5 DEF OpenSetup, Choose, ChooseReset, ChooseArchive, Begin, Agent, User, Quit
    <2>6. CASE UNCHANGED vars
      BY <2>6 DEF vars
    <2>7. QED
      BY <2>1, <2>2, <2>3, <2>4, <2>5, <2>6 DEF Next, Program
  <1>4. QED
    BY <1>1, <1>2, <1>3

\* The specification without the fairness that only liveness needs.
LEMMA SafetyPart == Spec => Init /\ [][Next]_vars
  BY PTL DEF Spec

LEMMA InitType == Init => TypeOK
  <1> SUFFICES ASSUME Init PROVE TypeOK
    OBVIOUS
  <1>1. origin \in Repository
    BY DEF Init, Repository
  <1>2. sbox \in Sandbox
    BY DEF Init, Sandbox, NoSbox
  <1>3. RecordsOK /\ archived \in BOOLEAN
    BY DEF Init, RecordsOK, NoRecord, Record
  <1>4. LocalsOK
    BY DEF Init, LocalsOK, NoStatus, Status, Steps
  <1>5. QED
    BY <1>1, <1>2, <1>3, <1>4, TypeParts

\* Every variable has its type in every state of the workspace.
THEOREM TypeCorrect == Spec => []TypeOK
  <1>1. TypeOK /\ [Next]_vars => TypeOK'
    <2> SUFFICES ASSUME TypeOK, [Next]_vars PROVE TypeOK'
      OBVIOUS
    <2>1. origin' \in Repository /\ sbox' \in Sandbox /\ RecordsOK' /\ LocalsOK' /\ archived' \in BOOLEAN
      BY OriginType, SandboxStepType, RecordType, LocalType, ArchivedType
    <2>2. QED
      BY <2>1 DEF TypeOK, Repository, Sandbox, RecordsOK, LocalsOK, Status
  <1>2. QED
    BY InitType, <1>1, SafetyPart, PTL

-----------------------------------------------------------------------------
(* The record and ws.json.                                                 *)

\* An operation of a workspace goes on, or starts on a record with an origin.
LEMMA OriginNeeded ==
  ASSUME RecordInv, Next, UNCHANGED record
  PROVE  pc' \in OnOrigin => rec'.origin
  <1> USE DEF RecordInv, OnOrigin, record
  <1>1. CASE LoadThread \/ SetupLoad
    BY <1>1 DEF LoadThread, SetupLoad, Load, Goto, Finish
  <1>2. CASE ResetRemove \/ ResetSave \/ SboxCheck \/ SboxRemove \/ SboxClone \/ SboxSave
    BY <1>2 DEF ResetRemove, ResetSave, SboxCheck, SboxRemove, SboxClone, CloneSandbox, SboxSave,
                Goto, Finish
  <1>3. CASE Setup \/ AskDir \/ AddClone \/ AddSave
    BY <1>3 DEF Setup, AskDir, AddClone, CloneSandbox, AddSave, Goto, Finish
  <1>4. CASE SyncStatus \/ SyncFetch \/ SyncCheck \/ SyncMerge \/ PushStatus \/ Push
    BY <1>4 DEF SyncStatus, SyncFetch, SyncCheck, SyncMerge, PushStatus, Push, Goto, Finish
  <1>5. CASE MergeOrigin \/ MergeSbox \/ MergeAdd \/ MergeFetch \/ MergeCheck \/ MergeMerge
             \/ MergeDelete
    BY <1>5 DEF MergeOrigin, MergeSbox, MergeAdd, MergeFetch, MergeCheck, MergeMerge,
                MergeDelete, Goto, Finish
  <1>6. CASE CommitList \/ CommitAsk \/ CommitAdd \/ CommitRun
    BY <1>6 DEF CommitList, CommitAsk, CommitAdd, CommitRun, Goto, Finish
  <1>7. CASE ArchiveCheck \/ ArchiveClear \/ ArchiveMove
    BY <1>7 DEF ArchiveCheck, ArchiveClear, ArchiveMove, Goto, Finish
  <1>8. CASE OpenSetup \/ Choose \/ ChooseReset \/ ChooseArchive
    BY <1>8 DEF OpenSetup, Choose, ChooseReset, ChooseArchive, Begin, Goto
  <1>9. CASE Agent \/ User \/ Quit
    BY <1>9 DEF Agent, User, Quit
  <1>10. QED
    BY <1>1, <1>2, <1>3, <1>4, <1>5, <1>6, <1>7, <1>8, <1>9 DEF Next, Program

\* Every step keeps the record and ws.json consistent.
LEMMA RecordStep ==
  ASSUME TypeOK, RecordInv, [Next]_vars
  PROVE  RecordInv'
  <1> USE DEF RecordInv, SandboxHasOrigin
  <1>0. /\ rec \in Record /\ file \in Record \cup {NoFile} /\ ~NoFile.origin /\ ~NoFile.sbox
        /\ ~NoRecord.origin /\ ~NoRecord.sbox
    BY DEF TypeOK, NoFile, NoRecord
  <1>1. CASE UNCHANGED record
    <2>1. pc' \in OnOrigin => rec'.origin
      BY <1>1, OriginNeeded DEF vars, record
    <2>2. QED
      BY <1>1, <2>1 DEF record
  <1>2. CASE LoadThread
    <2>1. PICK outcome \in {"missing", "unreadable", "originInvalid", "sandboxInvalid", "ok"} :
             /\ Load(outcome)
             /\ CASE outcome = "originInvalid"  -> Goto("resetRemove") /\ UNCHANGED file
                  [] outcome = "sandboxInvalid" -> Goto("sboxCheck") /\ UNCHANGED file
                  [] outcome = "ok"             -> Goto("idle") /\ UNCHANGED file
                  [] OTHER                      -> Goto("idle") /\ \E ok \in BOOLEAN : Save(ok)
      BY <1>2 DEF LoadThread
    <2>2. CASE outcome \in {"missing", "unreadable"}
      <3>1. rec' = rec /\ pc' = "idle" /\ (file' = rec' \/ file' = file)
        BY <2>1, <2>2 DEF Load, Goto, Save
      <3>2. QED
        BY <1>0, <3>1 DEF OnOrigin
    <2>3. CASE outcome = "originInvalid"
      BY <2>1, <2>3 DEF Load, Goto, OnOrigin
    <2>4. CASE outcome \in {"sandboxInvalid", "ok"}
      BY <2>1, <2>4 DEF Load, Goto, OnOrigin
    <2>5. QED
      BY <2>2, <2>3, <2>4
  <1>3. CASE ResetRemove
    BY <1>0, <1>3 DEF ResetRemove, Goto, OnOrigin, Record
  <1>4. CASE ResetSave
    BY <1>0, <1>4 DEF ResetSave, Save, Goto, Finish, OnOrigin
  <1>5. CASE SboxSave
    <2>1. rec'.origin /\ (file' = rec' \/ file' = file) /\ pc' \in {"idle", "setup"}
      BY <1>0, <1>5 DEF SboxSave, Save, Goto, Finish, OnOrigin, Record
    <2>2. file.origin
      BY <1>5 DEF SboxSave, OnOrigin
    <2>3. QED
      BY <2>1, <2>2 DEF OnOrigin
  <1>6. CASE SetupLoad
    <2>1. CASE rec' = file /\ file' = file
      BY <2>1, <1>0, <1>6 DEF SetupLoad, Goto, Finish, OnOrigin, Load
    <2>2. CASE rec' = rec /\ file' \in {rec', file}
      BY <2>2, <1>0, <1>6 DEF SetupLoad, Goto, Finish, OnOrigin, Load
    <2>3. QED
      BY <1>6, <2>1, <2>2 DEF SetupLoad, Load, Save
  <1>7. CASE Setup
    BY <1>0, <1>7 DEF Setup, Goto, Finish, OnOrigin, Record
  <1>8. CASE AddSave
    <2>1. (rec'.origin /\ file' = rec') \/ (rec' = rec /\ file' = file)
      BY <1>0, <1>8 DEF AddSave, Save, Record
    <2>2. QED
      BY <1>8, <2>1 DEF AddSave, Finish, OnOrigin
  <1>9. CASE ArchiveClear
    <2>1. rec'.origin = rec.origin /\ ~rec'.sbox /\ (file' = rec' \/ file' = file)
      BY <1>0, <1>9 DEF ArchiveClear, Save, Record
    <2>2. QED
      BY <1>9, <2>1 DEF ArchiveClear, Goto, OnOrigin
  <1>10. CASE ArchiveMove
    BY <1>0, <1>10 DEF ArchiveMove, Save, Finish, OnOrigin
  <1>11. CASE Quit
    BY <1>0, <1>11 DEF Quit, OnOrigin
  <1>12. QED
    BY <1>1, <1>2, <1>3, <1>4, <1>5, <1>6, <1>7, <1>8, <1>9, <1>10, <1>11, RecordFrame

\* The record and ws.json stay consistent, whatever fails.
LEMMA RecordAlways == Spec => [](TypeOK /\ RecordInv)
  <1>1. Init => TypeOK /\ RecordInv
    BY InitType DEF Init, RecordInv, SandboxHasOrigin, NoRecord, NoFile, OnOrigin
  <1>2. TypeOK /\ RecordInv /\ [Next]_vars => RecordInv'
    BY RecordStep
  <1>3. QED
    BY <1>1, <1>2, TypeCorrect, SafetyPart, PTL

\* Whatever fails, and whenever the program dies, neither the record nor ws.json
\* names a sandbox without its origin: ErrWorkspaceSandboxSetOriginEmpty never
\* arises.
THEOREM RecordCorrect == Spec => []SandboxHasOrigin
  BY RecordAlways, PTL DEF RecordInv

-----------------------------------------------------------------------------
(* Merges.                                                                 *)

Merging == {"mergeAdd", "mergeFetch", "mergeCheck", "mergeMerge", "mergeDelete"}

\* A merge is under way only after its own steps, or while the agent and the user
\* work.
LEMMA MergeFrame ==
  ASSUME Next, pc' \in Merging
  PROVE  MergeSbox \/ MergeAdd \/ MergeFetch \/ MergeCheck \/ MergeMerge \/ Agent \/ User
  <1> USE DEF Merging
  <1>1. ~(LoadThread \/ SetupLoad \/ Setup \/ AskDir)
    BY DEF LoadThread, SetupLoad, Setup, AskDir, Goto, Finish
  <1>2. ~(ResetRemove \/ ResetSave \/ SboxCheck \/ SboxRemove \/ SboxClone \/ SboxSave)
    BY DEF ResetRemove, ResetSave, SboxCheck, SboxRemove, SboxClone, CloneSandbox, SboxSave,
           Goto, Finish
  <1>3. ~(AddClone \/ AddSave \/ SyncStatus \/ SyncFetch \/ SyncCheck \/ SyncMerge)
    BY DEF AddClone, CloneSandbox, AddSave, SyncStatus, SyncFetch, SyncCheck, SyncMerge, Goto,
           Finish
  <1>4. ~(PushStatus \/ Push \/ MergeOrigin \/ MergeDelete)
    BY DEF PushStatus, Push, MergeOrigin, MergeDelete, Goto, Finish
  <1>5. ~(CommitList \/ CommitAsk \/ CommitAdd \/ CommitRun)
    BY DEF CommitList, CommitAsk, CommitAdd, CommitRun, Goto, Finish
  <1>6. ~(ArchiveCheck \/ ArchiveClear \/ ArchiveMove)
    BY DEF ArchiveCheck, ArchiveClear, ArchiveMove, Goto, Finish
  <1>7. ~(OpenSetup \/ Choose \/ ChooseReset \/ ChooseArchive \/ Quit)
    BY DEF OpenSetup, Choose, ChooseReset, ChooseArchive, Begin, Goto, Quit
  <1>8. QED
    BY <1>1, <1>2, <1>3, <1>4, <1>5, <1>6, <1>7 DEF Next, Program

\* The agent only adds to the branch it is on.
LEMMA AgentAdds ==
  ASSUME TypeOK, Agent
  PROVE  /\ SboxExists /\ SboxExists' /\ rec.sbox
         /\ sbox.tip["main"] \subseteq sbox'.tip["main"]
         /\ sbox'.fetched = sbox.fetched
         /\ sbox.on # "main" /\ sbox'.on = "main" => sbox'.tip["detached"] = {}
         /\ sbox.on = "main" /\ sbox'.on = "main" => sbox'.tip["detached"] = sbox.tip["detached"]
         /\ ~sbox.linked => ~sbox'.linked
  <1>0. sbox \in Sandbox /\ sbox.on \in Heads
    BY SandboxType, TypeParts DEF Agent
  <1>1. CASE sbox' = [sbox EXCEPT !.dirty = TRUE] \/ sbox' = [sbox EXCEPT !.linked = FALSE]
    BY <1>0, <1>1 DEF Agent, Sandbox, SboxExists
  <1>2. CASE \E f \in Files : sbox' = [sbox EXCEPT !.new = @ \cup {f}]
    BY <1>0, <1>2 DEF Agent, Sandbox, SboxExists
  <1>3. CASE \E c \in Unused :
                 sbox' = [sbox EXCEPT !.tip[sbox.on] = @ \cup {c} \cup sbox.mergeHead,
                                      !.dirty = FALSE, !.staged = FALSE, !.new = {}, !.mergeHead = {}]
    <2>1. PICK c \in Unused :
             sbox' = [sbox EXCEPT !.tip[sbox.on] = @ \cup {c} \cup sbox.mergeHead,
                                  !.dirty = FALSE, !.staged = FALSE, !.new = {}, !.mergeHead = {}]
      BY <1>3
    <2>2. /\ sbox'.tip = [sbox.tip EXCEPT ![sbox.on] = @ \cup {c} \cup sbox.mergeHead]
          /\ sbox'.on = sbox.on /\ sbox'.fetched = sbox.fetched /\ sbox'.linked = sbox.linked
      BY <1>0, <2>1 DEF Sandbox
    <2>3. /\ sbox.tip["main"] \subseteq sbox'.tip["main"]
          /\ sbox.on = "main" => sbox'.tip["detached"] = sbox.tip["detached"]
      BY <1>0, <2>2 DEF Sandbox, Heads
    <2>4. QED
      BY <2>2, <2>3 DEF Agent, SboxExists
  <1>4. CASE \E h \in Heads \ {sbox.on} :
                 sbox' = [sbox EXCEPT !.on = h,
                                      !.tip["detached"] = IF h = "detached" THEN Tip ELSE {}]
    <2>1. PICK h \in Heads \ {sbox.on} :
             sbox' = [sbox EXCEPT !.on = h,
                                  !.tip["detached"] = IF h = "detached" THEN Tip ELSE {}]
      BY <1>4
    <2>2. /\ sbox'.tip = [sbox.tip EXCEPT !["detached"] = IF h = "detached" THEN Tip ELSE {}]
          /\ sbox'.on = h /\ sbox'.fetched = sbox.fetched /\ sbox'.linked = sbox.linked
      BY <1>0, <2>1 DEF Sandbox
    <2>3. /\ sbox.tip["main"] \subseteq sbox'.tip["main"]
          /\ h # "detached" => sbox'.tip["detached"] = {}
      BY <1>0, <2>2 DEF Sandbox, Heads
    <2>4. QED
      BY <2>1, <2>2, <2>3 DEF Agent, SboxExists, Heads
  <1>5. QED
    BY <1>1, <1>2, <1>3, <1>4 DEF Agent

\* The user only adds to the origin, or deletes it.
LEMMA UserAdds ==
  ASSUME TypeOK, User
  PROVE  /\ origin.ok
         /\ origin'.ok => origin.head \subseteq origin'.head /\ origin'.pushed = origin.pushed
         /\ origin'.remote => origin.remote
  <1>0. origin \in Repository
    BY TypeParts
  <1>1. CASE origin' = [origin EXCEPT !.dirty = TRUE]
    BY <1>0, <1>1 DEF User, Repository
  <1>2. CASE \E c \in UserCommits \ origin.head :
                 origin' = [origin EXCEPT !.dirty = FALSE, !.mergeHead = {},
                                          !.head = @ \cup {c} \cup origin.mergeHead]
    BY <1>0, <1>2 DEF User, Repository
  <1>3. CASE origin' = [ok |-> FALSE, head |-> {}, dirty |-> FALSE, mergeHead |-> {},
                        pushed |-> {}, remote |-> FALSE]
    BY <1>3 DEF User
  <1>4. QED
    BY <1>1, <1>2, <1>3 DEF User

\* What a merge looked at stays in the sandbox until it is fetched, then in what
\* was fetched until it is merged, and then in the origin.
LEMMA MergeStep ==
  ASSUME TypeOK, MergeInv, [Next]_vars
  PROVE  MergeInv'
  <1> USE DEF MergeInv, MergeTakesAll
  <1>0. origin \in Repository /\ sbox \in Sandbox /\ st \in Status
    BY TypeParts DEF LocalsOK
  <1>1. CASE pc' \notin Merging
    BY <1>1 DEF Merging
  <1>2. CASE MergeSbox
    BY <1>2 DEF MergeSbox, Goto, Finish, SboxStatus, Tip, SboxExists, disk
  <1>3. CASE MergeAdd
    BY <1>3 DEF MergeAdd, Goto, Finish, locals, SboxExists
  <1>4. CASE MergeFetch
    <2>1. CASE pc' = "mergeCheck"
      BY <1>0, <1>4, <2>1 DEF MergeFetch, Goto, SboxExists, Status
    <2>2. CASE pc' = "mergeDelete"
      BY <1>0, <1>4, <2>2 DEF MergeFetch, Goto, Status
    <2>3. QED
      BY <1>4, <2>1, <2>2 DEF MergeFetch, Goto
  <1>5. CASE MergeMerge
    <2>1. pc = "mergeMerge" /\ pc' = "mergeDelete"
      BY <1>5 DEF MergeMerge, Goto
    <2>2. CASE ~st'.ok
      BY <2>1, <2>2
    <2>3. CASE st' = st /\ origin' = [origin EXCEPT !.head = @ \cup st.got]
      BY <1>0, <2>1, <2>3 DEF Repository
    <2>4. QED
      BY <1>0, <1>5, <2>2, <2>3 DEF MergeMerge, Status
  <1>6. CASE MergeCheck
    BY <1>0, <1>6 DEF MergeCheck, Goto, Status
  <1>7. CASE Agent
    BY <1>7, AgentAdds DEF Agent, locals
  <1>8. CASE User
    <2>1. pc' = pc /\ st' = st /\ sbox' = sbox
      BY <1>8 DEF User, locals
    <2>2. origin'.ok => origin.ok /\ origin.head \subseteq origin'.head
      BY <1>8, UserAdds
    <2>3. QED
      BY <2>1, <2>2 DEF SboxExists
  <1>9. CASE UNCHANGED vars
    BY <1>9 DEF vars, SboxExists
  <1>10. QED
    BY <1>1, <1>2, <1>3, <1>4, <1>5, <1>6, <1>7, <1>8, <1>9, MergeFrame

\* A merge that succeeded brought every commit that the sandbox's branch had when
\* its status was read, whatever the agent committed since, and whatever failed.
THEOREM MergeCorrect == Spec => []MergeTakesAll
  <1>1. Init => MergeInv
    BY DEF Init, MergeInv, MergeTakesAll
  <1>2. TypeOK /\ MergeInv /\ [Next]_vars => MergeInv'
    BY MergeStep
  <1>3. MergeInv => MergeTakesAll
    BY DEF MergeInv
  <1>4. QED
    BY <1>1, <1>2, <1>3, TypeCorrect, SafetyPart, PTL

\* What may happen while the remote of a merge is there, or where a commit stages.
LEMMA StepsFrom ==
  ASSUME Next, pc \in {"mergeFetch", "mergeCheck", "mergeMerge", "mergeDelete", "commitAdd"}
  PROVE  \/ MergeFetch \/ MergeCheck \/ MergeMerge \/ MergeDelete \/ CommitAdd
         \/ Agent \/ User \/ Quit
  <1>1. ~(LoadThread \/ SetupLoad \/ Setup \/ AskDir \/ ResetRemove \/ ResetSave)
    BY DEF LoadThread, SetupLoad, Setup, AskDir, ResetRemove, ResetSave
  <1>2. ~(SboxCheck \/ SboxRemove \/ SboxClone \/ SboxSave \/ AddClone \/ AddSave)
    BY DEF SboxCheck, SboxRemove, SboxClone, SboxSave, AddClone, AddSave
  <1>3. ~(SyncStatus \/ SyncFetch \/ SyncCheck \/ SyncMerge \/ PushStatus \/ Push)
    BY DEF SyncStatus, SyncFetch, SyncCheck, SyncMerge, PushStatus, Push
  <1>4. ~(MergeOrigin \/ MergeSbox \/ MergeAdd \/ CommitList \/ CommitAsk \/ CommitRun)
    BY DEF MergeOrigin, MergeSbox, MergeAdd, CommitList, CommitAsk, CommitRun
  <1>5. ~(ArchiveCheck \/ ArchiveClear \/ ArchiveMove)
    BY DEF ArchiveCheck, ArchiveClear, ArchiveMove
  <1>6. ~(OpenSetup \/ Choose \/ ChooseReset \/ ChooseArchive)
    BY DEF OpenSetup, Choose, ChooseReset, ChooseArchive, Begin
  <1>7. QED
    BY <1>1, <1>2, <1>3, <1>4, <1>5, <1>6 DEF Next, Program

\* While no git command is killed, the remote that a merge adds to the origin is
\* gone when the merge is over, however it ended.
THEOREM RemoteCorrect ==
  ASSUME "git" \notin Faults
  PROVE  Spec => []RemoteIsTemporary
  <1>1. Init => RemoteIsTemporary
    BY DEF Init, RemoteIsTemporary
  <1>2. TypeOK /\ RemoteIsTemporary /\ [Next]_vars => RemoteIsTemporary'
    <2> SUFFICES ASSUME TypeOK, RemoteIsTemporary, [Next]_vars, origin'.remote
                 PROVE  pc' \in {"mergeFetch", "mergeCheck", "mergeMerge", "mergeDelete"}
      BY DEF RemoteIsTemporary
    <2>0. origin \in Repository
      BY TypeParts
    <2>1. CASE AskDir \/ Push \/ MergeDelete \/ Quit
      BY <2>0, <2>1 DEF AskDir, Push, MergeDelete, Quit, Fails, Repository, RemoteIsTemporary, Goto
    <2>2. CASE MergeAdd
      BY <2>2 DEF MergeAdd, RemoteIsTemporary, Goto
    <2>3. CASE MergeMerge
      BY <2>3 DEF MergeMerge, Goto
    <2>4. CASE User
      BY <2>4, UserAdds DEF User, RemoteIsTemporary
    <2>5. CASE UNCHANGED origin
      <3>1. pc \in {"mergeFetch", "mergeCheck", "mergeMerge", "mergeDelete"}
        BY <2>5 DEF RemoteIsTemporary
      <3>2. CASE Next
        <4>1. MergeFetch \/ MergeCheck \/ MergeMerge \/ MergeDelete \/ Agent \/ User \/ Quit
          BY <3>1, <3>2, StepsFrom DEF CommitAdd
        <4>2. QED
          BY <2>1, <2>4, <3>1, <4>1 DEF MergeFetch, MergeCheck, MergeMerge, Agent, Goto
      <3>3. QED
        BY <3>1, <3>2 DEF vars
    <2>6. QED
      BY <2>1, <2>2, <2>3, <2>4, <2>5, OriginFrame
  <1>3. QED
    BY <1>1, <1>2, TypeCorrect, SafetyPart, PTL

-----------------------------------------------------------------------------
(* Commits.                                                                *)

\* While the user commits, answers and retries, and the agent creates files, no
\* untracked file is staged for a commit without the user's yes to that file.
THEOREM CommitCorrect == Spec => CommitNeedsYes
  <1>1. TypeOK /\ [Next]_vars =>
          [pc = "commitAdd" /\ pc' \in {"commitRun", "idle"} =>
             \A f \in sbox.new \ sbox'.new : include[f] = "yes"]_vars
    <2> SUFFICES ASSUME TypeOK, Next, pc = "commitAdd", pc' \in {"commitRun", "idle"},
                        NEW f \in sbox.new \ sbox'.new
                 PROVE  include[f] = "yes"
      BY DEF vars
    <2>0. sbox \in Sandbox
      BY TypeParts
    <2>1. CommitAdd
      BY StepsFrom DEF MergeFetch, MergeCheck, MergeMerge, MergeDelete, Agent, User, Quit
    <2>2. sbox' = sbox \/ \E files \in SUBSET Wanted : Stage(files)
      BY <2>1 DEF CommitAdd
    <2>3. PICK files \in SUBSET Wanted : sbox'.new = sbox.new \ files
      BY <2>0, <2>2 DEF Stage, Sandbox
    <2>4. QED
      BY <2>3 DEF Wanted
  <1>2. QED
    BY <1>1, TypeCorrect, SafetyPart, PTL DEF CommitNeedsYes

-----------------------------------------------------------------------------
(* Removals of the sandbox.                                                *)

\* How the steps that remove a sandbox, save after it, or add one, are reached.
LEMMA RemovalFrame ==
  ASSUME Next, pc' \in {"askDir", "addClone", "addSave", "resetSave", "sboxClone", "resetRemove",
                        "sboxCheck", "sboxRemove", "archiveClear"}
  PROVE  \/ LoadThread \/ ResetRemove \/ SboxCheck \/ SboxRemove \/ SetupLoad \/ Setup \/ AskDir
         \/ AddClone \/ ChooseReset \/ ArchiveCheck \/ ChooseArchive \/ Agent \/ User
  <1>1. ~(ResetSave \/ SboxClone \/ SboxSave \/ AddSave)
    BY DEF ResetSave, SboxClone, CloneSandbox, SboxSave, AddSave, Goto, Finish
  <1>2. ~(SyncStatus \/ SyncFetch \/ SyncCheck \/ SyncMerge \/ PushStatus \/ Push)
    BY DEF SyncStatus, SyncFetch, SyncCheck, SyncMerge, PushStatus, Push, Goto, Finish
  <1>3. ~(MergeOrigin \/ MergeSbox \/ MergeAdd \/ MergeFetch \/ MergeCheck \/ MergeMerge
          \/ MergeDelete)
    BY DEF MergeOrigin, MergeSbox, MergeAdd, MergeFetch, MergeCheck, MergeMerge, MergeDelete,
           Goto, Finish
  <1>4. ~(CommitList \/ CommitAsk \/ CommitAdd \/ CommitRun \/ ArchiveClear \/ ArchiveMove)
    BY DEF CommitList, CommitAsk, CommitAdd, CommitRun, ArchiveClear, ArchiveMove, Goto, Finish
  <1>5. ~(OpenSetup \/ Choose \/ Quit)
    BY DEF OpenSetup, Choose, Begin, Goto, Quit
  <1>6. QED
    BY <1>1, <1>2, <1>3, <1>4, <1>5 DEF Next, Program

\* No sandbox holds no work, nor does a fresh clone.
LEMMA CloneIsPristine ==
  ASSUME sbox' = NoSbox \/ sbox' = FreshClone
  PROVE  Pristine'
  <1>1. CASE sbox' = NoSbox
    BY <1>1 DEF Pristine, SboxExists, NoSbox
  <1>2. CASE sbox' = FreshClone
    BY <1>2 DEF Pristine, SboxDirty, FreshClone
  <1>3. QED
    BY <1>1, <1>2

\* Only where the record and ws.json tell of the workspace does anybody work in it.
LEMMA PristineStep ==
  ASSUME RecordInv, [Next]_vars, Pristine
  PROVE  Pristine' \/ (rec.origin /\ file.origin /\ UNCHANGED record)
  <1>1. CASE UNCHANGED sbox
    BY <1>1 DEF Pristine, SboxExists, SboxDirty
  <1>2. CASE ResetRemove \/ SboxRemove \/ SboxClone \/ AddClone \/ AddSave \/ ArchiveClear
    <2>1. sbox' = NoSbox \/ sbox' = FreshClone \/ sbox' = sbox
      BY <1>2 DEF ResetRemove, SboxRemove, SboxClone, AddClone, AddSave, ArchiveClear, CloneSandbox
    <2>2. QED
      BY <1>1, <2>1, CloneIsPristine
  <1>3. CASE SyncFetch \/ SyncMerge \/ CommitAdd \/ CommitRun
    BY <1>3 DEF SyncFetch, SyncMerge, CommitAdd, CommitRun, RecordInv, OnOrigin
  <1>4. CASE Agent
    BY <1>4 DEF Agent, RecordInv, SandboxHasOrigin
  <1>5. QED
    BY <1>1, <1>2, <1>3, <1>4, SandboxFrame

\* Reading a ws.json that tells of an origin, when the program starts.
LEMMA LoadKnown ==
  ASSUME file.origin, LoadThread, "read" \notin Faults
  PROVE  /\ file' = file
         /\ (rec' = rec /\ pc' = "resetRemove") \/ rec' = file
  <1>1. PICK outcome \in {"missing", "unreadable", "originInvalid", "sandboxInvalid", "ok"} :
           /\ Load(outcome)
           /\ CASE outcome = "originInvalid"  -> Goto("resetRemove") /\ UNCHANGED file
                [] outcome = "sandboxInvalid" -> Goto("sboxCheck") /\ UNCHANGED file
                [] outcome = "ok"             -> Goto("idle") /\ UNCHANGED file
                [] OTHER                      -> Goto("idle") /\ \E ok \in BOOLEAN : Save(ok)
    BY DEF LoadThread
  <1>2. ~NoFile.origin
    BY DEF NoFile
  <1>3. outcome \notin {"missing", "unreadable"}
    BY <1>1, <1>2 DEF Load, Fails
  <1>4. CASE outcome = "originInvalid"
    BY <1>1, <1>4 DEF Load, Goto
  <1>5. CASE outcome \in {"sandboxInvalid", "ok"}
    BY <1>1, <1>5 DEF Load
  <1>6. QED
    BY <1>3, <1>4, <1>5

\* A sandbox that ws.json does not tell of stays as it was cloned.  Reading ws.json
\* never fails: a thread that could not be read would be saved as one without
\* workspace.
LEMMA UntoldStep ==
  ASSUME TypeOK, RecordInv, KeepInv, [Next]_vars, "read" \notin Faults
  PROVE  /\ ~file'.origin => Pristine'
         /\ ~rec'.origin /\ pc' \notin {"down", "resetRemove"} => Pristine'
  <1>0. /\ rec \in Record /\ ~NoFile.origin
        /\ ~file.origin => Pristine
        /\ ~rec.origin /\ pc \notin {"down", "resetRemove"} => Pristine
        /\ rec.origin => file.origin
        /\ ~SboxExists => Pristine
    BY DEF TypeOK, NoFile, KeepInv, RecordInv, Pristine
  <1>1. SUFFICES ASSUME ~Pristine, ~Pristine'
                 PROVE  file'.origin /\ (rec'.origin \/ pc' \in {"down", "resetRemove"})
    BY <1>0, PristineStep DEF record
  <1>2. file.origin /\ (rec.origin \/ pc \in {"down", "resetRemove"}) /\ SboxExists
    BY <1>0, <1>1
  <1>3. CASE UNCHANGED record
    <2>1. CASE LoadThread
      BY <1>2, <2>1, LoadKnown
    <2>2. CASE ResetRemove
      BY <1>1, <2>2, CloneIsPristine DEF ResetRemove
    <2>3. CASE pc \notin {"down", "resetRemove"}
      BY <1>2, <1>3, <2>3 DEF record
    <2>4. CASE Quit \/ Agent \/ User \/ UNCHANGED vars
      <3>1. pc' \in {pc, "down"}
        BY <2>4 DEF Quit, Agent, User, vars
      <3>2. QED
        BY <1>2, <1>3, <3>1 DEF record
    <2>5. pc \in {"down", "resetRemove"} =>
             LoadThread \/ ResetRemove \/ Quit \/ Agent \/ User \/ UNCHANGED vars
      <3>1. CASE ResetSave \/ SboxCheck \/ SboxRemove \/ SboxClone \/ SboxSave \/ SetupLoad \/ Setup
        BY <3>1 DEF ResetSave, SboxCheck, SboxRemove, SboxClone, SboxSave, SetupLoad, Setup
      <3>2. CASE AskDir \/ AddClone \/ AddSave \/ SyncStatus \/ SyncFetch \/ SyncCheck
                 \/ SyncMerge \/ PushStatus
                   \/ Push
        BY <3>2 DEF AskDir, AddClone, AddSave, SyncStatus, SyncFetch, SyncCheck, SyncMerge,
                    PushStatus, Push
      <3>3. CASE MergeOrigin \/ MergeSbox \/ MergeAdd \/ MergeFetch \/ MergeCheck
                 \/ MergeMerge \/ MergeDelete
        BY <3>3 DEF MergeOrigin, MergeSbox, MergeAdd, MergeFetch, MergeCheck, MergeMerge,
                    MergeDelete
      <3>4. CASE CommitList \/ CommitAsk \/ CommitAdd \/ CommitRun \/ ArchiveCheck
                 \/ ArchiveClear \/ ArchiveMove
        BY <3>4 DEF CommitList, CommitAsk, CommitAdd, CommitRun, ArchiveCheck, ArchiveClear,
                    ArchiveMove
      <3>5. CASE OpenSetup \/ Choose \/ ChooseReset \/ ChooseArchive
        BY <3>5 DEF OpenSetup, Choose, ChooseReset, ChooseArchive, Begin
      <3>6. QED
        BY <3>1, <3>2, <3>3, <3>4, <3>5 DEF Next, Program
    <2>6. QED
      BY <2>1, <2>2, <2>3, <2>4, <2>5
  <1>4. CASE LoadThread \/ SetupLoad
    <2>1. CASE LoadThread
      BY <1>2, <2>1, LoadKnown
    <2>2. CASE SetupLoad
      <3>1. rec.origin
        BY <1>2, <2>2 DEF SetupLoad
      <3>2. file' = file /\ rec' \in {rec, file}
        BY <1>0, <1>2, <2>2 DEF SetupLoad, Load, Fails
      <3>3. QED
        BY <1>2, <3>1, <3>2
    <2>3. QED
      BY <1>4, <2>1, <2>2
  <1>5. CASE ResetRemove
    BY <1>1, <1>5, CloneIsPristine DEF ResetRemove
  <1>6. CASE ResetSave
    BY <1>2, <1>6 DEF KeepInv, ResetSave
  <1>7. CASE SboxSave \/ Setup \/ ArchiveClear
    <2>1. rec.origin
      BY <1>2, <1>7 DEF SboxSave, Setup, ArchiveClear
    <2>2. rec'.origin
      BY <1>0, <1>7, <2>1 DEF SboxSave, Setup, ArchiveClear, Record
    <2>3. file' = rec' \/ file' = file
      BY <1>7 DEF SboxSave, Setup, ArchiveClear, Save
    <2>4. QED
      BY <1>2, <2>2, <2>3
  <1>8. CASE AddSave
    BY <1>2, <1>8 DEF AddSave, KeepInv
  <1>9. CASE ArchiveMove
    BY <1>2, <1>9 DEF ArchiveMove, Save
  <1>10. CASE Quit
    BY <1>2, <1>10 DEF Quit
  <1>11. QED
    BY <1>3, <1>4, <1>5, <1>6, <1>7, <1>8, <1>9, <1>10, RecordFrame

\* What an outcome of reading ws.json tells, while no git command is killed.
LEMMA LoadTells ==
  ASSUME "git" \notin Faults
  PROVE  /\ Load("originInvalid") => ~origin.ok
         /\ Load("sandboxInvalid") => ~SboxValid
  BY DEF Load, Fails, OriginValid

\* A removal begins with an answer of the user or the ruin of a repository, and
\* ends without a sandbox; a sandbox is added to a record that has none.
LEMMA RemovalStep ==
  ASSUME TypeOK, RecordInv, KeepInv, [Next]_vars, "git" \notin Faults
  PROVE  /\ pc' \in {"askDir", "addClone", "addSave"} => ~rec'.origin
         /\ pc' \in {"resetSave", "sboxClone"} => ~SboxExists'
         /\ pc' = "resetRemove" => consent' \/ ~origin'.ok
         /\ pc' \in {"sboxCheck", "sboxRemove"} => consent' \/ ~SboxValid'
  <1> DEFINE Goal == /\ pc' \in {"askDir", "addClone", "addSave"} => ~rec'.origin
                     /\ pc' \in {"resetSave", "sboxClone"} => ~SboxExists'
                     /\ pc' = "resetRemove" => consent' \/ ~origin'.ok
                     /\ pc' \in {"sboxCheck", "sboxRemove"} => consent' \/ ~SboxValid'
  <1>0. /\ pc \in {"askDir", "addClone", "addSave"} => ~rec.origin
        /\ pc \in {"resetSave", "sboxClone"} => ~SboxExists
        /\ pc = "resetRemove" => consent \/ ~origin.ok
        /\ pc \in {"sboxCheck", "sboxRemove"} => consent \/ ~SboxValid
    BY DEF KeepInv
  <1>1. CASE LoadThread
    <2>1. PICK outcome \in {"missing", "unreadable", "originInvalid", "sandboxInvalid", "ok"} :
             /\ Load(outcome)
             /\ CASE outcome = "originInvalid"  -> Goto("resetRemove") /\ UNCHANGED file
                  [] outcome = "sandboxInvalid" -> Goto("sboxCheck") /\ UNCHANGED file
                  [] outcome = "ok"             -> Goto("idle") /\ UNCHANGED file
                  [] OTHER                      -> Goto("idle") /\ \E ok \in BOOLEAN : Save(ok)
      BY <1>1 DEF LoadThread
    <2>2. origin' = origin /\ sbox' = sbox
      BY <1>1 DEF LoadThread, disk
    <2>3. CASE outcome = "originInvalid"
      BY <2>1, <2>2, <2>3, LoadTells DEF Goto
    <2>4. CASE outcome = "sandboxInvalid"
      BY <2>1, <2>2, <2>4, LoadTells DEF Goto, SboxValid, SboxExists
    <2>5. CASE outcome \in {"missing", "unreadable", "ok"}
      BY <2>1, <2>5 DEF Goto
    <2>6. QED
      BY <2>1, <2>3, <2>4, <2>5
  <1>2. CASE SetupLoad
    <2>1. origin' = origin /\ sbox' = sbox
      BY <1>2 DEF SetupLoad, disk
    <2>2. CASE Load("originInvalid") /\ pc' = "resetRemove"
      BY <2>1, <2>2, LoadTells
    <2>3. CASE Load("sandboxInvalid") /\ pc' = "sboxCheck"
      BY <2>1, <2>3, LoadTells DEF SboxValid, SboxExists
    <2>4. CASE pc' \in {"setup", "idle"}
      BY <2>4
    <2>5. QED
      BY <1>2, <2>2, <2>3, <2>4 DEF SetupLoad, Goto, Finish
  <1>3. CASE ResetRemove \/ SboxRemove
    BY <1>3 DEF ResetRemove, SboxRemove, Goto, SboxExists, NoSbox
  <1>4. CASE SboxCheck
    <2>1. origin' = origin /\ sbox' = sbox /\ consent' = consent /\ (consent \/ ~SboxValid)
      BY <1>0, <1>4 DEF SboxCheck, disk
    <2>2. CASE pc' = "sboxRemove"
      BY <2>1, <2>2 DEF SboxValid, SboxExists
    <2>3. CASE ~OriginValid /\ pc' = "resetRemove"
      BY <2>1, <2>3 DEF OriginValid
    <2>4. QED
      BY <1>4, <2>2, <2>3 DEF SboxCheck, Goto, Fails
  <1>5. CASE Setup
    <2>1. CASE pc' = "resetRemove" /\ consent'
      BY <2>1
    <2>2. CASE pc' = "idle"
      BY <2>2
    <2>3. CASE pc' \in {"addClone", "askDir"} /\ rec' = rec /\ ~rec.origin
      BY <2>3
    <2>4. QED
      BY <1>5, <2>1, <2>2, <2>3 DEF Setup, Goto, Finish
  <1>6. CASE AskDir \/ AddClone
    <2>1. ~rec.origin /\ rec' = rec /\ pc' \in {"idle", "addClone", "addSave"}
      BY <1>0, <1>6 DEF AskDir, AddClone, CloneSandbox, Goto, Finish, record
    <2>2. QED
      BY <2>1
  <1>7. CASE ChooseReset \/ ChooseArchive \/ ArchiveCheck
    BY <1>7 DEF ChooseReset, ChooseArchive, ArchiveCheck, Begin, Goto, Finish
  <1>8. CASE Agent
    <2>1. /\ pc' = pc /\ rec' = rec /\ consent' = consent /\ origin' = origin
          /\ SboxExists /\ (~sbox.linked => ~sbox'.linked)
      BY <1>8, AgentAdds DEF Agent, locals, record
    <2>2. QED
      BY <1>0, <2>1 DEF SboxValid
  <1>9. CASE User
    <2>1. /\ pc' = pc /\ rec' = rec /\ consent' = consent /\ sbox' = sbox /\ origin.ok
      BY <1>9 DEF User, locals, record
    <2>2. QED
      BY <1>0, <2>1 DEF SboxValid, SboxExists
  <1>10. CASE UNCHANGED vars
    BY <1>0, <1>10 DEF vars, SboxValid, SboxExists
  <1>11. CASE pc' \notin {"askDir", "addClone", "addSave", "resetSave", "sboxClone",
                          "resetRemove", "sboxCheck", "sboxRemove"}
    BY <1>11
  <1>12. Goal
    BY <1>1, <1>2, <1>3, <1>4, <1>5, <1>6, <1>7, <1>8, <1>9, <1>10, <1>11, RemovalFrame
  <1>13. QED
    BY <1>12

\* A branch with upstream is checked out only when the detached one is given up.
LEMMA BranchStep ==
  ASSUME TypeOK, KeepInv, [Next]_vars
  PROVE  sbox'.on = "main" => sbox'.tip["detached"] = {}
  <1>0. /\ sbox \in Sandbox
        /\ sbox.on = "main" => sbox.tip["detached"] = {}
    BY TypeParts DEF KeepInv
  <1>1. CASE UNCHANGED sbox
    BY <1>0, <1>1
  <1>2. CASE ResetRemove \/ SboxRemove \/ SboxClone \/ AddClone \/ AddSave \/ ArchiveClear
    <2>1. sbox' = NoSbox \/ sbox' = FreshClone \/ sbox' = sbox
      BY <1>2 DEF ResetRemove, SboxRemove, SboxClone, AddClone, AddSave, ArchiveClear, CloneSandbox
    <2>2. QED
      BY <1>0, <2>1 DEF NoSbox, FreshClone, Heads
  <1>3. CASE SyncFetch
    BY <1>0, <1>3 DEF SyncFetch, Sandbox
  <1>4. CASE SyncMerge
    <2>1. CASE sbox' = [sbox EXCEPT !.tip[sbox.on] = @ \cup sbox.fetched]
      <3>1. sbox'.tip = [sbox.tip EXCEPT ![sbox.on] = @ \cup sbox.fetched] /\ sbox'.on = sbox.on
        BY <1>0, <2>1 DEF Sandbox
      <3>2. QED
        BY <1>0, <3>1 DEF Sandbox, Heads
    <2>2. CASE sbox' = [sbox EXCEPT !.mergeHead = sbox.fetched, !.dirty = TRUE] \/ sbox' = sbox
      BY <1>0, <2>2 DEF Sandbox
    <2>3. QED
      BY <1>4, <2>1, <2>2 DEF SyncMerge
  <1>5. CASE CommitAdd
    <2>1. sbox' = sbox \/ \E files : Stage(files)
      BY <1>5 DEF CommitAdd
    <2>2. QED
      BY <1>0, <2>1 DEF Stage, Sandbox
  <1>6. CASE CommitRun
    <2>1. CASE \E c \in Unused :
                   sbox' = [sbox EXCEPT !.tip[sbox.on] = @ \cup {c} \cup sbox.mergeHead,
                                        !.staged = FALSE, !.mergeHead = {}]
      <3>1. PICK c \in Unused :
               sbox' = [sbox EXCEPT !.tip[sbox.on] = @ \cup {c} \cup sbox.mergeHead,
                                    !.staged = FALSE, !.mergeHead = {}]
        BY <2>1
      <3>2. /\ sbox'.tip = [sbox.tip EXCEPT ![sbox.on] = @ \cup {c} \cup sbox.mergeHead]
            /\ sbox'.on = sbox.on
        BY <1>0, <3>1 DEF Sandbox
      <3>3. QED
        BY <1>0, <3>2 DEF Sandbox, Heads
    <2>2. CASE sbox' = sbox
      BY <1>0, <2>2
    <2>3. QED
      BY <1>6, <2>1, <2>2 DEF CommitRun
  <1>7. CASE Agent
    <2>1. sbox.on \in Heads
      BY <1>7, SandboxType DEF Agent
    <2>2. QED
      BY <1>0, <1>7, <2>1, AgentAdds DEF Heads
  <1>8. QED
    BY <1>1, <1>2, <1>3, <1>4, <1>5, <1>6, <1>7, SandboxFrame

\* Where the check of the archive sees no work on a branch with upstream, there is
\* none on any other.
LEMMA SightIsWork ==
  ASSUME TypeOK, sbox.on = "main" => sbox.tip["detached"] = {}, NoQuestion, rec.sbox
  PROVE  Sight # "shown"
  <1>1. SUFFICES ASSUME Work, ~archived, sbox.on = "main"
                 PROVE  FALSE
    BY DEF Sight
  <1>2. SboxExists /\ ~SboxDirty /\ sbox.tip["main"] \subseteq sbox.fetched
    BY <1>1 DEF NoQuestion, Ahead, Tip
  <1>3. \A h \in Heads : sbox.tip[h] \subseteq sbox.fetched
    BY <1>1, <1>2 DEF Heads
  <1>4. QED
    BY <1>1, <1>2, <1>3 DEF Work

\* Work that the check of the archive saw is cleared only after the question.
LEMMA ArchiveStep ==
  ASSUME TypeOK, KeepInv, [Next]_vars
  PROVE  pc' = "archiveClear" /\ seen' = "shown" => consent' \/ ~rec'.sbox
  <1> SUFFICES ASSUME pc' = "archiveClear", seen' = "shown"
               PROVE  consent' \/ ~rec'.sbox
    OBVIOUS
  <1>0. /\ pc = "archiveClear" /\ seen = "shown" => consent \/ ~rec.sbox
        /\ sbox.on = "main" => sbox.tip["detached"] = {}
    BY DEF KeepInv
  <1>1. CASE Next
    <2>1. ArchiveCheck \/ Agent \/ User
      <3>1. ~(LoadThread \/ ResetRemove \/ SboxCheck \/ SboxRemove)
        BY DEF LoadThread, ResetRemove, SboxCheck, SboxRemove, Goto
      <3>2. ~(SetupLoad \/ Setup \/ AskDir \/ AddClone \/ ChooseReset \/ ChooseArchive)
        BY DEF SetupLoad, Setup, AskDir, AddClone, CloneSandbox, ChooseReset, ChooseArchive, Begin,
               Goto, Finish
      <3>3. QED
        BY <1>1, <3>1, <3>2, RemovalFrame
    <2>2. CASE ArchiveCheck
      <3>1. rec' = rec /\ ((NoQuestion /\ seen' = Sight) \/ consent')
        BY <2>2 DEF ArchiveCheck, Goto, Finish, record
      <3>2. QED
        BY <1>0, <3>1, SightIsWork
    <2>3. CASE Agent \/ User
      BY <1>0, <2>3 DEF Agent, User, locals, record
    <2>4. QED
      BY <2>1, <2>2, <2>3
  <1>2. CASE UNCHANGED vars
    BY <1>0, <1>2 DEF vars
  <1>3. QED
    BY <1>1, <1>2

\* The operations remove a sandbox that holds work only when the user agreed, when
\* it or the origin is really ruined, or when archiving found nothing to ask about.
\* A read of ws.json that fails, or a git command that is killed, passes for a
\* ruined workspace: without these, for any number of commits and files, and
\* whatever else fails.
THEOREM WorkKeptCorrect ==
  ASSUME "git" \notin Faults, "read" \notin Faults
  PROVE  Spec => WorkKept
  <1>1. Init => KeepInv
    BY DEF Init, KeepInv, Pristine, SboxExists, NoSbox, NoFile, NoRecord
  <1>2. TypeOK /\ RecordInv /\ KeepInv /\ [Next]_vars => KeepInv'
    BY UntoldStep, RemovalStep, BranchStep, ArchiveStep DEF KeepInv
  <1>3. TypeOK /\ RecordInv /\ KeepInv /\ [Next]_vars =>
          [Removed /\ Work => \/ consent \/ ~SboxValid \/ ~OriginValid
                              \/ pc = "archiveClear" /\ seen # "shown"]_vars
    <2> SUFFICES ASSUME TypeOK, RecordInv, KeepInv, Next, Removed, Work
                 PROVE  \/ consent \/ ~SboxValid \/ ~OriginValid
                        \/ pc = "archiveClear" /\ seen # "shown"
      OBVIOUS
    <2>1. SboxExists /\ ~Pristine
      BY DEF Work, Pristine
    <2>2. pc \notin {"addClone", "addSave"}
      BY <2>1 DEF KeepInv
    <2>3. sbox' = NoSbox /\ sbox' # sbox
      BY <2>1, <2>2 DEF Removed, SboxExists, NoSbox
    <2>4. ~(SyncFetch \/ SyncMerge \/ CommitAdd \/ CommitRun \/ Agent)
      <3>1. sbox \in Sandbox
        BY TypeParts
      <3>2. CASE SyncFetch \/ SyncMerge
        <4>1. sbox'.on = sbox.on
          BY <3>1, <3>2 DEF SyncFetch, SyncMerge, Sandbox
        <4>2. QED
          BY <2>1, <2>3, <4>1 DEF NoSbox, SboxExists
      <3>3. CASE CommitAdd \/ CommitRun
        <4>1. sbox'.on = sbox.on
          BY <3>1, <3>3 DEF CommitAdd, Stage, CommitRun, Sandbox
        <4>2. QED
          BY <2>1, <2>3, <4>1 DEF NoSbox, SboxExists
      <3>4. CASE Agent
        BY <2>3, <3>4, AgentAdds DEF SboxExists, NoSbox
      <3>5. QED
        BY <3>2, <3>3, <3>4
    <2>5. ResetRemove \/ SboxRemove \/ SboxClone \/ ArchiveClear
      BY <2>2, <2>3, <2>4, SandboxFrame DEF AddClone, AddSave
    <2>6. CASE ResetRemove \/ SboxRemove
      BY <2>6 DEF ResetRemove, SboxRemove, KeepInv, OriginValid
    <2>7. CASE SboxClone
      BY <2>1, <2>7 DEF SboxClone, KeepInv
    <2>8. CASE ArchiveClear
      BY <2>3, <2>8 DEF ArchiveClear, KeepInv
    <2>9. QED
      BY <2>5, <2>6, <2>7, <2>8
  <1>4. QED
    BY <1>1, <1>2, <1>3, RecordAlways, SafetyPart, PTL DEF WorkKept
=============================================================================
