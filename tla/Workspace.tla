------------------------------ MODULE Workspace ------------------------------
(***************************************************************************)
(* The workspace of one thread: the user's repository (origin), a clone of *)
(* it in which the agent works (sandbox), and the record that links them,  *)
(* kept in memory and in ws.json.  The UI goroutine runs one operation at  *)
(* a time; the agent works in the sandbox and the user in the origin       *)
(* between any two calls of git.                                           *)
(*                                                                         *)
(* A branch is the set of the commits it contains, so that a merge is a    *)
(* union, and a merge that conflicts leaves the other side in mergeHead.   *)
(***************************************************************************)
EXTENDS Integers, FiniteSets

CONSTANTS AgentCommits,  \* commits the agent or the commit operation may make
          UserCommits,   \* commits the user may make in the origin
          Files,         \* files that may appear untracked in the sandbox
          Faults         \* what may go wrong, a subset of FaultKinds

\* A crash; a write of ws.json, a clone or a read of ws.json that fails; a git
\* command that fails on a sound repository (it is killed after 750 ms).
FaultKinds == {"crash", "save", "clone", "read", "git"}

ASSUME WorkspaceAssumption == /\ AgentCommits \cap UserCommits = {}
                              /\ Faults \subseteq FaultKinds

VARIABLES
    origin,    \* the user's repository
    sbox,      \* the sandbox directory, or NoSbox
    rec,       \* ws.persisted
    file,      \* ws.json, or NoFile
    archived,  \* is the thread in the archive group?
    pc,        \* where the UI goroutine is
    ret,       \* where it continues after Reset or ResetSandbox
    st,        \* the last repository status it read
    include,   \* opts.IncludeUntracked of the commit operation
    consent,   \* history: has the user agreed to lose the sandbox?
    seen       \* history: the work in the sandbox when archiving checked it

disk   == <<origin, sbox>>
record == <<rec, file>>
locals == <<ret, st, include, consent, seen>>
vars   == <<origin, sbox, rec, file, archived, pc, ret, st, include, consent, seen>>

Commits == AgentCommits \cup UserCommits
Heads   == {"main", "detached"}   \* main tracks origin/main, a detached HEAD nothing

NoSbox == [on |-> "none", tip |-> [h \in Heads |-> {}], linked |-> FALSE, dirty |-> FALSE,
           staged |-> FALSE, new |-> {}, mergeHead |-> {}, fetched |-> {}]
NoRecord == [origin |-> FALSE, sbox |-> FALSE, unset |-> FALSE]
NoFile   == [origin |-> FALSE, sbox |-> FALSE, unset |-> FALSE, missing |-> TRUE]
NoStatus == [ok |-> FALSE, on |-> "none", files |-> {}, tip |-> {}, got |-> {}]

Steps == {"down", "idle", "resetRemove", "resetSave", "sboxCheck", "sboxRemove", "sboxClone",
          "sboxSave", "setupLoad", "setup", "askDir", "addClone", "addSave",
          "syncStatus", "syncFetch", "syncCheck", "syncMerge", "pushStatus", "push",
          "mergeOrigin", "mergeSbox", "mergeAdd", "mergeFetch", "mergeCheck", "mergeMerge",
          "mergeDelete", "commitList", "commitAsk", "commitAdd", "commitRun",
          "archiveCheck", "archiveClear", "archiveMove"}

\* The thread is new: there is a repository, no record and no sandbox.
Init ==
    /\ origin = [ok |-> TRUE, head |-> {}, dirty |-> FALSE, mergeHead |-> {},
                 pushed |-> {}, remote |-> FALSE]
    /\ sbox = NoSbox
    /\ rec = NoRecord
    /\ file = NoFile
    /\ archived = FALSE
    /\ pc = "down"
    /\ ret = "idle"
    /\ st = NoStatus
    /\ include = [f \in Files |-> "unknown"]
    /\ consent = FALSE
    /\ seen = "nothing"

-----------------------------------------------------------------------------
(* Repositories, as git shows them.                                        *)

Fails(kind) == kind \in Faults

SboxExists == sbox.on # "none"
Tip        == sbox.tip[sbox.on]

\* parsePorcelainV2: staged, unstaged or untracked changes; commits ahead of the
\* upstream, which only the tracking branch has.
SboxDirty == sbox.dirty \/ sbox.staged \/ sbox.new # {}
Ahead     == sbox.on = "main" /\ ~(Tip \subseteq sbox.fetched)

\* Nothing uncommitted, and no merge in progress.
SboxClean   == SboxExists /\ ~SboxDirty /\ sbox.mergeHead = {}
OriginClean == origin.ok /\ ~origin.dirty /\ origin.mergeHead = {}

\* validateScmRepoDir and validateSandboxOriginRemote.
OriginValid == origin.ok
SboxValid   == SboxExists /\ sbox.linked

\* RepoSyncStatus of the sandbox, as far as its callers look at it.
SboxStatus == [ok |-> SboxClean, on |-> sbox.on, files |-> sbox.new, tip |-> Tip, got |-> {}]

FreshClone == [on |-> "main", tip |-> [h \in Heads |-> IF h = "main" THEN origin.head ELSE {}], linked |-> TRUE,
               dirty |-> FALSE, staged |-> FALSE, new |-> {}, mergeHead |-> {},
               fetched |-> origin.head]

\* The agent's work that the origin does not have, and never had.
Work == /\ SboxExists
        /\ \/ SboxDirty
           \/ \E h \in Heads :
                  ~(sbox.tip[h] \subseteq origin.head \cup origin.pushed \cup sbox.fetched)

Unused == AgentCommits \ (UNION {sbox.tip[h] : h \in Heads} \cup origin.head \cup origin.pushed)

-----------------------------------------------------------------------------
(* Steps of the UI goroutine.                                              *)

Goto(s) == pc' = s

\* An operation is over, with or without an error shown to the user.
Finish == /\ pc' = "idle"
          /\ ret' = "idle"
          /\ st' = NoStatus
          /\ include' = [f \in Files |-> "unknown"]
          /\ consent' = FALSE
          /\ seen' = "nothing"

\* Save: ws.json is replaced by a rename, or stays as it was.
Save(ok) == IF ok THEN file' = rec' ELSE Fails("save") /\ UNCHANGED file

\* The outcomes of Load and the record it leaves in memory.  The origin is
\* validated before the record is adopted, the sandbox after.
Load(outcome) ==
    \/ /\ outcome = "missing" /\ file = NoFile
       /\ UNCHANGED rec
    \/ /\ outcome = "unreadable" /\ file # NoFile /\ Fails("read")
       /\ UNCHANGED rec
    \/ /\ outcome = "originInvalid" /\ file.origin
       /\ ~OriginValid \/ Fails("git")
       /\ UNCHANGED rec
    \/ /\ outcome = "sandboxInvalid" /\ file.origin /\ file.sbox /\ OriginValid
       /\ ~SboxValid \/ Fails("git")
       /\ rec' = file
    \/ /\ outcome = "ok" /\ file # NoFile
       /\ file.origin => OriginValid
       /\ file.sbox => SboxValid
       /\ rec' = file

\* loadWorkspaceBestEffort, when the program starts.
LoadThread ==
    /\ pc = "down"
    /\ \E outcome \in {"missing", "unreadable", "originInvalid", "sandboxInvalid", "ok"} :
           /\ Load(outcome)
           /\ CASE outcome = "originInvalid"  -> Goto("resetRemove") /\ UNCHANGED file
                [] outcome = "sandboxInvalid" -> Goto("sboxCheck") /\ UNCHANGED file
                [] outcome = "ok"             -> Goto("idle") /\ UNCHANGED file
                [] OTHER                      -> Goto("idle") /\ \E ok \in BOOLEAN : Save(ok)
    /\ UNCHANGED <<disk, archived, locals>>

\* Faulty variant: only the origin is forgotten.
ResetRemove_KeepSandbox ==
    /\ pc = "resetRemove"
    /\ sbox' = NoSbox
    /\ rec' = [rec EXCEPT !.origin = FALSE]
    /\ Goto("resetSave")
    /\ UNCHANGED <<origin, file, archived, locals>>

\* Reset: remove the sandbox and the directory it is in, whatever the record says.
ResetRemove ==
    /\ pc = "resetRemove"
    /\ sbox' = NoSbox
    /\ rec' = [rec EXCEPT !.origin = FALSE, !.sbox = FALSE]
    /\ Goto("resetSave")
    /\ UNCHANGED <<origin, file, archived, locals>>

ResetSave ==
    /\ pc = "resetSave"
    /\ UNCHANGED rec
    /\ \/ Save(TRUE) /\ ret = "setupLoad" /\ Goto("setupLoad") /\ UNCHANGED locals
       \/ Save(TRUE) /\ ret # "setupLoad" /\ Finish
       \/ Save(FALSE) /\ Finish
    /\ UNCHANGED <<disk, archived>>

\* ResetSandbox: without its origin the workspace is lost.
SboxCheck ==
    /\ pc = "sboxCheck"
    /\ \/ OriginValid /\ Goto("sboxRemove") /\ UNCHANGED ret
       \/ (~OriginValid \/ Fails("git")) /\ Goto("resetRemove") /\ ret' = "idle"
    /\ UNCHANGED <<disk, record, archived, st, include, consent, seen>>

SboxRemove ==
    /\ pc = "sboxRemove"
    /\ sbox' = NoSbox
    /\ Goto("sboxClone")
    /\ UNCHANGED <<origin, record, archived, locals>>

\* createNewSandboxWithValidOrigin: clone, check, share; any failure removes
\* what was cloned.
CloneSandbox(next) ==
    \/ OriginValid /\ sbox' = FreshClone /\ Goto(next) /\ UNCHANGED locals
    \/ (~OriginValid \/ Fails("clone")) /\ sbox' = NoSbox /\ Finish

\* A failed clone leaves a record that names the sandbox removed before.
SboxClone ==
    /\ pc = "sboxClone"
    /\ CloneSandbox("sboxSave")
    /\ UNCHANGED <<origin, record, archived>>

SboxSave ==
    /\ pc = "sboxSave"
    /\ rec' = [rec EXCEPT !.sbox = TRUE]
    /\ \/ Save(TRUE) /\ ret = "setup" /\ Goto("setup") /\ UNCHANGED locals
       \/ Save(TRUE) /\ ret # "setup" /\ Finish
       \/ Save(FALSE) /\ Finish
    /\ UNCHANGED <<disk, archived>>

-----------------------------------------------------------------------------
(* setupWorkspace.                                                         *)

SetupLoad ==
    /\ pc = "setupLoad"
    /\ \/ archived /\ Finish /\ UNCHANGED <<rec, file>>
       \/ /\ ~archived
          /\ \/ Load("missing") /\ Save(TRUE) /\ Goto("setup") /\ UNCHANGED locals
             \/ Load("missing") /\ Save(FALSE) /\ Finish
             \/ Load("unreadable") /\ UNCHANGED file /\ Finish
             \/ /\ Load("originInvalid")
                /\ Goto("resetRemove") /\ ret' = "idle"
                /\ UNCHANGED <<file, st, include, consent, seen>>
             \/ /\ Load("sandboxInvalid")
                /\ Goto("sboxCheck") /\ ret' = "setup"
                /\ UNCHANGED <<file, st, include, consent, seen>>
             \/ Load("ok") /\ Goto("setup") /\ UNCHANGED <<file, locals>>
    /\ UNCHANGED <<disk, archived>>

\* Ready; or the user declines (Destroy), takes the repository of the working
\* directory, wants another one, or cancels.
Setup ==
    /\ pc = "setup"
    /\ \/ rec.origin /\ Finish /\ UNCHANGED rec
       \/ /\ ~rec.origin
          /\ \/ /\ rec' = [rec EXCEPT !.unset = TRUE]
                /\ Goto("resetRemove") /\ ret' = "idle" /\ consent' = TRUE
                /\ UNCHANGED <<st, include, seen>>
             \/ OriginValid /\ Goto("addClone") /\ UNCHANGED <<rec, locals>>
             \/ Goto("askDir") /\ UNCHANGED <<rec, locals>>
             \/ Finish /\ UNCHANGED rec
    /\ UNCHANGED <<disk, file, archived>>

\* The user names a directory: a repository, or one to be created, and
\* initialised, which may fail half way.
AskDir ==
    /\ pc = "askDir"
    /\ \/ Finish /\ UNCHANGED origin
       \/ /\ origin.ok
          /\ Goto("addClone")
          /\ UNCHANGED <<origin, locals>>
       \/ /\ ~origin.ok
          /\ origin' = [origin EXCEPT !.ok = TRUE]
          /\ \/ Goto("addClone") /\ UNCHANGED locals
             \/ Finish
    /\ UNCHANGED <<sbox, record, archived>>

\* AddOriginAndSandbox.
AddClone ==
    /\ pc = "addClone"
    /\ CloneSandbox("addSave")
    /\ UNCHANGED <<origin, record, archived>>

AddSave ==
    /\ pc = "addSave"
    /\ \/ /\ rec' = [rec EXCEPT !.origin = TRUE, !.sbox = TRUE]
          /\ Save(TRUE)
          /\ UNCHANGED sbox
       \/ /\ Save(FALSE)
          /\ sbox' = NoSbox
          /\ UNCHANGED rec
    /\ Finish
    /\ UNCHANGED <<origin, archived>>

-----------------------------------------------------------------------------
(* The workspace menu.  An operation is chosen while nothing else runs.    *)

Begin(s) == /\ pc = "idle"
            /\ Goto(s)
            /\ UNCHANGED <<disk, record, archived>>

OpenSetup == Begin("setupLoad") /\ ~rec.origin /\ UNCHANGED locals

Choose ==
    /\ rec.origin
    /\ \/ Begin("syncStatus") /\ UNCHANGED locals
       \/ Begin("pushStatus") /\ UNCHANGED locals
       \/ Begin("mergeOrigin") /\ UNCHANGED locals
       \/ Begin("commitList") /\ rec.sbox /\ Unused # {} /\ UNCHANGED locals

\* workspaceReset: the sandbox only, or the origin too.
ChooseReset ==
    /\ rec.origin
    /\ \/ Begin("sboxCheck") /\ ret' = "idle"
       \/ Begin("resetRemove") /\ ret' = "setupLoad"
    /\ consent' = TRUE
    /\ UNCHANGED <<st, include, seen>>

-----------------------------------------------------------------------------
(* SyncSandbox.                                                            *)

SyncStatus ==
    /\ pc = "syncStatus"
    /\ \/ /\ rec.sbox /\ SboxExists /\ sbox.on = "main"
          /\ st' = SboxStatus
          /\ Goto("syncFetch")
          /\ UNCHANGED <<ret, include, consent, seen>>
       \/ (~rec.sbox \/ ~SboxExists \/ sbox.on # "main" \/ Fails("git")) /\ Finish
    /\ UNCHANGED <<disk, record, archived>>

\* The status that decides whether to merge is the one read before the fetch.
SyncFetch ==
    /\ pc = "syncFetch"
    /\ \/ /\ SboxValid /\ OriginValid
          /\ sbox' = [sbox EXCEPT !.fetched = origin.head]
          /\ IF st.ok THEN Goto("syncCheck") /\ UNCHANGED locals ELSE Finish
       \/ (~SboxValid \/ ~OriginValid \/ Fails("git")) /\ UNCHANGED sbox /\ Finish
    /\ UNCHANGED <<origin, record, archived>>

\* git merge: a fast-forward, a merge commit or, when both sides have commits
\* of their own, perhaps a conflict.
Diverged(a, b) == ~(a \subseteq b) /\ ~(b \subseteq a)

\* Merge(dir, "", "") looks at the repository once more, and finds the upstream.
SyncCheck ==
    /\ pc = "syncCheck"
    /\ \/ SboxClean /\ sbox.on = "main" /\ Goto("syncMerge") /\ UNCHANGED locals
       \/ (~SboxClean \/ sbox.on # "main" \/ Fails("git")) /\ Finish
    /\ UNCHANGED <<disk, record, archived>>

\* git merge acts on whatever is checked out by then.  Changes that appeared since
\* the check stay as they are, unless git finds them in its way and refuses.
SyncMerge ==
    /\ pc = "syncMerge"
    /\ \/ /\ SboxExists /\ sbox.mergeHead = {}
          /\ \/ sbox' = [sbox EXCEPT !.tip[sbox.on] = @ \cup sbox.fetched]
             \/ /\ Diverged(Tip, sbox.fetched)
                /\ sbox' = [sbox EXCEPT !.mergeHead = sbox.fetched, !.dirty = TRUE]
       \/ (~SboxClean \/ Fails("git")) /\ UNCHANGED sbox
    /\ Finish
    /\ UNCHANGED <<origin, record, archived>>

-----------------------------------------------------------------------------
(* PushSandbox.                                                            *)

PushStatus ==
    /\ pc = "pushStatus"
    /\ \/ rec.sbox /\ OriginClean /\ Goto("push") /\ UNCHANGED locals
       \/ (~rec.sbox \/ ~OriginClean \/ Fails("git")) /\ Finish
    /\ UNCHANGED <<disk, record, archived>>

\* A push that is not a fast-forward of the thread's branch is rejected.
CanPush == SboxClean /\ SboxValid /\ OriginValid /\ origin.pushed \subseteq Tip

Push ==
    /\ pc = "push"
    /\ \/ CanPush /\ origin' = [origin EXCEPT !.pushed = Tip]
       \/ (~CanPush \/ Fails("git")) /\ UNCHANGED origin
    /\ Finish
    /\ UNCHANGED <<sbox, record, archived>>

-----------------------------------------------------------------------------
(* MergeSandbox.                                                           *)

MergeOrigin ==
    /\ pc = "mergeOrigin"
    /\ \/ rec.sbox /\ OriginClean /\ Goto("mergeSbox") /\ UNCHANGED locals
       \/ (~rec.sbox \/ ~OriginClean \/ Fails("git")) /\ Finish
    /\ UNCHANGED <<disk, record, archived>>

MergeSbox ==
    /\ pc = "mergeSbox"
    /\ \/ /\ SboxClean
          /\ st' = SboxStatus
          /\ Goto("mergeAdd")
          /\ UNCHANGED <<ret, include, consent, seen>>
       \/ (~SboxClean \/ Fails("git")) /\ Finish
    /\ UNCHANGED <<disk, record, archived>>

\* The sandbox becomes a remote of the origin under a random name.
MergeAdd ==
    /\ pc = "mergeAdd"
    /\ \/ /\ OriginValid
          /\ origin' = [origin EXCEPT !.remote = TRUE]
          /\ Goto("mergeFetch") /\ UNCHANGED locals
       \/ (~OriginValid \/ Fails("git")) /\ UNCHANGED origin /\ Finish
    /\ UNCHANGED <<sbox, record, archived>>

\* Faulty variants: an error returns at once, without the deferred removal of
\* the remote; the branch is not fetched.
MergeFetch_NoDefer ==
    /\ pc = "mergeFetch"
    /\ \/ /\ SboxExists /\ OriginValid /\ st.on = "main"
          /\ st' = [st EXCEPT !.got = sbox.tip["main"]]
          /\ Goto("mergeCheck")
          /\ UNCHANGED <<ret, include, consent, seen>>
       \/ (~SboxExists \/ ~OriginValid \/ st.on # "main") /\ Finish
    /\ UNCHANGED <<disk, record, archived>>
MergeFetch_Stale ==
    /\ pc = "mergeFetch"
    /\ Goto("mergeCheck")
    /\ UNCHANGED <<disk, record, archived, locals>>

\* The branches of the sandbox are fetched; a detached HEAD is none of them,
\* and the branch merged is the one that was checked out at the status.
MergeFetch ==
    /\ pc = "mergeFetch"
    /\ \/ /\ SboxExists /\ OriginValid /\ st.on = "main"
          /\ st' = [st EXCEPT !.got = sbox.tip["main"]]
          /\ Goto("mergeCheck")
       \/ /\ ~SboxExists \/ ~OriginValid \/ st.on # "main" \/ Fails("git")
          /\ st' = [st EXCEPT !.ok = FALSE]
          /\ Goto("mergeDelete")
    /\ UNCHANGED <<disk, record, archived, ret, include, consent, seen>>

\* Merge looks at the origin once more.
MergeCheck ==
    /\ pc = "mergeCheck"
    /\ \/ OriginClean /\ Goto("mergeMerge") /\ UNCHANGED st
       \/ (~OriginClean \/ Fails("git")) /\ Goto("mergeDelete") /\ st' = [st EXCEPT !.ok = FALSE]
    /\ UNCHANGED <<disk, record, archived, ret, include, consent, seen>>

\* git merge in the origin, where the user may have worked since the check.
MergeMerge ==
    /\ pc = "mergeMerge"
    /\ \/ /\ origin.ok /\ origin.mergeHead = {}
          /\ \/ /\ origin' = [origin EXCEPT !.head = @ \cup st.got]
                /\ UNCHANGED st
             \/ /\ Diverged(origin.head, st.got)
                /\ origin' = [origin EXCEPT !.mergeHead = st.got, !.dirty = TRUE]
                /\ st' = [st EXCEPT !.ok = FALSE]
       \/ /\ ~OriginClean \/ Fails("git")
          /\ st' = [st EXCEPT !.ok = FALSE]
          /\ UNCHANGED origin
    /\ Goto("mergeDelete")
    /\ UNCHANGED <<sbox, record, archived, ret, include, consent, seen>>

\* The deferred removal of the remote; its failure goes unnoticed.
MergeDelete ==
    /\ pc = "mergeDelete"
    /\ \/ origin' = [origin EXCEPT !.remote = FALSE]
       \/ Fails("git") /\ UNCHANGED origin
    /\ Finish
    /\ UNCHANGED <<sbox, record, archived>>

-----------------------------------------------------------------------------
(* workspaceCommit.                                                        *)

Undecided(files) == {f \in files : include[f] = "unknown"}

\* Commit lists the untracked files; one without a decision sends the user a
\* question for every undecided file, and the commit is tried again.
CommitList ==
    /\ pc = "commitList"
    /\ \/ /\ SboxExists
          /\ st' = SboxStatus
          /\ Goto(IF Undecided(sbox.new) = {} THEN "commitAdd" ELSE "commitAsk")
          /\ UNCHANGED <<ret, include, consent, seen>>
       \/ (~SboxExists \/ Fails("git")) /\ Finish
    /\ UNCHANGED <<disk, record, archived>>

\* Faulty variant: the answer is not kept for the retry.
CommitAsk_Unrecorded ==
    /\ pc = "commitAsk"
    /\ \/ Goto("commitList") /\ UNCHANGED locals
       \/ Finish
    /\ UNCHANGED <<disk, record, archived>>

CommitAsk ==
    /\ pc = "commitAsk"
    /\ \/ \E f \in Undecided(st.files), answer \in {"yes", "no"} :
              /\ include' = [include EXCEPT ![f] = answer]
              /\ Goto(IF Undecided(st.files) = {f} THEN "commitList" ELSE "commitAsk")
              /\ UNCHANGED <<ret, st, consent, seen>>
       \/ Finish
    /\ UNCHANGED <<disk, record, archived>>

\* Faulty variant: git add -A.
CommitAdd_All ==
    /\ pc = "commitAdd"
    /\ SboxExists
    /\ sbox' = [sbox EXCEPT !.staged = SboxDirty, !.dirty = FALSE, !.new = {}]
    /\ Goto("commitRun")
    /\ UNCHANGED <<origin, record, archived, locals>>

Wanted == {f \in st.files : include[f] = "yes"}

Stage(files) ==
    sbox' = [sbox EXCEPT !.staged = sbox.dirty \/ sbox.staged \/ files \cap sbox.new # {},
                         !.dirty = FALSE, !.new = @ \ files]

\* git add -u, and git add of the listed files the user wants, one by one; the first
\* that fails ends the commit.
CommitAdd ==
    /\ pc = "commitAdd"
    /\ \/ SboxExists /\ Stage(Wanted) /\ Goto("commitRun") /\ UNCHANGED locals
       \/ /\ SboxExists /\ Fails("git")
          /\ \E files \in SUBSET Wanted : Stage(files)
          /\ Finish
       \/ (~SboxExists \/ Fails("git")) /\ UNCHANGED sbox /\ Finish
    /\ UNCHANGED <<origin, record, archived>>

\* git commit, unless git diff --cached finds nothing staged, as when the agent has
\* committed it meanwhile.  A merge in progress is concluded by the commit.
CommitRun ==
    /\ pc = "commitRun"
    /\ \/ /\ SboxExists /\ sbox.staged
          /\ \E c \in Unused :
                 sbox' = [sbox EXCEPT !.tip[sbox.on] = @ \cup {c} \cup sbox.mergeHead,
                                      !.staged = FALSE, !.mergeHead = {}]
       \/ (~SboxExists \/ ~sbox.staged \/ Fails("git")) /\ UNCHANGED sbox
    /\ Finish
    /\ UNCHANGED <<origin, record, archived>>

-----------------------------------------------------------------------------
(* Archiving and unarchiving, from the menu.                               *)

ChooseArchive == Begin("archiveCheck") /\ UNCHANGED locals

\* Work in an archived thread, or on a HEAD without upstream, is hidden from the
\* check.
Sight == IF ~Work THEN "nothing" ELSE IF archived \/ sbox.on # "main" THEN "hidden" ELSE "shown"

\* Faulty variant: commits are not looked at.
NoQuestion_DirtyOnly == archived \/ ~rec.sbox \/ (SboxExists /\ ~SboxDirty)

\* confirmDiscardThreadWorkspaceIfDirtyOrAhead.
NoQuestion == archived \/ ~rec.sbox \/ (SboxExists /\ ~SboxDirty /\ ~Ahead)

ArchiveCheck ==
    /\ pc = "archiveCheck"
    /\ \/ NoQuestion /\ Goto("archiveClear") /\ seen' = Sight
          /\ UNCHANGED <<ret, st, include, consent>>
       \/ /\ ~NoQuestion \/ Fails("git")
          /\ Goto("archiveClear") /\ seen' = Sight /\ consent' = TRUE
          /\ UNCHANGED <<ret, st, include>>
       \/ (~NoQuestion \/ Fails("git")) /\ Finish
    /\ UNCHANGED <<disk, record, archived>>

\* ClearSandbox, whose error is ignored.
ArchiveClear ==
    /\ pc = "archiveClear"
    /\ sbox' = IF rec.sbox THEN NoSbox ELSE sbox
    /\ rec' = [rec EXCEPT !.sbox = FALSE]
    /\ \E ok \in BOOLEAN : Save(ok)
    /\ Goto("archiveMove")
    /\ UNCHANGED <<origin, archived, locals>>

\* MoveThread saves the record in the thread's new directory; its failure, or a
\* thread that runs, ends the program.
ArchiveMove ==
    /\ pc = "archiveMove"
    /\ \/ /\ archived' = ~archived
          /\ UNCHANGED rec
          /\ Save(TRUE)
          /\ Finish
       \/ /\ UNCHANGED <<archived, file>>
          /\ rec' = NoRecord
          /\ pc' = "down" /\ ret' = "idle" /\ st' = NoStatus /\ UNCHANGED include
          /\ consent' = FALSE /\ seen' = "nothing"
    /\ UNCHANGED disk

-----------------------------------------------------------------------------
(* The agent in the sandbox, the user in the origin, and crashes.          *)

\* The agent, whose tools run in the sandbox that the record names (GetPwd), edits,
\* creates a file, commits everything or concludes a merge, leaves its branch or
\* comes back, or ruins the repository.
Agent ==
    /\ rec.sbox /\ SboxExists
    /\ \/ sbox' = [sbox EXCEPT !.dirty = TRUE]
       \/ \E f \in Files : sbox' = [sbox EXCEPT !.new = @ \cup {f}]
       \/ /\ SboxDirty
          /\ pc \in {"commitList", "commitAsk", "commitAdd", "commitRun"} => Cardinality(Unused) > 1
          /\ \E c \in Unused :
                 sbox' = [sbox EXCEPT !.tip[sbox.on] = @ \cup {c} \cup sbox.mergeHead,
                                      !.dirty = FALSE, !.staged = FALSE, !.new = {},
                                      !.mergeHead = {}]
       \/ /\ SboxClean
          /\ \E h \in Heads \ {sbox.on} :
                 sbox' = [sbox EXCEPT !.on = h,
                                      !.tip["detached"] = IF h = "detached" THEN Tip ELSE {}]
       \/ sbox' = [sbox EXCEPT !.linked = FALSE]
    /\ UNCHANGED <<origin, record, archived, pc, locals>>

\* The user edits, commits or concludes a merge, or deletes the repository.
User ==
    /\ origin.ok
    /\ \/ origin' = [origin EXCEPT !.dirty = TRUE]
       \/ /\ origin.dirty
          /\ \E c \in UserCommits \ origin.head :
                 origin' = [origin EXCEPT !.dirty = FALSE, !.mergeHead = {},
                                          !.head = @ \cup {c} \cup origin.mergeHead]
       \/ origin' = [ok |-> FALSE, head |-> {}, dirty |-> FALSE, mergeHead |-> {},
                     pushed |-> {}, remote |-> FALSE]
    /\ UNCHANGED <<sbox, record, archived, pc, locals>>

\* The user quits, or the program dies in an operation.  The remote of a merge cut
\* short stays behind; no later merge knows its random name, and origin.remote only
\* tells of the remote of the merge under way.
Quit ==
    /\ pc = "idle" \/ (pc # "down" /\ Fails("crash"))
    /\ pc' = "down"
    /\ rec' = NoRecord
    /\ origin' = [origin EXCEPT !.remote = FALSE]
    /\ ret' = "idle" /\ st' = NoStatus /\ include' = [f \in Files |-> "unknown"]
    /\ consent' = FALSE /\ seen' = "nothing"
    /\ UNCHANGED <<sbox, file, archived>>

\* An operation under way goes on, as far as it needs it with the user's answers.
Program ==
    \/ LoadThread \/ ResetRemove \/ ResetSave
    \/ SboxCheck \/ SboxRemove \/ SboxClone \/ SboxSave
    \/ SetupLoad \/ Setup \/ AskDir \/ AddClone \/ AddSave
    \/ SyncStatus \/ SyncFetch \/ SyncCheck \/ SyncMerge \/ PushStatus \/ Push
    \/ MergeOrigin \/ MergeSbox \/ MergeAdd \/ MergeFetch \/ MergeCheck \/ MergeMerge \/ MergeDelete
    \/ CommitList \/ CommitAsk \/ CommitAdd \/ CommitRun
    \/ ArchiveCheck \/ ArchiveClear \/ ArchiveMove

Next ==
    \/ Program
    \/ OpenSetup \/ Choose \/ ChooseReset \/ ChooseArchive
    \/ Agent \/ User \/ Quit

Spec == Init /\ [][Next]_vars /\ WF_vars(Program)

-----------------------------------------------------------------------------
(* Correctness.                                                            *)

Record == [origin : BOOLEAN, sbox : BOOLEAN, unset : BOOLEAN]

\* Every variable has its type.
TypeOK ==
    /\ origin \in [ok : BOOLEAN, head : SUBSET Commits, dirty : BOOLEAN,
                   mergeHead : SUBSET Commits, pushed : SUBSET Commits, remote : BOOLEAN]
    /\ sbox \in [on : Heads \cup {"none"}, tip : [Heads -> SUBSET Commits], linked : BOOLEAN,
                 dirty : BOOLEAN, staged : BOOLEAN, new : SUBSET Files, mergeHead : SUBSET Commits,
                 fetched : SUBSET Commits]
    /\ rec \in Record
    /\ file \in Record \cup {NoFile}
    /\ archived \in BOOLEAN /\ consent \in BOOLEAN /\ seen \in {"nothing", "hidden", "shown"}
    /\ pc \in Steps
    /\ ret \in {"idle", "setup", "setupLoad"}
    /\ st \in [ok : BOOLEAN, on : Heads \cup {"none"}, files : SUBSET Files,
               tip : SUBSET Commits, got : SUBSET Commits]
    /\ include \in [Files -> {"unknown", "yes", "no"}]

\* ErrWorkspaceSandboxSetOriginEmpty never arises: whatever fails and whenever
\* the program dies, a record with a sandbox has an origin.
SandboxHasOrigin == /\ rec.sbox => rec.origin
                    /\ file.sbox => file.origin

\* A clone first removes what is in its place.
Removed == SboxExists /\ (sbox' = NoSbox \/ (pc = "addClone" /\ pc' = "addSave"))

\* The operations remove a sandbox that holds work only when the user agreed,
\* when it or the origin is really ruined, or when archiving found nothing to
\* ask about: a thread in the archive, a HEAD without upstream, or work that
\* appeared after the check.
WorkKept ==
    [][Removed /\ Work =>
           \/ consent \/ ~SboxValid \/ ~OriginValid
           \/ pc = "archiveClear" /\ seen # "shown"]_vars

\* The question of confirmDiscardThreadWorkspaceIfDirtyOrAhead: work that was
\* there when it looked is not discarded unless the user says so.
DiscardAsked ==
    [][Removed /\ Work /\ pc = "archiveClear" /\ seen # "nothing" => consent]_vars

\* While the user commits, answers and retries, and the agent creates files, no
\* untracked file enters the commit without the user's yes to that file.
CommitNeedsYes ==
    [][pc = "commitAdd" /\ pc' \in {"commitRun", "idle"} =>
           \A f \in sbox.new \ sbox'.new : include[f] = "yes"]_vars

\* A merge that succeeded brought every commit that the sandbox's branch had
\* when its status was read.
MergeTakesAll ==
    pc = "mergeDelete" /\ st.ok /\ origin.ok => st.tip \subseteq origin.head

\* The remote of a merge is gone whenever the merge is over, however it ended; only
\* a program that dies in a merge leaves one behind.
RemoteIsTemporary ==
    origin.remote => pc \in {"mergeFetch", "mergeCheck", "mergeMerge", "mergeDelete"}

\* Every operation ends, unless the program does, though the agent may keep
\* creating files while the commit asks about them.
OperationsEnd == (pc \notin {"idle", "down"}) ~> (pc \in {"idle", "down"})
=============================================================================
