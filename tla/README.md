# A TLA+ development of octium

octium (`noctium`) is a terminal program in which a user runs several
conversations ("threads") with language models. The models call tools that read
and write files, run commands and fetch URLs; what a tool may do is put to the
user or decided by policies the user saved. A thread may have a workspace: a
sandbox clone of the user's git repository in which its agent works. This
directory holds TLA+ models of the parts of octium in which concurrency, crashes,
persistence and edge cases make correctness hard to test, the TLC runs that check
them, and proofs that TLAPS checks. `PROJECT.json` lists the runs, the mutants,
the lines of the source each definition stands for, and the hazards.

## 1. Inventory

| Part | Source | State | Operations | What is hard | What makes it correct |
|---|---|---|---|---|---|
| Thread runs | `internal/threads/{thread,dialogue,dialogue_async,async_approver}.go`, `cmd/noctium/thread_async.go` | `thread.state`, dialogue, running state, approver, result channels | ChatOnceAsync, worker, AskApproval, ServeRequest, poll, retry, rename, reset | a worker goroutine, parallel tool calls, one UI goroutine; errors, cancellation, lingering tools | one run at a time; the dialogue only grows; results tell the truth; runs end |
| Thread ids | `internal/threads/thread_group_set.go` | `thread_group_set.json`, its version in every process | Load, reconcile, newThreadId | several processes, compare-and-swap, failed syncs, a missing file | ids increase; a new directory is free |
| Atomic files | `internal/fsatomic` | mutexes, lock file, temporary files, the file in memory and on disk | ReadFile, WriteFile, WriteFileCAS | two levels of locks, kills and loss of power between any two system calls | every call is one durable step; every call returns |
| Thread groups | `internal/threads/{thread_group,thread,util}.go`, `cmd/noctium/menu.go` | directories of two groups, the maps in memory | Load, migrate, NewThread, MoveThread | crashes and failures between file operations, runs during a move | a thread is lost only with its own file, half written or half removed; one home; only a half-done move makes the next start panic |
| Progress | `internal/llmclient/eino_client.go`, `status_callbacks.go` | latest event, subscriber channels | subscribe, publish, unsubscribe | callbacks of several goroutines, two locks, closed channels | the latest event reaches everyone; a channel that is closed is off the list |
| Approval policies | `internal/am`, `internal/tools/approval.go`, request builders of the tools, `internal/httpproxy/am.go` | policies in memory, `approvals.json` and its temporary file | Check, Save, AskApproval, setup | parallel prompts, kills, failing writes, several processes | nothing is allowed that was not granted; grants hold; the file always parses |
| Workspaces | `internal/workspace`, `cmd/noctium/workspaces*.go`, `menu.go` | origin and sandbox repositories, `ws.json` and its copy in memory | load, setup, reset, sync, push, merge, commit, archive | an agent and a user who go on working, statuses that are stale after a prompt, crashes and failing git calls half way | no work lost without consent; no file committed without a yes; the temporary remote goes away |
| Git client | `internal/scm` | none of its own | status, clone, fetch, merge, commit, push, remotes | commands killed after a timeout | does what the workspace asks, or fails |
| Patch tool | `internal/tools/tools_apply_patch.go` | files of the workspace | approve, load, parse, convert, apply | context search, several sections and files, failure half way | a patch that succeeds did what it says; nothing else changes |
| Other tools | `internal/tools`, `internal/fsparanoid` | none of their own | read, write, list, run, fetch | paths | results stay in the workspace |
| Text frames | `internal/ui/ncurses_{frame*,scrollbar,wrap}.go` | lines, cursor, scroll offset | edit, move, wrap, scroll | arithmetic at the edges of lines, rows and panes | the cursor has one row and is shown there |
| Thread view | `cmd/noctium/thread{,_async,_input,_history}.go` | two frames, focus, draft, follow flags | keys, ticks, results, retry, resize, open, close | refreshes that arrive while the user edits or reads | no draft lost or mixed with the model's text |
| Menu | `cmd/noctium/{menu,menu_search,util}.go`, `internal/ui/ncurses_list_viewport.go` | selection, offset, search | keys, search, refresh | edges of the list | the selection stays in the list |
| Modal dialogs | `internal/ui/ncurses_modal.go`, `ncurses.go` | none that lasts | ask, choose | drawing | answers are the user's |
| HTTP proxy | `internal/httpproxy` | listener, tunnels | serve, forward, tunnel | connections of many clients, shutdown | only allowed hosts; tunnels end |
| Configuration | `cmd/noctium/{config,config_llm,nux,main,upgrade}.go` | prefs, keys, needConfig | load, reload, setup, upgrade | reload next to running threads | settings reach the next run |

How the parts interact: the menu (one UI goroutine) loads the thread groups,
opens a thread view, starts runs and calls the operations on a thread's
workspace. A run's worker calls the LLM client, whose agent executes tool calls
on its own goroutines, in the thread's sandbox if it has one. A tool asks its
`PolicyStoreApprover`, which consults the policy store and otherwise the
thread's `AsyncApprover`; that hands the request to the UI goroutine over a
channel. Callbacks of models and tools publish progress events that the thread
view polls; the view rewrites its two text frames from them. Everything that
lasts is a file: `thread.json` and `ws.json` per thread, `thread_group_set.json`
(through the atomic files), `approvals.json`; processes of one user share them.

## 2. Modules

| Module | Models |
|---|---|
| `ChatLog` | abstract: chats one at a time, each committed durably or without a trace |
| `ThreadRun` | one thread, its workers, tool calls and the UI; implements `ChatLog` while saves succeed |
| `ThreadRun_proofs` | theorems about `ThreadRun`, and about `Progress` |
| `ThreadIds` | allocation of thread ids by several processes |
| `ThreadIds_proofs` | theorems about `ThreadIds` |
| `CasFile` | abstract: a file that is read, written and compared-and-swapped in one durable step |
| `AtomicFS` | the locks and system calls of `fsatomic/local`; implements `CasFile` |
| `AtomicFS_proofs` | the refinement, and the invariant of the locks |
| `ThreadGroups` | the two groups, their directories, creation, moving, loading and migration |
| `ThreadGroups_proofs` | theorems about `ThreadGroups` |
| `Progress` | progress events of one invocation |
| `Policies` | pure: policy ids, the choices of a request, the lookup, and what the labels promise |
| `Approvals` | the policy store, its callers and its file, on top of `Policies` |
| `Approvals_proofs` | theorems about `Policies` and `Approvals` |
| `Workspace` | origin, sandbox and `ws.json` of one thread, with the agent and the user beside the operations |
| `Workspace_proofs` | theorems about `Workspace` |
| `Patch` | the apply_patch tool, from approval to the last file written |
| `Patch_proofs` | theorems about `Patch` |
| `TextFrame` | pure: frames, their rows, and every method that changes a frame |
| `Editor` | one pane under every sequence of keys, on top of `TextFrame` |
| `Editor_proofs` | theorems about `TextFrame`, `Editor` and `ThreadView` |
| `ThreadView` | the two panes of a thread next to a run, on top of `TextFrame` |
| `MC*` | TLC instances: symmetry sets, sets of requests, texts and patches |

Definitions named `X_Variant` with the comment "Faulty variant" are not part of
any specification. They are plausible mistakes in the code that `X` models, kept
to show that the properties notice them. `TypeOK` documents the variables of a
module and is the base of its proofs; the runs check properties that say more.

### ThreadRun

A run is named by its `InvocationCount`; a dialogue is the sequence of runs
whose prompt and reply it holds, `disk` the dialogue in `thread.json`. Each
region under `thread.mu` is one action. `worker[r]` is the control point of
`runChatOnceAsync`; `call[c]` that of a tool call inside
`AsyncApprover.AskApproval`; `ui` that of the UI goroutine in the menu, the
thread view's loop or a modal. `setRunning` and the rest of `ChatOnceAsync` are
two actions (`BeginChat`, `Launch`), because the worker's view of the thread can
be observed in between. `client[r]` remembers which approver the LLM client of
run r was built with: `ResetLLMClients` makes the next run replace approver and
client together, while older tool calls keep the old ones. Tool calls start and
end inside the agent library's stream, which is external: a stream that ends
normally has no tool call left (`Quiescent`), one that fails may
(`ToolsMayLinger`). `Stop` is only called by the view after an error result, so
only then is a run's context cancelled.

A thread that an old release saved has its system message in front of the dialogue
(`OldThread`); a worker drops it from its copy (`Strip`), and the log that the
refinement shows is the dialogue without it. Where `Access` fails on entering a
thread the program ends (`ui = "ended"`); goroutines may still take steps while it
exits, but nothing is assumed of them. The saves on leaving and on renaming ignore
or show an error, and go on.

Left out: the text streamed so far, token counts and times. `PollIdle` is
always possible, which covers the limit of 128 events per tick.

### ThreadIds, AtomicFS and CasFile

In `ThreadIds` every AtomicFS call holds the lock file and is one action; the
loops of `newThreadId` and `reconcileThreadNumFromLoadedThreads` are steps
between them. A version is the pair of contents and modification time; two
writes may have the same time. A write whose directory sync fails replaces the
file and still returns an error (`RaiseFail`, `LegacyFail`, `BumpFail`). A load
that finds a legacy thread without an id draws one for it (`Legacy` and the
steps after it) before the number has been reconciled with the directories,
renames its directory (`Rename`) and then mostly fails, since the file in it
still lacks the id. A process may exit or crash anywhere, and a failed load
leaves it running (`main` keeps going with needConfig set). The file may be
missing at any moment (`Vanish`); `missed` remembers that it ever was, `shared`
that two processes ever were up at once.

That an AtomicFS call may be taken for one action is what `AtomicFS` shows. Its
actions are the system calls of `ReadFile`, `WriteFile` and `WriteFileCAS`: the
mutex of the process, the poll of the advisory lock, the comparison, the
temporary file and its sync, the rename, the sync of the directory, the
clean-up, and the two unlocks of the deferred functions, each of which may fail
where the code tests for it. `Kill` ends a process, whose locks the kernel
releases; `PowerLoss` ends all of them and brings back what the directory on
disk last named, torn if its contents were never synced. `CasFile` is the
promise: the mapping takes `safe` to the directory on disk and a caller's phase
from its control point. The rename is the step that takes effect.

Left out: the wait for the in-process mutex ignores the context, as in the code,
so a caller waits for its predecessor even after its context ended; the
predecessor returns, so `CallsReturn` holds. Temporary files a kill leaves
behind, and the Windows variants.

### ThreadGroups

A group's directory maps directory names to the id in `thread.json`, or to "no
id", "unreadable", "absent". Loading migrates legacy directories one by one;
every file operation of `MoveThread` is an action that may fail. A save, which
truncates the file first, and a removal, which takes a directory apart, may succeed,
do nothing or stop half way (`Saved`, `Removed`, `Cut`), by an error (`SaveOwn`,
`MoveSave`, `MoveRemove`, `MoveUndo`, `NewThreadFail`) or because the process dies in
them (`TornSave`, `TornRemove`); `Exit` is a crash between two operations when
`CrashMayHappen`. What a failed save leaves in the destination stays there, and the
error of the second removal is ignored. Two histories remember what this does:
`cut` the threads whose own `thread.json`, in the group they are in, was destroyed
by a save or removal that stopped half way, `halfMoved` those that a move may have
left in both groups. Workers run chats meanwhile and save the thread at their end,
the menu saves a thread it opens or renames, and an error of `MoveThread` ends the
program, as in `showMenu`.

### Progress

`publishProgress` is three steps (store, copy the subscribers, send to each),
`SubscribeProgress` two, because `currentMu` and `subsMu` are never held
together. `offered` is history: the events a channel took, or dropped because
it was full. A subscriber may leave at any moment, also between a publisher's copy
of the list and its send, since nothing holds it back: the view leaves when the run
reports, and a failed run may leave a tool at work whose callbacks still publish.
`raced` is history: the publishers that had copied the list with a channel on it
that was closed before they sent.

### Policies and Approvals

A path, a command line or a host is a sequence of names; a request is a kind,
a name and whether the name is a directory. `ChoicesOf` lists the lasting
choices the tools' builders offer, `Check` is the store's lookup and `Grants`
states, without a store, what the label of a choice promises. In `Approvals`
each lookup is one action (the read lock is taken per choice), `Save` takes the
write lock, and `persist` is three steps (open, write, rename), each of which
may fail. A file is absent, empty, unparseable or whole; an agent's `fd` tells
whether the file it opened as `approvals.json.tmp` is still there, has become
`approvals.json` or is gone, so that two writers of one file are modelled as the
kernel treats them: when one writes over a longer text of another, a tail
remains. The user's answers are one step; `ThreadRun` models how they travel.
A `cmd_run` call asks only when the RunCmdApproval preference is set; requests
of kind "exec" stand for that case.

### Workspace

A branch is the set of commits it contains, so a merge is a union; a merge that
conflicts leaves the other side in `mergeHead`, as git does. `sbox` holds the
branch that is checked out, the tips, whether its remote still names the origin
(`linked`), modified and untracked files, and what was fetched from the origin.
`rec` is `ws.persisted`, `file` is `ws.json`. The UI goroutine's operations
(`OpenSetup`, `ChooseReset`, sync, push, merge, commit, archive) are sequences
of actions that end at a call of git, at a write of `ws.json` or at a question;
`st` is the status an operation read and acts on afterwards. `Agent` commits,
edits, adds files, detaches HEAD or breaks the remote in the sandbox between any
two of these actions; `User` does the same in the origin, pushes from elsewhere
or makes the repository invalid. `Faults` chooses what may fail: the program
(`Quit` at any step), a save, a clone, a read of `ws.json`, or a git command on a
sound repository, which the client kills after 750 ms when it only probes.

Left out: the contents of the base directory, partial removal of a directory,
permissions, and a failed `remote remove` (the code does not notice it either).
`Client.Merge` is two actions, the checks that refuse a merge (`SyncCheck`,
`MergeCheck`) and `git merge` (`SyncMerge`, `MergeMerge`), and `Client.Commit`
three, the list of untracked files, the staging and the commit: agent and user
may step in between. Staged files stay in the index (`staged`) until somebody
commits them. The steps of one git command, the reads that one check is made of,
the `git add` calls of one commit, and the check and push of `Push` are one
action each.

### Patch

A line is its text and the whitespace around it, because the context search
compares three times: exactly, without trailing and without any surrounding
whitespace. The text of a patch is a sequence of classified lines. `Approve`,
`Load`, one action per part of the patch (`ParseAdd`, `ParseDelete`,
`ParseUpdate` with one `Section` after another, `EndUpdate`), `PatchToCommit`
and one action per file operation follow the code; the order of `ApplyCommit` is
that of a Go map, hence arbitrary, and any write or removal may fail.

`PeekNextSection` reads a section line by line into chunks (what to delete, what
to insert, at which line of the section), `FindContext` finds the place of the
section in the file, and `GetUpdatedFile` applies the chunks of all sections.
`Rewritten` is the reference, and knows no chunks: from the place of each section
on it goes through the section as its author wrote it, line by line, keeps,
drops and adds lines, and keeps what is between two sections.

### TextFrame, Editor and ThreadView

A frame is a record of lines, cursor, scroll offset, size and wrap mode; every
method of `Frame` is an operator from frames to frames with the code's clamps.
`Editor` applies the keys of `processThreadViewKey` to one pane, replaces its
text and erases. `ThreadView` holds both panes, the flags that say whether a
pane follows the end of its text, the draft that is kept while the user is in
the menu, and a run that streams content and reasoning; `mine` is history: what
the user typed and did not send, `wiped` whether the view of the archived
thread, when it was left, replaced that text in the draft. A resize rebuilds the
frames, as `resize` does.

Left out: borders, colours, labels and headers.

## 3. Runs

| Run | Shows | Bounds |
|---|---|---|
| `run_safety` | the safety properties of `ThreadRun`, its refinement of `ChatLog`, and that prompts are for calls that still wait unless their run was stopped | 2 runs, 2 tools, lingering tools, resets, a thread of an old release |
| `run_live` | runs end, the view lets go, stopped calls return, unless a failing save ended the program | 2 runs, 1 tool, failing saves, lingering tools, fairness |
| `ids_shared` | while the file is there, ids increase and its number never goes back; a directory is reused only when the file was missing and two processes were up | 2 processes, ids to 3, 2 times, legacy threads |
| `atomicfs_calls` | calls of several goroutines and processes are one durable step each, and return | 2 + 1 goroutines of 2 processes, 2 calls, 2 times, kills, loss of power |
| `groups_faults` | a thread is lost only with its own file, cut off in a save or removal; one home; only a half-done move makes the next start panic; legacy threads kept | 3 ids, 2 legacy directories with or without ids, crashes, half-done and failing saves, removals and moves |
| `progress_delivery` | the latest event reaches every subscriber; only a publisher that copied the list before a subscriber left sends on a closed channel | 2 publishers, 2 subscribers, 4 events, channels of size 1 |
| `approvals_store` | the file always parses; nothing is allowed that was not granted | 2 calls, nested directories, failing writes, kills, setup |
| `approvals_labels` | grants hold | every kind of request, restarts, one call at a time |
| `workspace_ops` | work is kept, files are committed only after a yes, a merge takes what it promised and its remote goes away, operations end | 1 commit of each side, 1 file, crashes, failing saves and clones |
| `editor_keys` | every position of the text has one row, the caret is drawn there, typing can be undone, the keys reach the top, the thumb is where the viewport is | 6 runes, panes of 1x3, 2x2, 3x2 and 4x2, tabs of 2 |
| `thread_view` | the draft survives runs, retries, resizes and detours over the menu; a reader is not carried ahead | 1 run with a retry, 1 chunk of 2 lines, 1 of reasoning, widths 2 and 3 |
| `patch_apply` | a patch that succeeds did what its sections say; a move loses no text; only approved files change | every update of up to 4 lines against every file of up to 3; every pair of 18 parts over 4 files |

Why the bounds are enough: two runs are what a stale worker or tool call needs
to meet a successor, and two tools what parallel approvals need; the thread of
an old release becomes an ordinary one with its first reply, so that the second
run starts from either; two processes race on a file, and one id more than the
processes use lets a loser retry; three threads allow one in each group and one
being moved, or created with a second start in between. Channels of size one are
full as soon as possible. In `AtomicFS` two goroutines of a process meet at its
mutex, one of another process at the file lock, and two calls are what a lost
update takes. One commit on each side of `Workspace` makes the branches diverge;
operations are repeated without bound, so that a stale status, a conflict and a
crash combine. In `Editor` six runes fill several rows of every pane and one
line exactly; heights of 2 and 4 are a scrollbar without and with arrows, 1 and
3 the same with a track of one row, 1 also a pane in which the cursor's row is
the whole viewport. In `ThreadView` three runes wrap in a pane of width 2 and
not in one of 3. In `Patch` four lines of body are two sections, or a section
with context, deletion, addition and the end-of-file marker; two parts of a
patch are enough for files to collide. In `approvals_labels` no directory
contains another and calls come one at a time; the next section says what
happens otherwise. `progress_delivery` and `patch_apply` do not check for
deadlock, since events, subscribers and patches run out, nor does `run_live`, in
which the program may end.

`ids_shared` does not continue a behaviour once the file was missing while two
processes were up (`Claimed`): nothing is claimed of what follows.

### Other constants

The models reach further than the runs. With these values a property fails; each
case is what the source does.

| Where | What happens |
|---|---|
| `ThreadRun`, `SaveMayFail = TRUE` | finalize makes the thread idle before it saves (`dialogue_async.go:310`); if the save fails and a new run has started, the abort of the old worker makes the new run's thread idle (`StateMatchesWorker`; the comment at `dialogue.go:109` expects a failed chat in flight). A run that reports an error has its messages in the dialogue (`ResultsMatchDialogue`) |
| `ThreadRun`, `SaveMayFail = TRUE`, `MaxRuns = 1` | after a failed save the dialogue keeps the prompt and the reply (`dialogue.go:73`); the user declines to retry and is told that the prompt "will not be saved to the thread" (`util.go:370`), and the save on leaving the view writes it (`DeclinedNotSaved`) |
| `ThreadIds`, without `Claimed` | two processes find the file missing, both write 0 and both hand out 1 (`thread_group_set.go:271`; the comment at 127 says that ids increase) |
| `ThreadGroups`, a thread in `cut` | a removal of the source that fails half way is answered by removing the complete destination (`thread_group.go:375`), and every save truncates `thread.json` first (`thread.go:360`): either loses the thread. `LossNeedsCut` says that nothing else does |
| `ThreadGroups`, a thread in `halfMoved` | a crash between the save in the destination and the removal of the source, or a move whose two removals both fail, leaves the thread in both groups, and the next start panics (`thread_group_set.go:229`). `PanicNeedsHalfMove` says that nothing else does |
| `ThreadGroups`, `DiscardNeedsConsent` | archiving a running thread clears its sandbox before `MoveThread` refuses it (`menu.go:642`) |
| `Approvals`: `Requests <- Nested`, one caller | read on `d/e`, later read/write on `d`: a write in `d/e` is asked again, since the nearest ancestor decides (`GrantsHonoured`) |
| `Approvals`: `Requests <- OneFile`, two callers | of two open prompts, the read grant answered last takes write away (`GrantsHonoured`) |
| `Approvals`: `Requests <- OneFile`, `SetupRuns = "later"` | setup writes the default behind a loaded store, which never sees it (`GrantsHonoured`) |
| `Approvals`: two processes | they share `approvals.json.tmp` (`jsonstore.go:119`) and may leave a file that does not parse (`FileIsWhole`) |
| `Progress`, `NeverPanics` | a tool that outlives a failed run publishes, copies the list of channels, the view unsubscribes (`dialogue_async.go:221`), and the send on the closed channel panics (`eino_client.go:563`); the comment at 489 promises best-effort delivery, in which events may be dropped. `PanicNeedsRace` says that only a publisher that had copied the list does this |
| `Workspace`: `Faults = {"git"}` | a probe killed after 750 ms is taken for an invalid origin, and loading the thread resets the workspace, sandbox included (`thread.go:212`, `workspaces_setup.go:57`; `WorkKept`) |
| `Workspace`: `Faults = {"read"}` | setup over a `ws.json` that could not be read clones over the sandbox (`WorkKept`) |
| `Workspace`, `DiscardAsked`, `Faults = {}` | commits on a detached HEAD have no upstream to be ahead of, and unarchiving never asks (`menu.go:668`, `687`, `697`); both lose work unasked |
| `ThreadView`: `PrefChanges = "any"` | when ShowReasoningInInput changes during a run, the model's reasoning stays in the input pane (`DraftKept`) |
| `ThreadView`, `ReaderStays` | a refresh restores the cursor by moving down as many rows as it had lines above it (`thread_history.go:182`), so a reader of wrapped text is carried back |
| `ThreadView`, `DraftReappears` | leaving the view of an archived thread captures its own pane, which never showed the draft, over the draft (`thread.go:587`, against the comment at `thread_input.go:167`): archive, open, leave, unarchive, open loses it. `DraftKept` excepts it until the user types again |
| `Editor`, `ThumbAlwaysThere` | in a pane of one or three rows the track has one row, its number of steps is raised from 0 to 1 (`ncurses_scrollbar.go:82`, `90`), and at the end of the text the thumb is off the track, against the comment at 53 that it is always one row tall. `ThumbShown` says that this is the only case |
| `Editor`: `HasInput = FALSE`, `Texts <- Words`, `WrapMode = "word"` | the blanks at which a line is broken belong to no row (`ncurses_frame_wrap.go:16`), so a cursor on them has none (`EveryColumnHasARow`, `UpReachesTheTop`) |
| `Editor`: a width of 1 in `Sizes` | a row that is not the last of its line gives its last column to the marker, so there is no room for a rune (`EveryColumnHasARow`); the view omits the history at a width of 1 (`thread_history.go:43`) |
| `Editor`: a text of `Texts` with tabs | the cursor counts runes and the rows count columns (`ncurses_frame_wrap.go:80`): End leaves the cursor at the number of runes, which may be a row above the viewport (`ncurses_frame_input.go:423`, `KeysShowTheCursor`), and Down may take it to a column behind the last rune, where an insertion first brings it back (`ErasingUndoesTyping`) |
| `Patch`, without `Apart` | a section that ends in an end-of-file marker may be found before an earlier one and is applied over it: a line that a section keeps is deleted (`AppliedAsWritten`) |
| `Patch`, without `Tidy` | a move onto itself, or onto another file of the patch, loses a text (`MoveKeepsText`) |

Facts the models hold that no property states as wrong: in `ThreadGroups` a
legacy `thread.json` without id makes every load fail, since it is saved while
its directory name is still empty and the next scan stumbles over the scratch
directory (the thread itself is kept); in `ThreadRun`, when two calls of a run
wait for approval, the first to leave shows the thread as running while the
other still waits (`BlockedHasAsker` is the direction that holds); in `Workspace`
`git merge` runs on what is checked out when it starts, which may be a detached HEAD
or beside changes that appeared after the check (`remote.go:175`); in `Editor` Left,
Right and, in
the input pane, PgUp and PgDn leave the cursor outside of the viewport, Up may
need a second press, and a resize takes a reader of the history to its end; in
`Patch` an added file overwrites one that is there unless the patch names it
otherwise too (`tools_apply_patch.go:359`), the text after `@@` is not used to
find a place and two `@@` lines in a row are an error, a context marked as end
of file that is longer than the file indexes out of range (`477`), and a failure
half way leaves the files already written.

### Fairness

`run_live`: workers and tool calls are goroutines that the Go scheduler runs,
and the model's stream ends or fails once its tool calls have returned: weak
fairness of `Worker(r)`, of a streaming worker only while it is quiescent, and
of a tool call's steps once it asked. Nothing is assumed of a program that has
ended, and the three properties claim nothing of it. That a stream fails while a
tool waits is possible but not assumed, or no run could hang on an approval. The
thread view's loop ticks for ever. Its `select` chooses at random among ready
channels, so a channel that is ready again and again is read: strong fairness of
`PollApproval` and `PollResult`. Of the user it is assumed that he comes back to
a thread he left and answers the modals; he need never start, rename or leave
anything.

`atomicfs_calls`: weak fairness of every call's steps (`Progress(c)`), which the
scheduler gives. A poll that finds the lock free takes it; that weak fairness
suffices for the poll is due to the bound on calls, since the competitors run
out. In the program a poll that always finds the lock taken ends with its
context, a step (`FlockFails`) the model allows and does not assume.

`workspace_ops`: weak fairness of the operation under way (`Program`): the UI
goroutine runs on and the user answers what it asks. The agent and the user need
do nothing, and may do anything, in between.

## 4. Proofs

A `*_proofs` module proves its theorems for every value of the constants that
the module's named assumptions allow. Those assumptions say what the code gives:
`RequestAssumption` that a request has a name and that a site is one name,
`ApprovalAssumption` that setup is not a tool call, `GroupAssumption` that there
are finitely many legacy directories, `PatchAssumption` that the files of a call
include those its patch names, `EditorAssumption` that a refresh puts one line at
least into a pane (`buildHistoryLines` and `ResetInput` see to it), `ViewAssumption`
that a terminal has a row and a column. What a theorem assumes beyond them stands in
its statement and, but for one case noted there, is necessary: section 3 has the
counterexample. Each module states
its inductive invariant first; TLC checked each on the module's run before it was
proved.

`ThreadRun_proofs`, for every number of runs and every set of tools (its last part
is about `Progress`, see below):

- `TypeCorrect`, `BlockedCorrect` and `PromptsCorrect` need no assumption. Types
  are inductive only with `Wired` (a run that exists has an approver, a call that
  asks has a client, ...), hence `TypeInv == TypeOK /\ Wired`. `PromptInv` says
  that a request is in the channel of one approver, or on screen, or gone, and
  that an answered one is gone: otherwise a second copy of a request could appear
  on screen after its call was answered and left.
- `StateCorrect`, `ResultsCorrect`, `AppendOnlyCorrect` and `Refinement` assume
  `~SaveMayFail`. Their invariant
  `RunInv` says that at most the newest run is in flight and only while the
  thread is not idle, that `disk = dialogue`, and that the copy a worker took is
  still the dialogue, without the system message of an old release. The last
  conjunct is what makes installing an extension of
  an old copy an append; it holds because nobody else can be in flight.
- `Refinement` maps `current` to the newest run while the thread is not idle:
  `BeginChat` and `Retry` are `Begin`, `WorkerFinalize` is `Commit`,
  `WorkerAbort` is `Fail`, everything else stutters.

`ThreadIds_proofs`, for every set of processes and every bound:
`IdsIncreaseCorrect`, `FileForwardCorrect`, `NewDirIsFreeCorrect` and the types.
The invariant `IdInv` says of every
process that its version's number is neither above the file's nor above its own,
that once it has loaded the file covers every thread directory, that the id it has
drawn, for a new or a legacy thread, is not above the file's number, and that no id
above that number was given out. A compare-and-swap that succeeds then
writes a number above every id given out before. `IdInv` holds until the file is
missed (`UntilMissed`), and `missed` never goes back (`MissedStays`). After that
`NewDirIsFree` still holds while processes do not overlap, by another invariant
(`AloneInv`, `WhileAlone`): the number of the one process that is up, not the
file's, bounds the directories, and a file that is there is the one it last read
or wrote.

`AtomicFS_proofs`, for any goroutines and processes: `InvCorrect` and
`RefinementCorrect` (`Spec => ImplementsCasFile`). `LockInv` is mutual exclusion
under the advisory lock, also after a kill; `WriteInv` is what a call under the
lock relies on: the version it compared is still the file's, its temporary file
holds its contents and is synced before the rename, and an acknowledged write is
on disk. With it `Rename` is `CasFile`'s step that takes effect and `PowerLoss`
its crash. The silent steps are one lemma, since they differ only in where the
call is.

`ThreadGroups_proofs`, for any bound on ids and any finite set of legacy
directories: the types, `LossCorrect`, `OneHomeCorrect`, `PanicCorrect`,
`NamelessCorrect`. `LoadInv` says that a group that was loaded holds nothing but
threads in their own directories and that its map is what the directory holds;
`MoveInv` where the thread that is being moved is, on disk and in the maps, at
every step of `MoveThread`; `IdInv` that every new id is new; `HeldInv` that a thread
is on disk or, if it is in `cut`, that a garbled file of it is left; `UniqueInv` that
none is there twice but those in `halfMoved` and the one a crash would add to them
(`Excused`). The first three carry the last two: a move may remove the source only
because the copy in the destination is on disk.

Of `Progress`, for any publishers, subscribers, events and channel sizes:
`ProgressTypeCorrect`, `LatestCorrect`, and `PanicRaceCorrect`: a closed channel
that a publisher still has as a target is in `raced`, because it was on the list
when the publisher copied it and is on no list copied later. The argument of
`LatestCorrect` is `Coming`: a subscriber that lacks the latest event is in the
target list of a publisher that still has it to send, or such a publisher has
not yet copied the list.

`Approvals_proofs`, for any requests, processes and calls:

- Lemmas about `Policies`: a prefix of a prefix is one; the choices of a request
  are about its own objects; of the ancestors that have a policy one is nearest
  (by well-founded induction on lengths), so that what `Check` finds is a stored
  policy whose label covers the request (`CheckGrants`).
- `GrantCorrect`: nothing is allowed that was not granted, with several
  processes, failing writes, kills and setup. Stores, encoded snapshots and both
  files hold only chosen grants (`StoreInv`, `OpInv`), and the mutex is held
  exactly by the call in Save (`LockInv`).
- `FileCorrect` assumes one process whose setup is over before it starts:
  then whoever writes has the temporary file to itself (`FileInv`).
- `GrantsCorrect` assumes `Lone` (one process, one call at a time, setup before
  it), `~WritesMayFail`, and `Apart` (no directory around an object has a policy
  but the one the request offers); the instance of `approvals_labels` satisfies
  all three. Its invariant `GrantInv` says that file, store and what is being
  written give at least the saved grants, and that a call that asks has looked up
  every choice in vain. A choice never takes away, because the user is asked only
  when what is stored did not suffice (`ChoiceWidens`): this is the argument that
  two open prompts break.

`Workspace_proofs`, for any commits and files: the types, `RecordCorrect`,
`MergeCorrect` and `CommitCorrect` whatever fails;
`RemoteCorrect` if no git command is killed; `WorkKeptCorrect` if moreover
`ws.json` can be read. `RecordInv` ties the record, `ws.json` and the place of
the operation; `MergeInv` follows a commit from the status through the fetch to
the merge while the agent commits on; `KeepInv` says why an operation may remove
the sandbox at each step from which it does: nobody can have worked in it, the
user consented, or a repository is ruined for good. Frame lemmas (`SandboxFrame`,
`OriginFrame`, ...) name the actions that touch a group of variables, so that each
invariant is proved for those only.

`Patch_proofs`, for any text of a patch and any files: `MoveCorrect`,
`OnlyApprovedCorrect` and `AppliedCorrect`. `ParseInv` keeps the parser before
the last marker, `NameInv` ties what is parsed and committed to what the text
names, which is what `collectPatchPaths` scanned (`CallInv`); `ApplyInv` says of a
tidy patch that every change is applied or still to come, whatever the order, and
that nothing else has changed.

`AppliedCorrect` is `AppliedAsWritten` in full and rests on `TextInv`: the texts
loaded are those of the call; the chunks of every update that was parsed, or is
being parsed, make what its sections say so far (`Understood`); and the new texts
of the commit are what `Rewritten` gives. The argument goes up in three steps.
Line by line, the chunks of a section and what is pending of its last one make
what the author's lines make (`Pending`). Section by section, chunks that are
moved to where `FindContext` found the section (`ContextFinds`: inside the file,
not before the place the search began at) and applied after those of the sections
before it make what `Rewritten` makes (`SectionMakes`). File by file,
`GetUpdatedFile` puts the unchanged rest after them (`UpdatedAsWritten`). That the
sections are `Apart` is needed where a section is applied after another.

`Editor_proofs`, for any texts, runes typed and sizes of the pane, of the input
pane and of the history: `ColumnsCorrect`, `ThumbCorrect`, `UpCorrect`,
`CursorCorrect` and `TypingCorrect`. The hypotheses are `Unbroken` (no line wraps
at its words; the input pane and code blocks never do), `Wide` (two columns at
least) and, for the last two, `Tabless`; section 3 shows why each is needed, and
`editor_keys` satisfies all of them.

- The rows of a text tile it: each goes on where the row before it ends, the first
  shows the start of the text and the last its end (`RowsTiled`, from `CutTiled` for
  one line that wraps hard and `LineTiled` for any). Hence every place is in exactly
  one row (`OneRow`), also where a line exactly fills its rows, and later rows show
  later places (`RowsOrdered`).
- `EditorInv` is the inductive invariant: the frame holds lines of the right runes
  and the cursor is in one of them, not behind the column where its line ends on the
  screen. With tabs that may be behind its last rune; this is why the invariant
  speaks of columns.
- Every method that moves keeps text and invariant (`MovedKeeps`), as every edit
  does (`EditFrames`) once `EnsureCursorVisible` has run; that brings the row of the
  cursor into the viewport (`Ensured`), where the caret is then drawn (`CaretSeen`).
- Up from a row goes to a higher one or, when the row above ends where this one
  starts, to the start of the same row; the second press then leaves it (`UpRow`,
  `UpTwice`).
- An edit is an equation between sequences: a line cut at the cursor and put
  together again (`CutAt`, `CutBack`, `Between`); erasing gives back the two halves.

The same module proves `DraftCorrect` of `ThreadView`, for any dialogue, answers,
reasoning, typed runes, number of runs and widths of the terminal. Its hypotheses
are `Steady` (ShowReasoningInInput does not change during a run; section 3 shows what
happens otherwise) and `WideView` (the lemmas are about panes of two columns or
more; a narrower terminal is not a known exception).

- `DraftInv` is the inductive invariant. `TextSafe` says where the user's text is:
  in the input pane or, over the menu, in the draft; and while the pane shows the
  reasoning of a run, there is none, since the prompt was just sent; where the
  view of the archived thread was
  left, `wiped` says that the draft no longer is that text. An archived
  thread shows no run. `ViewShape` is what the lemmas on frames need.
- The heart of it is `Restored`: the text of a pane, put back rune by rune and line
  break by line break into an empty pane of another size, gives the same text again,
  wherever the cursor is then moved. By induction over the runes (`PutBack`), each is
  put at the end of the text (`RuneAtEnd`, `BreakAtEnd`).
- Every key that moves, `EnsureCursorVisible` and every step of a restored cursor
  keep the text (`MovedText`, `EnsuredText`, `RestoreKeeps`); a refresh with the
  lines of the reasoning leaves a frame (`RefreshKeeps`).

What a recursive function of the models computes is proved by induction up to a
bound: `UpTo` (a set that has 0 and with every number the next has all numbers
up to n), or the least element of a well-founded set. That such a function exists is
`Recursion`: the values below k determine the value at k. The prover cannot
instantiate the library's induction theorems, which take an operator as parameter.

Only model-checked:

- liveness (`RunsEnd`, `ViewReleasesRun`, `StoppedCallsReturn`, `CallsReturn`,
  `OperationsEnd`): the prover has no fairness rules;
- `ReaderNotCarriedAhead` of `ThreadView`. The cursor is restored by rows, so the
  property depends on how the lines of an answer change from chunk to chunk; it does
  not hold of every value of `Contents`.

Runs and theorems are about panes that wrap hard or not at all. Word wrapping is
modelled, but with it properties of `Editor` fail where a line is broken (section 3).

## 5. Not modelled

- Drawing, wording of prompts, audit logs and formatting: input and output.
- Vendor SDKs, the git program, the sandbox user and the operating system's
  process control: external; git is modelled by what its commands do.
- Modal dialogs and the stdio UI: loops that return what the user chose; their
  answers are choices of the other models.
- Configuration dialogs: one goroutine reads and writes one file in sequence.
- In `Patch`, two names of one file (path aliases), and another tool call that
  writes a file between its load and the application of the patch.
- Path resolution with openat2 (`fsparanoid`), the tunnels of the HTTP proxy, the
  selection and search of the menu: see the plan.

## 6. Plan

1. Done: thread runs, ids, groups, progress, policies; atomic files and the
   refinement of the compare-and-swap file; workspaces; frames, editor and thread
   view; the patch tool.
2. Done: proofs of every safety and action property that the runs check, but
   `ReaderNotCarriedAhead`; the refinements of `ChatLog` and `CasFile`.
   Left: grants of several calls at a time, if no choice offers less than another
   (`Lone` is stronger than that needs); `ReaderNotCarriedAhead`, with a statement of
   which answers it needs.
3. Further models: the menu's selection and viewport (PgDn in an empty list
   makes the selection -1), the life of the proxy's tunnels, path resolution.
