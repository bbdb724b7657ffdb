------------------------------ MODULE ThreadView ------------------------------
(***************************************************************************)
(* The view of one thread: a history pane and an input pane, each a        *)
(* TextFrame, the keys that move in them and edit them, the refreshes of a *)
(* running thread, the draft that is kept while the user is in the menu.   *)
(*                                                                         *)
(* The worker of a run streams content and reasoning and ends on its own;  *)
(* what else it does is the subject of ThreadRun.  Labels, headers and     *)
(* colours of the view are left out.                                       *)
(***************************************************************************)
EXTENDS TextFrame, FiniteSets

CONSTANTS Dialogue,     \* the lines of the dialogue the thread starts with
          Contents,     \* what a run answers: the lines after its first, second, ... chunk
          Reasonings,   \* its reasoning: the texts after the first, second, ... chunk
          UserRunes,    \* the runes the user types
          HistoryKeys,  \* bound: the keys that move in the history pane
          InputKeys,    \* bound: the keys that move in the input pane
          MaxDraft,     \* bound: runes in the input pane
          MaxNote,      \* bound: the same, where the pane does not hold the user's text
          MaxRuns,      \* bound: prompts sent
          Height,       \* rows of a pane
          Widths,       \* columns of a pane: the terminal may be resized
          HistoryWrap,  \* toggles.wrapMode
          PrefChanges   \* when ShowReasoningInInput may change: "idle" or "any" time

ASSUME ViewAssumption == /\ Widths \subseteq Nat \ {0} /\ Height \in Nat \ {0}
                         /\ HistoryWrap \in WrapModes
                         /\ HistoryKeys \cup InputKeys \subseteq Keys
                         /\ PrefChanges \in {"idle", "any"}
                         /\ {MaxDraft, MaxNote, MaxRuns} \subseteq Nat
                         /\ UserRunes \subseteq STRING /\ Reasonings \in Seq(Seq(STRING))

VARIABLES
    at,          \* "menu" or "view"
    width,       \* the width of the terminal
    pref,        \* prefs.ShowReasoningInInput
    group,       \* the group of the thread: "main" or "archive"
    dialogue,    \* the lines of the saved dialogue
    run,         \* the run of the worker
    runs,        \* how many prompts were sent
    isArchived,  \* tvUI.isArchived
    history,     \* tvUI.historyFrame
    input,       \* tvUI.inputFrame
    focus,       \* the pane of tvUI.focusedFrame
    running,     \* tvUI.running
    draft,       \* tvUI.inputDraft and its cursor
    mine,        \* history: the text the user has typed and not sent
    wiped        \* history: did the view of an archived thread replace that text?

threadVars == <<group, dialogue, run, runs>>
viewVars   == <<isArchived, history, input, focus, running, draft, mine, wiped>>
vars       == <<at, width, pref, threadVars, viewVars>>

Panes == {"history", "input"}

NoRun      == [phase |-> "none", prompt |-> <<>>, content |-> 0, reasoning |-> 0]
NotRunning == [on |-> FALSE, followHistory |-> FALSE, followReasoning |-> FALSE,
               content |-> 0, reasoning |-> 0]
NoDraft    == [text |-> <<>>, line |-> 0, col |-> 0]

\* setRunningState; -1 is a length that no text has.
Started == [on |-> TRUE, followHistory |-> TRUE, followReasoning |-> TRUE,
            content |-> -1, reasoning |-> -1]

HistoryFrame(w) == Frame(Height, w, HistoryWrap)
InputFrame(w)   == ResetInput(Frame(Height, w, "hard"))

TextLines(text) == LET parts == SplitLines(text) IN [n \in DOMAIN parts |-> Line(parts[n])]

ViewInit ==
    /\ at = "menu"
    /\ width \in Widths
    /\ pref \in BOOLEAN
    /\ group = "main"
    /\ dialogue = Dialogue
    /\ run = NoRun
    /\ runs = 0
    /\ isArchived = FALSE
    /\ history = HistoryFrame(width)
    /\ input = InputFrame(width)
    /\ focus = "input"
    /\ running = NotRunning
    /\ draft = NoDraft
    /\ mine = <<>>
    /\ wiped = FALSE
-----------------------------------------------------------------------------
(* What the panes show.                                                    *)

\* The empty dialogue still has a line for the cursor.
HistoryLines(lines) == IF lines = <<>> THEN <<Line(<<>>)>> ELSE lines

SavedLines == HistoryLines(dialogue)

\* The saved dialogue, then the prompt and the partial answer of a run.
PendingLines(r) ==
    HistoryLines(dialogue \o TextLines(r.prompt)
                 \o (IF r.content = 0 THEN <<>> ELSE Contents[r.content]))

ReasoningLines(r) == TextLines(IF r.reasoning = 0 THEN <<>> ELSE Reasonings[r.reasoning])

Times(Op(_), n, f) ==
    LET after[i \in 0 .. n] == IF i = 0 THEN f ELSE Op(after[i - 1])
    IN  after[n]

\* Moves the cursor back to where it was: line rows down, then col columns right.
RestoreCursor(f, line, col) ==
    EnsureCursorVisible(
        Times(MoveCursorRight, col, Times(MoveCursorDown, line, MoveHome(f))))

\* Faulty variant: every refresh goes to the end.
Refresh_AlwaysEnd(f, lines, follow) == MoveEnd(SetLines(f, lines))

\* New lines in a pane: at the end if the pane follows, else where the reader was.
Refresh(f, lines, follow) ==
    LET g == SetLines(f, lines)
    IN  IF follow THEN MoveEnd(g) ELSE RestoreCursor(g, f.line, f.col)

\* setHistoryFrameForThread
SavedHistory(f) == MoveEnd(SetLines(f, SavedLines))

\* restoreInputFrameContent
RestoredInput(f, text, line, col) ==
    LET put[i \in 0 .. Len(text)] ==
            IF i = 0 THEN ResetInput(f)
            ELSE IF text[i] = "\n" THEN InsertNewline(put[i - 1])
            ELSE InsertRune(put[i - 1], text[i])
    IN  RestoreCursor(put[Len(text)], line, col)

\* The frames of createThreadViewFrames, and syncHistoryFrameWithCurrentThreadState.
NewHistory(w, r) ==
    LET f == SavedHistory(HistoryFrame(w))
    IN  IF r.on THEN Refresh(f, PendingLines(run), r.followHistory) ELSE SavedHistory(f)
-----------------------------------------------------------------------------
(* Entering and leaving the view.                                          *)

\* lookupOrCreateThreadViewUI, runThreadView up to its loop.  Leaving the view
\* captures the draft anew, so the model forgets it once it is restored.
Open ==
    /\ at = "menu"
    /\ at' = "view"
    /\ isArchived' = (group = "archive")
    /\ LET r == IF isArchived' THEN NotRunning ELSE running
       IN  /\ history' = NewHistory(width, r)
           /\ running' = [r EXCEPT !.content = IF r.on THEN run.content ELSE @]
           /\ run' = IF running.on /\ ~r.on THEN NoRun ELSE run
    /\ input' = IF isArchived' THEN InputFrame(width)
                ELSE RestoredInput(InputFrame(width), draft.text, draft.line, draft.col)
    /\ draft' = IF isArchived' THEN draft ELSE NoDraft
    /\ focus' \in IF isArchived' THEN {"history"} ELSE Panes
    /\ UNCHANGED <<width, pref, group, dialogue, runs, mine, wiped>>

Captured == [text |-> InputString(input), line |-> input.line, col |-> input.col]

\* The prompt line and the reasoning of a run are not text of the user.
ShowsReasoning == running.on /\ pref

\* ESC in the history pane: captureInputDraft, of the pane of an archived thread too,
\* which does not show the draft that is kept.
Close ==
    /\ at = "view" /\ focus = "history"
    /\ at' = "menu"
    /\ draft' = Captured
    /\ wiped' = IF isArchived THEN InputString(input) # mine ELSE wiped
    /\ history' = HistoryFrame(width)
    /\ input' = InputFrame(width)
    /\ UNCHANGED <<width, pref, threadVars, isArchived, focus, running, mine>>

\* handleThreadViewResize
Resize ==
    /\ at = "view"
    /\ width' \in Widths \ {width}
    /\ input' = RestoredInput(InputFrame(width'), Captured.text, Captured.line, Captured.col)
    /\ history' = NewHistory(width', running)
    /\ running' = [running EXCEPT !.content = IF running.on THEN run.content ELSE @]
    /\ UNCHANGED <<at, pref, threadVars, isArchived, focus, draft, mine, wiped>>

\* In the menu: archiving and unarchiving, and the preference of the config menu.
MoveThread ==
    /\ at = "menu"
    /\ run.phase # "active"
    /\ group' = IF group = "main" THEN "archive" ELSE "main"
    /\ UNCHANGED <<at, width, pref, dialogue, run, runs, viewVars>>

SetPref ==
    /\ at = "menu"
    /\ PrefChanges = "any" \/ ~running.on
    /\ pref' = ~pref
    /\ UNCHANGED <<at, width, threadVars, viewVars>>
-----------------------------------------------------------------------------
(* Keys.                                                                   *)

Navigate(key) ==
    /\ at = "view"
    /\ \/ /\ focus = "history" /\ key \in HistoryKeys
          /\ history' = Moved(key, history, TRUE)
          /\ running' = [running EXCEPT !.followHistory = running.on /\ key = "end"]
          /\ input' = input
       \/ /\ focus = "input" /\ key \in InputKeys
          /\ input' = Moved(key, input, FALSE)
          /\ running' = [running EXCEPT !.followReasoning = running.on /\ key = "end"]
          /\ history' = history
    /\ UNCHANGED <<at, width, pref, threadVars, isArchived, focus, draft, mine, wiped>>

\* 'i' in the history pane, ESC in the input pane
SwitchPane ==
    /\ at = "view"
    /\ focus' = IF focus = "history" THEN "input" ELSE "history"
    /\ UNCHANGED <<at, width, pref, threadVars, isArchived, history, input, running, draft, mine, wiped>>

\* A key of the input pane, which makes f of its frame.
EditInput(f) ==
    /\ at = "view" /\ focus = "input"
    /\ Len(InputString(f)) <= IF isArchived \/ ShowsReasoning THEN MaxNote ELSE MaxDraft
    /\ input' = EnsureCursorVisible(f)
    /\ \/ (isArchived \/ ShowsReasoning) /\ UNCHANGED <<mine, wiped>>
       \/ ~(isArchived \/ ShowsReasoning) /\ mine' = InputString(f) /\ wiped' = FALSE
    /\ UNCHANGED <<at, width, pref, threadVars, isArchived, history, focus, running, draft>>

TypeInput == \/ \E r \in UserRunes : EditInput(InsertRune(input, r))
             \/ EditInput(InsertTab(input))
             \/ EditInput(InsertNewline(input))

EraseInput == EditInput(Backspace(input)) \/ EditInput(DeleteForward(input))

\* strings.TrimSpace
TrimSpace(text) ==
    LET kept == {i \in DOMAIN text : text[i] \notin {" ", "\t", "\n"}}
    IN  IF kept = {} THEN <<>> ELSE SubSeq(text, Min(kept), Max(kept))

\* Ctrl-D; a run that is under way, a blank input and an archived thread refuse it.
Send ==
    /\ at = "view"
    /\ ~isArchived
    /\ run.phase # "active"
    /\ runs < MaxRuns
    /\ TrimSpace(InputString(input)) # <<>>
    /\ run' = [NoRun EXCEPT !.phase = "active", !.prompt = TrimSpace(InputString(input))]
    /\ runs' = runs + 1
    /\ running' = Started
    /\ draft' = NoDraft
    /\ history' = Refresh(history, PendingLines(run'), TRUE)
    /\ input' = IF pref THEN Refresh(input, ReasoningLines(run'), TRUE)
                ELSE EnsureCursorVisible(ResetInput(input))
    /\ mine' = <<>>
    /\ wiped' = FALSE
    /\ UNCHANGED <<at, width, pref, group, dialogue, isArchived, focus>>
-----------------------------------------------------------------------------
(* A run: its worker, and processAsyncChat in the view.                    *)

Stream ==
    /\ run.phase = "active"
    /\ \/ run.content < Len(Contents) /\ run' = [run EXCEPT !.content = @ + 1]
       \/ run.reasoning < Len(Reasonings) /\ run' = [run EXCEPT !.reasoning = @ + 1]
    /\ UNCHANGED <<at, width, pref, group, dialogue, runs, viewVars>>

Finish ==
    /\ run.phase = "active"
    /\ \/ /\ run.content = Len(Contents)
          /\ run' = [run EXCEPT !.phase = "ok"]
          /\ dialogue' = PendingLines(run)
       \/ run' = [run EXCEPT !.phase = "failed"] /\ dialogue' = dialogue
    /\ UNCHANGED <<at, width, pref, group, runs, viewVars>>

\* The panes after the first part of processAsyncChat.
TickedHistory == IF run.content = running.content THEN history
                 ELSE Refresh(history, PendingLines(run), running.followHistory)
TickedInput   == IF ~pref \/ run.reasoning = running.reasoning THEN input
                 ELSE Refresh(input, ReasoningLines(run), running.followReasoning)

Tick ==
    /\ at = "view" /\ running.on
    /\ run.content # running.content \/ (pref /\ run.reasoning # running.reasoning)
    /\ history' = TickedHistory
    /\ input' = TickedInput
    /\ running' = [running EXCEPT !.content = run.content,
                                  !.reasoning = IF pref THEN run.reasoning ELSE @]
    /\ UNCHANGED <<at, width, pref, threadVars, isArchived, focus, draft, mine, wiped>>

\* Faulty variant: the notes of a failed run stay in the pane.
Result_NoReset ==
    /\ at = "view" /\ running.on
    /\ run.phase \in {"ok", "failed"}
    /\ history' = SavedHistory(TickedHistory)
    /\ input' = EnsureCursorVisible(IF pref /\ run.phase = "ok" THEN ResetInput(TickedInput)
                                    ELSE TickedInput)
    /\ running' = NotRunning
    /\ run' = NoRun
    /\ UNCHANGED <<at, width, pref, group, dialogue, runs, isArchived, focus, draft, mine, wiped>>

\* The result of a run, or its error when the user declines to retry.
Result ==
    /\ at = "view" /\ running.on
    /\ run.phase \in {"ok", "failed"}
    /\ history' = SavedHistory(TickedHistory)
    /\ input' = EnsureCursorVisible(IF pref THEN ResetInput(TickedInput) ELSE TickedInput)
    /\ running' = NotRunning
    /\ run' = NoRun
    /\ UNCHANGED <<at, width, pref, group, dialogue, runs, isArchived, focus, draft, mine, wiped>>

Retry ==
    /\ at = "view" /\ running.on
    /\ run.phase = "failed"
    /\ run' = [NoRun EXCEPT !.phase = "active", !.prompt = run.prompt]
    /\ running' = Started
    /\ history' = Refresh(TickedHistory, PendingLines(run'), TRUE)
    /\ input' = IF pref THEN Refresh(TickedInput, ReasoningLines(run'), TRUE) ELSE TickedInput
    /\ UNCHANGED <<at, width, pref, group, dialogue, runs, isArchived, focus, draft, mine, wiped>>

ViewNext ==
    \/ Open \/ Close \/ Resize \/ MoveThread \/ SetPref
    \/ \E k \in Keys : Navigate(k)
    \/ SwitchPane \/ TypeInput \/ EraseInput \/ Send
    \/ Stream \/ Finish \/ Tick \/ Result \/ Retry

ViewSpec == ViewInit /\ [][ViewNext]_vars
-----------------------------------------------------------------------------
(* Properties.                                                             *)

\* What the user typed and did not send is what the input pane holds whenever
\* the thread is idle: no detour over the menu, no resize and no run loses it or
\* mixes the model's reasoning into it (captureInputDraft, restoreInputDraft).  The
\* one exception is the view of the archived thread, which on leaving captures its
\* own pane, until the user types again.
DraftKept ==
    at = "view" /\ ~isArchived /\ ~running.on /\ ~wiped => InputString(input) = mine

\* The same without the exception: "Keep the draft state cached so it can reappear
\* if/when the thread is later unarchived" (restoreInputDraft).  The code does not,
\* since it captures the pane of the archived thread when its view is left.
DraftReappears ==
    at = "view" /\ ~isArchived /\ ~running.on => InputString(input) = mine

Behind(g, f) == g.line < f.line \/ (g.line = f.line /\ g.col <= f.col)

\* No refresh carries a reader who left the end of the history, and no resize
\* the cursor of the input, past text that was below it (restoreInputFrameContent,
\* setHistoryFrameFromBlocks).
ReaderNotCarriedAhead ==
    [][at = "view" /\ at' = "view" =>
         /\ running'.on /\ ~running.followHistory /\ ~running'.followHistory /\ width' = width
              /\ history'.lines # history.lines => Behind(history', history)
         /\ width' # width => Behind(input', input)]_vars

\* A reader who left the end stays where he is when more text arrives.
ReaderStays ==
    [][at = "view" /\ at' = "view" /\ running'.on
         /\ ~running.followHistory /\ ~running'.followHistory /\ history'.lines # history.lines
           => history'.line = history.line /\ history'.col = history.col]_vars
=============================================================================
