------------------------------- MODULE Editor --------------------------------
(***************************************************************************)
(* One pane of the thread view under every sequence of keys: the input     *)
(* pane, which is edited and wraps hard, or the history pane, which is     *)
(* only read and wraps as the user prefers.  Its text may be replaced and  *)
(* its size changed at any moment.                                         *)
(***************************************************************************)
EXTENDS TextFrame, FiniteSets

CONSTANTS Typed,     \* the runes the user types
          Texts,     \* the texts a refresh may put into the pane, as lines
          Sizes,     \* the sizes of the pane: height and width
          MaxInput,  \* bound: runes in the pane
          HasInput,  \* the input pane?
          WrapMode   \* toggles.wrapMode, for the history pane

\* A refresh puts one line at least into the pane.
ASSUME EditorAssumption == /\ Typed \subseteq STRING
                           /\ Texts \subseteq Seq(TextLine) \ {<<>>}
                           /\ Sizes \subseteq (Nat \ {0}) \X (Nat \ {0})
                           /\ HasInput \in BOOLEAN
                           /\ WrapMode \in WrapModes

VARIABLE frame

\* NewFrame; the input pane starts with one empty line, the history pane at its end.
Init ==
    \E size \in Sizes : \E lines \in Texts :
        frame = IF HasInput THEN ResetInput(Frame(size[1], size[2], "hard"))
                ELSE MoveEnd(SetLines(Frame(size[1], size[2], WrapMode), lines))

Move(key) == frame' = Moved(key, frame, ~HasInput)

Edit(f) ==
    /\ HasInput
    /\ Len(InputString(f)) <= MaxInput
    /\ frame' = EnsureCursorVisible(f)

Type == \/ \E r \in Typed : Edit(InsertRune(frame, r))
        \/ Edit(InsertTab(frame))
        \/ Edit(InsertNewline(frame))

Erase == Edit(Backspace(frame)) \/ Edit(DeleteForward(frame))

\* A refresh, and the ResetInput after a run.
Replace == \E lines \in Texts : frame' = SetLines(frame, lines)
Reset   == HasInput /\ frame' = ResetInput(frame)

Next == (\E k \in Keys : Move(k)) \/ Type \/ Erase \/ Replace \/ Reset

Spec == Init /\ [][Next]_frame
-----------------------------------------------------------------------------
(* Properties.                                                             *)

Rows      == BuildDisplayLines(frame)
CursorRow == CursorDisplayPos(frame, Rows).row

\* Wrapping preserves the mapping of the cursor: every position of the text is
\* shown by exactly one row (frameDisplayLine, ncurses_frame_wrap.go).
EveryColumnHasARow ==
    LET rows == Rows
    IN  \A n \in 0 .. LastLine(frame) : \A col \in 0 .. Len(Runes(frame, n)) :
            Cardinality(RowsOf(rows, n, col)) = 1

\* Backspace, and forward deletion after a move to the left, undo an insertion
\* of a rune or of a line break, at any place of any text.
ErasingUndoesTyping ==
    LET Same(f) == /\ InputString(f) = InputString(frame)
                   /\ f.line = frame.line /\ f.col = frame.col
    IN  \A f \in {InsertNewline(frame)} \cup {InsertRune(frame, r) : r \in Typed} :
            Same(Backspace(f)) /\ Same(DeleteForward(MoveCursorLeft(f)))

\* Two presses of the up key always bring the cursor to a higher row, so that
\* the key reaches the top of the text (MoveCursorUp).
UpReachesTheTop ==
    LET twice == Moved("up", Moved("up", frame, TRUE), TRUE)
    IN  CursorRow > 0 => CursorDisplayPos(twice, Rows).row < CursorRow

\* The thumb of the scrollbar is in the first free row when the viewport is at the
\* top, though perhaps not only then, and, where the track has rows to move in, in the
\* last exactly when it is at the end.  In a track of one row, that of a pane of one or
\* three rows, it is drawn everywhere but at the end (ComputeScrollbar).
ThumbShown ==
    LET sb    == ComputeScrollbar(Len(Rows), frame.height, frame.scroll)
        first == IF sb.arrows THEN 1 ELSE 0
        last  == frame.height - (IF sb.arrows THEN 2 ELSE 1)
        end   == frame.scroll >= MaxScroll(frame, Rows)
    IN  sb.bar =>
            /\ frame.scroll = 0 => sb.thumb = first
            /\ first < last => (sb.thumb = last <=> end)
            /\ ThumbRows(sb, frame.height) = {} <=> (first = last /\ end)

\* "The thumb is always one row tall" (ComputeScrollbar): a scrollbar has a thumb.
\* In a track of one row it has none at the end of the text.
ThumbAlwaysThere ==
    LET sb == ComputeScrollbar(Len(Rows), frame.height, frame.scroll)
    IN  sb.bar => Cardinality(ThumbRows(sb, frame.height)) = 1

\* Is the row in which the caret is drawn the row of the cursor?
CaretTrue(f) ==
    LET rows == BuildDisplayLines(f)
    IN  CursorDisplayPos(f, rows).row = f.scroll + CaretRow(f, rows)

\* The keys after which processThreadViewKey does not ensure that the cursor is visible.
Unensured == {"left", "right"} \cup (IF HasInput THEN {"pgup", "pgdn"} ELSE {})

\* Wherever the cursor is, after any other key, an edit or a refresh the caret is
\* drawn in the row of the cursor (EnsureCursorVisible, Render).
KeysShowTheCursor ==
    /\ \A k \in Keys \ Unensured : CaretTrue(Moved(k, frame, ~HasInput))
    /\ \A lines \in Texts : CaretTrue(SetLines(frame, lines))
    /\ HasInput => \A f \in {InsertNewline(frame), InsertTab(frame), Backspace(frame),
                             DeleteForward(frame)} : CaretTrue(EnsureCursorVisible(f))
=============================================================================
