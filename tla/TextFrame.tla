------------------------------ MODULE TextFrame ------------------------------
(***************************************************************************)
(* The text frame of internal/ui: a buffer of logical lines, a cursor, and *)
(* a viewport over the rows into which the lines are wrapped when they are *)
(* drawn.  A frame is a value, and every method of Frame that changes one  *)
(* is an operator from frames to frames.                                   *)
(*                                                                         *)
(* Lines, columns, rows and scroll offsets count from 0 as in the code, so *)
(* line n of the buffer is lines[n + 1].  The continuation marker and the  *)
(* attributes of a row are left out: they change neither rows nor cursor.  *)
(***************************************************************************)
EXTENDS Integers, SequencesExt

CONSTANT TabWidth   \* DefaultTabWidth, defaultTabSpaces

ASSUME TabAssumption == TabWidth \in Nat \ {0}

Blanks  == {" ", "\t"}
Bullets == {"-", "*", "bullet"}   \* the last is the rune U+2022
Digits  == {"0", "1", "2", "3", "4", "5", "6", "7", "8", "9"}

WrapModes == {"off", "hard", "word"}

(* A line says how it wraps, or inherits that from its frame.  The height  *)
(* and width of a frame are those of its text, without the border and the  *)
(* column of the scrollbar.                                                *)
Line(runes)       == [runes |-> runes, wrap |-> "inherit"]
TextLine          == [runes : Seq(STRING), wrap : WrapModes \cup {"inherit"}]
Frame(h, w, mode) == [lines |-> <<>>, line |-> 0, col |-> 0, scroll |-> 0,
                      height |-> h, width |-> w, wrap |-> mode]

Clamp(v, lo, hi) == IF v < lo THEN lo ELSE IF v > hi THEN hi ELSE v

At(f, line, col) == [f EXCEPT !.line = line, !.col = col]
Nowhere(f)       == [f EXCEPT !.line = 0, !.col = 0, !.scroll = 0]

Runes(f, n)     == f.lines[n + 1].runes
LastLine(f)     == Len(f.lines) - 1
-----------------------------------------------------------------------------
(* Rows.                                                                   *)

ExpandTabs(runes) ==
    LET expand[i \in 0 .. Len(runes)] ==
            IF i = 0 THEN <<>>
            ELSE IF runes[i] # "\t" THEN Append(expand[i - 1], runes[i])
            ELSE expand[i - 1] \o [k \in 1 .. TabWidth - (Len(expand[i - 1]) % TabWidth) |-> " "]
    IN  IF Contains(runes, "\t") THEN expand[Len(runes)] ELSE runes

\* The row that shows len runes of a line, from column start on, after an indent.
Row(line, start, indent, len, continues) ==
    [line |-> line, start |-> start, indent |-> indent, len |-> len, continues |-> continues]

\* A line of len runes cut into rows of segment runes; the last may fill the width.
CutRows(n, len, width, segment) ==
    LET rows[start \in 0 .. len] ==
            IF len - start <= width
            THEN <<Row(n, start, 0, len - start, FALSE)>>
            ELSE <<Row(n, start, 0, segment, segment < width)>> \o rows[start + segment]
    IN  rows[0]

\* Faulty variant: no column is left to the marker.
HardRows_FullWidth(n, runes, width) == CutRows(n, Len(ExpandTabs(runes)), width, width)

\* A row that continues leaves its last column to the marker.
HardRows(n, runes, width) ==
    CutRows(n, Len(ExpandTabs(runes)), width, IF width > 1 THEN width - 1 ELSE 1)

OffRows(n, runes) == <<Row(n, 0, 0, Len(ExpandTabs(runes)), FALSE)>>

\* The first column from i on that holds none of the runes of S.
Skip(runes, i, S) ==
    CHOOSE j \in i .. Len(runes) : /\ j = Len(runes) \/ runes[j + 1] \notin S
                                   /\ \A k \in i .. j - 1 : runes[k + 1] \in S

\* The width of a bullet or of a number at the start of a list item.
HangingIndent(runes) ==
    LET i == Skip(runes, 0, Blanks)
        j == Skip(runes, i, Digits)
        Rune(k) == IF k < Len(runes) THEN runes[k + 1] ELSE ""
    IN  IF Rune(i) \in Bullets /\ Rune(i + 1) = " " THEN i + 2
        ELSE IF j > i /\ Rune(j) = "." /\ Rune(j + 1) = " " THEN j + 2
        ELSE 0

\* The part of a line that fits into avail columns, and where the next part starts.
\* The part starts after the blanks at start and ends before the blank it breaks at.
Segment(len, next) == [len |-> len, next |-> next]

BrokenSegment(runes, from, break) ==
    Segment(Max({k \in from + 1 .. break : runes[k] \notin Blanks}) - from, break + 1)

SegmentFrom(runes, from, avail) ==
    LET breaks == {k \in from .. from + avail - 1 : runes[k + 1] \in Blanks}
    IN  IF Len(runes) - from <= avail THEN Segment(Len(runes) - from, Len(runes))
        ELSE IF breaks = {} THEN Segment(avail, from + avail)
        ELSE BrokenSegment(runes, from, Max(breaks))

NextWordSegment(runes, start, avail) ==
    SegmentFrom(runes, Skip(runes, start, Blanks), IF avail < 1 THEN 1 ELSE avail)

\* The rows of a line whose later rows are indented by hanging columns.
WordRowsOf(n, content, width, hanging) ==
    LET rows[start \in 0 .. Len(content)] ==
            LET indent == IF start > 0 THEN hanging ELSE 0
                RowAnd(seg) ==
                    <<Row(n, start, indent, seg.len, seg.next < Len(content))>>
                    \o (IF content = <<>> THEN <<>> ELSE rows[seg.next])
            IN  IF start = Len(content) /\ start > 0 THEN <<>>
                ELSE RowAnd(NextWordSegment(content, start, width - indent))
    IN  rows[0]

WordRows(n, content, width) == WordRowsOf(n, content, width, HangingIndent(content))

LineRows(f, n) ==
    LET line == f.lines[n]
        mode == IF line.wrap = "inherit" THEN f.wrap ELSE line.wrap
    IN  CASE mode = "off"  -> OffRows(n - 1, line.runes)
          [] mode = "word" -> WordRows(n - 1, ExpandTabs(line.runes), f.width)
          [] OTHER         -> HardRows(n - 1, line.runes, f.width)

BuildDisplayLines(f) == FlattenSeq([n \in DOMAIN f.lines |-> LineRows(f, n)])

MaxScroll(f, rows) == IF Len(rows) < f.height THEN 0 ELSE Len(rows) - f.height
-----------------------------------------------------------------------------
(* The cursor and its row.  rows are the rows of the frame f.              *)

\* The rows, counted from 0, that show column col of line n: one, if any.
RowsOf(rows, n, col) ==
    {d \in 0 .. Len(rows) - 1 :
        LET r == rows[d + 1]
        IN  /\ r.line = n
            /\ col >= r.start
            /\ col < r.start + r.len \/ (~r.continues /\ col = r.start + r.len)}

\* Row d and the column of the window in it at which column col of the line is.
PosIn(rows, d, col) == [row |-> d, x |-> rows[d + 1].indent + col - rows[d + 1].start]

EndOf(rows) == PosIn(rows, Len(rows) - 1, Last(rows).start + Last(rows).len)

PosAt(rows, n, col) ==
    LET hits == RowsOf(rows, n, col)
    IN  IF hits = {} THEN EndOf(rows) ELSE PosIn(rows, Min(hits), col)

\* A cursor that no row shows counts as the end of the last row.
CursorDisplayPos(f, rows) ==
    LET n == Clamp(f.line, 0, LastLine(f))
    IN  IF rows = <<>> THEN [row |-> 0, x |-> 0]
        ELSE PosAt(rows, n, Clamp(f.col, 0, Len(Runes(f, n))))

DisplayIndexToCursor(f, rows, index, x) ==
    LET row == rows[Clamp(index, 0, Len(rows) - 1) + 1]
    IN  IF rows = <<>> THEN At(f, 0, 0)
        ELSE At(f, row.line, row.start + Clamp(x - row.indent, 0, row.len))

\* The row of the window in which Render puts the caret.
CaretRow(f, rows) ==
    LET hits == RowsOf(rows, f.line, f.col)
        row  == IF hits = {} THEN 0 ELSE Min(hits)
    IN  Clamp(row - Clamp(f.scroll, 0, Len(rows)), 0, f.height - 1)

\* The cursor moved to the nearest place of the text.
Clamped(f) ==
    LET n == Clamp(f.line, 0, LastLine(f))
    IN  At(f, n, Clamp(f.col, 0, Len(Runes(f, n))))

\* Faulty variant: the first row below the viewport counts as shown.
ScrollTo_OffByOne(top, row, height) ==
    IF row < top THEN row ELSE IF row > top + height THEN row - height + 1 ELSE top

\* The first row of the viewport, after row was brought into view.
ScrollTo(top, row, height) ==
    IF row < top THEN row ELSE IF row >= top + height THEN row - height + 1 ELSE top

ScrollToCursor(f, rows, maxScroll) ==
    [f EXCEPT !.scroll =
        Clamp(ScrollTo(Clamp(@, 0, maxScroll), CursorDisplayPos(f, rows).row, f.height),
              0, maxScroll)]

ScrollInto(f, rows) == ScrollToCursor(f, rows, MaxScroll(f, rows))

EnsureCursorVisible(f) ==
    IF f.lines = <<>> THEN Nowhere(f) ELSE ScrollInto(Clamped(f), BuildDisplayLines(f))

MoveCursorLeft(f) ==
    IF f.col > 0 THEN At(f, f.line, f.col - 1)
    ELSE IF f.line > 0 THEN At(f, f.line - 1, Len(Runes(f, f.line - 1)))
    ELSE f

MoveCursorRight(f) ==
    IF f.line \notin 0 .. LastLine(f) THEN f
    ELSE IF f.col < Len(Runes(f, f.line)) THEN At(f, f.line, f.col + 1)
    ELSE IF f.line < LastLine(f) THEN At(f, f.line + 1, 0)
    ELSE f

\* Faulty variant: up goes by lines, not by rows.
MoveCursorUp_LineUp(f) ==
    IF f.line = 0 THEN f
    ELSE At(f, f.line - 1, Clamp(f.col, 0, Len(Runes(f, f.line - 1))))

\* From pos, count rows down or up; past the first and the last row is at it.
RowsAway(f, rows, pos, count) == DisplayIndexToCursor(f, rows, pos.row + count, pos.x)

\* One row up or down, if there is one.
RowStep(f, rows, pos, step) ==
    IF pos.row + step \in 0 .. Len(rows) - 1 THEN RowsAway(f, rows, pos, step) ELSE f

InRows(f, rows, step) == RowStep(f, rows, CursorDisplayPos(f, rows), step)

MoveCursorUp(f) == InRows(f, BuildDisplayLines(f), -1)
MoveCursorDown(f) == InRows(f, BuildDisplayLines(f), 1)

PageUpIn(f, rows) ==
    [RowsAway(f, rows, CursorDisplayPos(f, rows), -f.height)
        EXCEPT !.scroll = IF @ < f.height THEN 0 ELSE @ - f.height]

PageDownIn(f, rows) ==
    [RowsAway(f, rows, CursorDisplayPos(f, rows), f.height)
        EXCEPT !.scroll = Min({@ + f.height, MaxScroll(f, rows)})]

ScrollPageUp(f) ==
    IF f.lines = <<>> THEN Nowhere(f) ELSE PageUpIn(f, BuildDisplayLines(f))

ScrollPageDown(f) ==
    IF f.lines = <<>> THEN Nowhere(f) ELSE PageDownIn(f, BuildDisplayLines(f))

MoveHome(f) == Nowhere(f)

MoveEnd(f) ==
    LET n == LastLine(f)
    IN  IF f.lines = <<>> THEN Nowhere(f)
        ELSE [At(f, n, Len(Runes(f, n))) EXCEPT !.scroll = MaxScroll(f, BuildDisplayLines(f))]

\* The keys that move the cursor in a pane of the thread view.
Keys == {"left", "right", "up", "down", "pgup", "pgdn", "home", "end"}

Moved(key, f, isHistory) ==
    LET Shown(g) == IF isHistory THEN EnsureCursorVisible(g) ELSE g
    IN  CASE key = "left"  -> MoveCursorLeft(f)
          [] key = "right" -> MoveCursorRight(f)
          [] key = "up"    -> EnsureCursorVisible(MoveCursorUp(f))
          [] key = "down"  -> EnsureCursorVisible(MoveCursorDown(f))
          [] key = "pgup"  -> Shown(ScrollPageUp(f))
          [] key = "pgdn"  -> Shown(ScrollPageDown(f))
          [] key = "home"  -> MoveHome(f)
          [] key = "end"   -> MoveEnd(f)

\* Faulty variant: the thumb may start on the last cell of the track and further.
ComputeScrollbar_TrackHeight(total, height, offset) ==
    LET range   == Max({total - height, 1})
        arrows  == height >= 3
        steps   == IF arrows THEN height - 2 ELSE height
        pos     == (Clamp(offset, 0, range) * steps) \div range
    IN  [bar |-> total > height, arrows |-> arrows, thumb |-> IF arrows THEN 1 + pos ELSE pos]

\* The row of the scrollbar's thumb, and whether arrows take the first and last row.
ComputeScrollbar(total, height, offset) ==
    LET range   == Max({total - height, 1})
        arrows  == height >= 3
        steps   == Max({IF arrows THEN height - 3 ELSE height - 1, 1})
        pos     == (Clamp(offset, 0, range) * steps) \div range
    IN  [bar |-> total > height, arrows |-> arrows, thumb |-> IF arrows THEN 1 + pos ELSE pos]

\* DrawScrollbarCell: the rows drawn as the thumb
ThumbRows(sb, height) == {sb.thumb} \cap (IF sb.arrows THEN 1 .. height - 2 ELSE 0 .. height - 1)
-----------------------------------------------------------------------------
(* The text.                                                               *)

SetLines(f, lines) == EnsureCursorVisible([f EXCEPT !.lines = lines])

ResetInput(f) == [Nowhere(f) EXCEPT !.lines = <<Line(<<>>)>>]

\* The cursor where insertion and deletion take it to be.
Inside(f) ==
    LET n == IF f.line \in 0 .. LastLine(f) THEN f.line ELSE LastLine(f)
    IN  At(f, n, Clamp(f.col, 0, Len(Runes(f, n))))

Before(f) == SubSeq(Runes(f, f.line), 1, f.col)
After(f)  == SubSeq(Runes(f, f.line), f.col + 1, Len(Runes(f, f.line)))

\* Puts new in the place of the lines from number n to number m.
Splice(f, n, m, new) ==
    [f EXCEPT !.lines = SubSeq(@, 1, n) \o new \o SubSeq(@, m + 2, Len(@))]

SetRunes(f, n, runes) == [f EXCEPT !.lines[n + 1].runes = runes]

InsertRunes(f, rs) ==
    LET g == Inside(f)
    IN  At(SetRunes(g, g.line, Before(g) \o rs \o After(g)), g.line, g.col + Len(rs))

InsertRune(f, r) == InsertRunes(f, <<r>>)
InsertTab(f)     == InsertRunes(f, [i \in 1 .. TabWidth |-> " "])

InsertNewline(f) ==
    LET g == Inside(f)
    IN  At(Splice(g, g.line, g.line, <<Line(Before(g)), Line(After(g))>>), g.line + 1, 0)

\* Faulty variant: joining two lines takes the cursor to the first column.
Backspace_NoColumn(f) ==
    LET g    == At(f, f.line, Clamp(f.col, 0, Len(Runes(f, f.line))))
        prev == Runes(f, f.line - 1)
    IN  IF f.line = 0 /\ f.col = 0 THEN f
        ELSE IF f.col > 0 THEN At(SetRunes(g, g.line, Front(Before(g)) \o After(g)), g.line, g.col - 1)
        ELSE At(Splice(f, f.line - 1, f.line, <<Line(prev \o Runes(f, f.line))>>), f.line - 1, 0)

Backspace(f) ==
    LET g    == At(f, f.line, Clamp(f.col, 0, Len(Runes(f, f.line))))
        prev == Runes(f, f.line - 1)
    IN  IF f.line = 0 /\ f.col = 0 THEN f
        ELSE IF f.col > 0 THEN At(SetRunes(g, g.line, Front(Before(g)) \o After(g)), g.line, g.col - 1)
        ELSE At(Splice(f, f.line - 1, f.line, <<Line(prev \o Runes(f, f.line))>>),
                f.line - 1, Len(prev))

DeleteForward(f) ==
    LET g == Inside(f)
    IN  IF f.lines = <<>> THEN ResetInput(f)
        ELSE IF g.col < Len(Runes(g, g.line)) THEN SetRunes(g, g.line, Before(g) \o Tail(After(g)))
        ELSE IF g.line = LastLine(g) THEN g
        ELSE Splice(g, g.line, g.line + 1, <<Line(Runes(g, g.line) \o Runes(g, g.line + 1))>>)

\* The lines, joined by newlines.
InputString(f) ==
    FlattenSeq([n \in DOMAIN f.lines |-> IF n = 1 THEN f.lines[n].runes
                                         ELSE <<"\n">> \o f.lines[n].runes])

\* The lines of a text: strings.Split at the newlines.
SplitLines(text) ==
    LET split[i \in 0 .. Len(text)] ==
            IF i = 0 THEN << <<>> >>
            ELSE IF text[i] = "\n" THEN Append(split[i - 1], <<>>)
            ELSE Append(Front(split[i - 1]), Append(Last(split[i - 1]), text[i]))
    IN  split[Len(text)]
=============================================================================
