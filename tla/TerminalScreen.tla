---------------------------- MODULE TerminalScreen ----------------------------
(***************************************************************************)
(* The screen of the terminal emulator (TerminalWidget.cpp): the grid of   *)
(* cells with its cursor and scroll region, the main screen kept behind    *)
(* the alternate one, the scrollback, the view into it and the selection.  *)
(* One run of appendOutput executes many control functions before anything *)
(* else sees the widget, so each is an operator from screen to screen.     *)
(*                                                                         *)
(* A cell is its character: colours and attributes change nothing stated   *)
(* here, character sets only replace one narrow character by another.  A   *)
(* row maps columns, a grid maps rows, both from 0, as cellAt does.        *)
(***************************************************************************)
EXTENDS Integers, SequencesExt

CONSTANTS Narrow, Wide,     \* characters of one and of two columns
          ScrollbackMax     \* kScrollbackMax (10000 in the code)

ASSUME ScreenAssumption == /\ ScrollbackMax \in Nat \ {0}
                           /\ Narrow \cap Wide = {}
                           /\ " " \in Narrow

Blank == " "
charDisplayWidth(ch) == IF ch \in Wide THEN 2 ELSE 1

Least(a, b)     == IF a < b THEN a ELSE b
Most(a, b)      == IF a > b THEN a ELSE b
Bound(lo, v, hi) == Most(lo, Least(v, hi))      \* qBound

BlankRow(cols)        == [c \in 0..cols - 1 |-> Blank]
BlankGrid(cols, rows) == [r \in 0..rows - 1 |-> BlankRow(cols)]
NoGrid                == [r \in {} |-> BlankRow(1)]    \* a QVector without cells

NoSelection == [anchor |-> -1, from |-> -1, to |-> -1]

\* A new widget: the saved scroll region still has the height of its
\* declaration.  lost counts the lines trimmed from the scrollback, wiped the
\* times it was cleared (both history).
FreshScreen(cols, rows) ==
  [cols |-> cols, rows |-> rows, cells |-> BlankGrid(cols, rows), cx |-> 0, cy |-> 0,
   pendingWrap |-> FALSE, autoWrap |-> TRUE, origin |-> FALSE, top |-> 0, bottom |-> rows - 1,
   alt |-> FALSE, mainCells |-> NoGrid, altCells |-> NoGrid,
   mainCx |-> 0, mainCy |-> 0, mainTop |-> 0, mainBottom |-> rows - 1,
   saved |-> <<0, 0>>, decSaved |-> <<0, 0>>, lastChar |-> Blank,
   scrollback |-> <<>>, viewOffset |-> 0, sel |-> NoSelection, lost |-> 0, wiped |-> 0]

MaxViewOffset(s) == Len(s.scrollback)
MaxAbsIndex(s)   == (Len(s.scrollback) + s.rows) * s.cols - 1

\* cellAtAbsLine, a line at a time: absolute line 0 is the oldest one kept.
AbsLine(s, line) ==
  IF line < Len(s.scrollback) THEN s.scrollback[line + 1]
  ELSE IF line < Len(s.scrollback) + s.rows THEN s.cells[line - Len(s.scrollback)]
  ELSE BlankRow(s.cols)

\* displayCell, a line at a time: what row of the view shows.
DisplayLine(s, row) == AbsLine(s, Len(s.scrollback) - s.viewOffset + row)

\* clampCursor: inside the scroll region when the origin mode is on.
clampCursor(s) ==
  [s EXCEPT !.cx = Bound(0, @, s.cols - 1),
            !.cy = IF s.origin THEN Bound(s.top, @, s.bottom) ELSE Bound(0, @, s.rows - 1)]

(***************************************************************************)
(* Scrollback, view and selection.                                         *)
(***************************************************************************)
setViewOffset(s, offset) == [s EXCEPT !.viewOffset = Bound(0, offset, MaxViewOffset(s))]

clearScrollback(s) ==
  [s EXCEPT !.scrollback = <<>>, !.viewOffset = 0,
            !.wiped = IF s.scrollback = <<>> THEN @ ELSE @ + 1]

clearSelection(s) ==
  IF s.sel.from < 0 /\ s.sel.to < 0 THEN s ELSE [s EXCEPT !.sel = NoSelection]

\* The caller has set the anchor first.
setSelectionRange(s, anchor, a, b) ==
  LET p == Bound(0, a, MaxAbsIndex(s))
      q == Bound(0, b, MaxAbsIndex(s))
      t == [s EXCEPT !.sel = [anchor |-> anchor, from |-> Least(p, q), to |-> Most(p, q)]]
  IN  IF a < 0 \/ b < 0 THEN clearSelection([s EXCEPT !.sel.anchor = anchor]) ELSE t

\* Mutant: the selection is not shifted with the lines it names.
Unshifted(s, delta) == s

shiftSelectionBy(s, delta) ==
  LET Shift(v) == Bound(0, v + delta, MaxAbsIndex(s))
  IN  IF s.sel.anchor < 0 \/ s.sel.from < 0 \/ s.sel.to < 0 THEN s
      ELSE [s EXCEPT !.sel = [anchor |-> Shift(s.sel.anchor), from |-> Shift(s.sel.from),
                              to |-> Shift(s.sel.to)]]

trimScrollback(s) ==
  LET over == Len(s.scrollback) - ScrollbackMax
      kept == [s EXCEPT !.scrollback = SubSeq(@, over + 1, Len(@)), !.lost = @ + over]
  IN  IF over <= 0 THEN s
      ELSE shiftSelectionBy([kept EXCEPT !.viewOffset = Least(@, MaxViewOffset(kept))],
                            -(over * s.cols))

\* Mutant: the view is not kept where it is.
PushUnanchored(s, n) ==
  trimScrollback([s EXCEPT !.scrollback = @ \o [i \in 1..n |-> s.cells[s.top + i - 1]]])

\* The first n lines of the region leave the screen.  The view into the
\* history stays where it is, counted from the bottom.
pushScrollbackLines(s, n) ==
  LET t == trimScrollback([s EXCEPT !.scrollback =
                                       @ \o [i \in 1..n |-> s.cells[s.top + i - 1]]])
  IN  IF t.viewOffset = 0 THEN t
      ELSE [t EXCEPT !.viewOffset = Least(@ + n, MaxViewOffset(t))]

absIndexFromView(s, row, col) == (Len(s.scrollback) - s.viewOffset + row) * s.cols + col

CharAt(s, index) == AbsLine(s, index \div s.cols)[index % s.cols]

\* The blank is the one character that is not a word character here.
selectWordAt(s, row, col) ==
  LET at == absIndexFromView(s, row, col)
      IsWord(i, j) == \A k \in i..j : CharAt(s, k) # Blank
      first == CHOOSE i \in 0..at : IsWord(i, at) /\ (i = 0 \/ ~IsWord(i - 1, at))
      last  == CHOOSE j \in at..MaxAbsIndex(s) :
                 IsWord(at, j) /\ (j = MaxAbsIndex(s) \/ ~IsWord(at, j + 1))
  IN  IF CharAt(s, at) = Blank THEN setSelectionRange(s, s.sel.anchor, at, at)
      ELSE setSelectionRange(s, first, first, last)

selectLineAt(s, row) ==
  setSelectionRange(s, absIndexFromView(s, row, 0), absIndexFromView(s, row, 0),
                    absIndexFromView(s, row, s.cols - 1))

selectedText(s) ==
  IF s.sel.from < 0 THEN <<>>
  ELSE [i \in 1..s.sel.to - s.sel.from + 1 |-> CharAt(s, s.sel.from + i - 1)]

(***************************************************************************)
(* Moving lines: rows from..bottom go up or down by n, blanks follow.      *)
(***************************************************************************)
RowsUp(s, from, n) ==
  [s EXCEPT !.cells = [r \in 0..s.rows - 1 |->
     IF r < from \/ r > s.bottom THEN s.cells[r]
     ELSE IF r + n <= s.bottom THEN s.cells[r + n] ELSE BlankRow(s.cols)]]

RowsDown(s, from, n) ==
  [s EXCEPT !.cells = [r \in 0..s.rows - 1 |->
     IF r < from \/ r > s.bottom THEN s.cells[r]
     ELSE IF r - n >= from THEN s.cells[r - n] ELSE BlankRow(s.cols)]]

RegionHeight(s) == s.bottom - s.top + 1
InRegion(s)     == s.cy \in s.top..s.bottom

\* Mutant: the lines are pushed after they have been moved over.
ScrollThenPush(s, n) ==
  LET count == Bound(1, n, RegionHeight(s))
      t     == RowsUp(s, s.top, count)
  IN  IF ~s.alt /\ s.top = 0 THEN pushScrollbackLines(t, count) ELSE t

scrollUp(s, n) ==
  LET count == Bound(1, n, RegionHeight(s))
      t     == IF ~s.alt /\ s.top = 0 THEN pushScrollbackLines(s, count) ELSE s
  IN  RowsUp(t, s.top, count)

scrollDown(s, n)  == RowsDown(s, s.top, Bound(1, n, RegionHeight(s)))

insertLines(s, n) ==
  IF InRegion(s) THEN RowsDown(s, s.cy, Bound(1, n, s.bottom - s.cy + 1)) ELSE s

deleteLines(s, n) ==
  IF InRegion(s) THEN RowsUp(s, s.cy, Bound(1, n, s.bottom - s.cy + 1)) ELSE s

(***************************************************************************)
(* C0 controls and printing.                                               *)
(***************************************************************************)
newLine(s) ==
  LET t == [s EXCEPT !.pendingWrap = FALSE]
  IN  IF s.cy = s.bottom THEN scrollUp(t, 1)
      ELSE IF s.cy < s.rows - 1 THEN [t EXCEPT !.cy = @ + 1] ELSE t

reverseIndex(s) ==
  LET t == [s EXCEPT !.pendingWrap = FALSE]
  IN  IF s.cy = s.top THEN scrollDown(t, 1)
      ELSE IF s.cy > 0 THEN [t EXCEPT !.cy = @ - 1] ELSE t

carriageReturn(s) == [s EXCEPT !.pendingWrap = FALSE, !.cx = 0]
backspace(s)      == [s EXCEPT !.pendingWrap = FALSE, !.cx = Most(0, @ - 1)]
tab(s)            == [s EXCEPT !.pendingWrap = FALSE,
                               !.cx = Least(s.cols - 1, ((@ \div 8) + 1) * 8)]

NextLine(s) == newLine(carriageReturn(s))

\* A character is written where it fits: the line is wrapped before it, never
\* after it, so that a full line does not scroll the screen by itself.
putChar(s, ch) ==
  LET width == charDisplayWidth(ch)
      t == IF s.pendingWrap /\ s.autoWrap THEN NextLine(s) ELSE s
      u == IF width > 1 /\ t.cx + width > t.cols /\ t.autoWrap THEN NextLine(t) ELSE t
      full == u.cx + width >= u.cols
  IN  [u EXCEPT !.cells[u.cy] = [c \in 0..u.cols - 1 |->
                    IF c = u.cx THEN ch
                    ELSE IF c = u.cx + 1 /\ width = 2 THEN Blank ELSE @[c]],
                !.lastChar = ch,
                !.cx = IF full THEN u.cols - 1 ELSE @ + width,
                !.pendingWrap = full /\ u.autoWrap]

\* REP: the last character again, through putChar.
RepeatLast(s, n) ==
  FoldLeft(LAMBDA t, i : putChar(t, s.lastChar), s, [i \in 1..Bound(1, n, s.cols * s.rows) |-> i])

(***************************************************************************)
(* Cursor movement.                                                        *)
(***************************************************************************)
RowMin(s) == IF s.origin THEN s.top ELSE 0
RowMax(s) == IF s.origin THEN s.bottom ELSE s.rows - 1

cursorUp(s, n)    == [s EXCEPT !.pendingWrap = FALSE, !.cy = Most(RowMin(s), @ - n)]
cursorDown(s, n)  == [s EXCEPT !.pendingWrap = FALSE, !.cy = Least(RowMax(s), @ + n)]
cursorRight(s, n) == [s EXCEPT !.pendingWrap = FALSE, !.cx = Least(s.cols - 1, @ + n)]
cursorLeft(s, n)  == [s EXCEPT !.pendingWrap = FALSE, !.cx = Most(0, @ - n)]

cursorColumn(s, col) == [s EXCEPT !.pendingWrap = FALSE, !.cx = Bound(0, col - 1, s.cols - 1)]
cursorRow(s, row) ==
  [s EXCEPT !.pendingWrap = FALSE, !.cy = Bound(RowMin(s), RowMin(s) + row - 1, RowMax(s))]
cursorTo(s, row, col) == cursorColumn(cursorRow(s, row), col)

saveCursor(s)    == [s EXCEPT !.saved = <<s.cx, s.cy>>]
restoreCursor(s) ==
  clampCursor([s EXCEPT !.cx = s.saved[1], !.cy = s.saved[2], !.pendingWrap = FALSE])

decSaveCursor(s)    == [s EXCEPT !.decSaved = <<s.cx, s.cy>>]
decRestoreCursor(s) == clampCursor([s EXCEPT !.cx = s.decSaved[1], !.cy = s.decSaved[2]])

\* DECSTBM and DECOM, which send the cursor home.
setScrollRegion(s, first, last) ==
  LET low  == Bound(1, first, s.rows) - 1
      high == Bound(1, last, s.rows) - 1
      ok   == high > low
      top  == IF ok THEN low ELSE 0
  IN  [s EXCEPT !.top = top, !.bottom = IF ok THEN high ELSE s.rows - 1,
                !.cx = 0, !.cy = IF s.origin THEN top ELSE 0, !.pendingWrap = FALSE]

setOriginMode(s, on) ==
  [s EXCEPT !.origin = on, !.cx = 0, !.cy = IF on THEN s.top ELSE 0, !.pendingWrap = FALSE]

(***************************************************************************)
(* Erasing and shifting.                                                   *)
(***************************************************************************)
EraseWhere(s, Gone(_, _)) ==
  [s EXCEPT !.cells = [r \in 0..s.rows - 1 |->
                         [c \in 0..s.cols - 1 |-> IF Gone(r, c) THEN Blank ELSE s.cells[r][c]]]]

Wiped(s) == [s EXCEPT !.cells = BlankGrid(s.cols, s.rows)]

eraseInDisplay(s, mode) ==
  CASE mode = 0 -> EraseWhere(s, LAMBDA r, c : r > s.cy \/ (r = s.cy /\ c >= s.cx))
    [] mode = 1 -> EraseWhere(s, LAMBDA r, c : r < s.cy \/ (r = s.cy /\ c <= s.cx))
    [] mode = 2 -> Wiped(s)
    [] mode = 3 -> clearScrollback(Wiped(s))

eraseInLine(s, mode) ==
  EraseWhere(s, LAMBDA r, c : /\ r = s.cy
                              /\ mode = 0 => c >= s.cx
                              /\ mode = 1 => c <= s.cx)

eraseChars(s, n) == EraseWhere(s, LAMBDA r, c : r = s.cy /\ c \in s.cx..s.cx + n - 1)

insertChars(s, n) ==
  [s EXCEPT !.cells[s.cy] = [c \in 0..s.cols - 1 |->
     IF c < s.cx THEN @[c] ELSE IF c - n >= s.cx THEN @[c - n] ELSE Blank]]

deleteChars(s, n) ==
  [s EXCEPT !.cells[s.cy] = [c \in 0..s.cols - 1 |->
     IF c < s.cx THEN @[c] ELSE IF c + n < s.cols THEN @[c + n] ELSE Blank]]

(***************************************************************************)
(* The alternate screen.                                                   *)
(***************************************************************************)
enterAltScreen(s, clear) ==
  LET t == IF s.alt THEN s
           ELSE [s EXCEPT !.mainCells = s.cells, !.mainCx = s.cx, !.mainCy = s.cy,
                          !.mainTop = s.top, !.mainBottom = s.bottom, !.alt = TRUE,
                          !.altCells = IF s.altCells = NoGrid THEN BlankGrid(s.cols, s.rows)
                                       ELSE @,
                          !.cells = IF s.altCells = NoGrid THEN BlankGrid(s.cols, s.rows)
                                    ELSE s.altCells]
      u == IF ~clear THEN t
           ELSE [Wiped(t) EXCEPT !.cx = 0, !.cy = 0, !.top = 0, !.bottom = s.rows - 1,
                                 !.pendingWrap = FALSE]
  IN  [u EXCEPT !.viewOffset = 0]

leaveAltScreen(s, clear) ==
  LET t == IF ~s.alt THEN s
           ELSE clampCursor([s EXCEPT !.altCells = s.cells, !.cells = s.mainCells,
                                      !.cx = s.mainCx, !.cy = s.mainCy, !.top = s.mainTop,
                                      !.bottom = Least(s.mainBottom, s.rows - 1),
                                      !.alt = FALSE, !.pendingWrap = FALSE])
  IN  [(IF clear THEN Wiped(t) ELSE t) EXCEPT !.viewOffset = 0]

(***************************************************************************)
(* Reset and resize.                                                       *)
(***************************************************************************)
\* clearTerminal: ESC c, the shortcut, and the start of a session.
clearTerminal(s) ==
  Wiped(clearScrollback([s EXCEPT !.cx = 0, !.cy = 0, !.pendingWrap = FALSE, !.origin = FALSE,
                                  !.autoWrap = TRUE, !.alt = FALSE, !.lastChar = Blank,
                                  !.top = 0, !.bottom = s.rows - 1, !.sel = NoSelection]))

Cut(grid, cols, rows) ==
  [r \in 0..rows - 1 |-> [c \in 0..cols - 1 |->
     IF r \in DOMAIN grid /\ c \in DOMAIN grid[r] THEN grid[r][c] ELSE Blank]]

CutLine(line, cols) == [c \in 0..cols - 1 |-> IF c \in DOMAIN line THEN line[c] ELSE Blank]

\* Mistaken: the whole height is cut like any region.
RegionAlwaysCut(top, bottom, oldRows, rows) == <<Least(top, rows - 1), Least(bottom, rows - 1)>>

\* A region over the whole height keeps it; another one is cut.  The region of
\* the main screen is cut without a look at its order.
RegionAfter(top, bottom, oldRows, rows) ==
  IF top = 0 /\ bottom = oldRows - 1 THEN <<0, rows - 1>>
  ELSE <<Least(top, rows - 1), Least(bottom, rows - 1)>>

resizeGrid(s, cols, rows) ==
  LET cells  == Cut(s.cells, cols, rows)
      Other(grid) == IF grid = NoGrid THEN grid ELSE Cut(grid, cols, rows)
      region == RegionAfter(s.top, s.bottom, s.rows, rows)
      kept   == RegionAfter(s.mainTop, s.mainBottom, s.rows, rows)
  IN  [s EXCEPT !.cols = cols, !.rows = rows, !.cells = cells,
                !.mainCells = IF s.alt THEN Other(@) ELSE cells,
                !.altCells  = IF s.alt THEN cells ELSE Other(@),
                !.cx = Bound(0, @, cols - 1), !.cy = Bound(0, @, rows - 1),
                !.top = region[1], !.bottom = region[2],
                !.mainTop = kept[1], !.mainBottom = kept[2],
                !.scrollback = [i \in DOMAIN @ |-> CutLine(@[i], cols)]]
===============================================================================
