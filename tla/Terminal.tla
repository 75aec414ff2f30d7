------------------------------- MODULE Terminal -------------------------------
(***************************************************************************)
(* The terminal widget between a program that writes control functions, a  *)
(* splitter that resizes it and a user who scrolls, selects, pastes and    *)
(* clicks.  Output arrives in chunks (appendOutput), each fed to its end   *)
(* before the next event.                                                  *)
(***************************************************************************)
EXTENDS TerminalScreen, EscapeParser

CONSTANTS Sizes,       \* the sizes <<columns, rows>> a layout can ask for
          Outputs,     \* the chunks a program writes: sequences of control functions
          Spots,       \* the cells <<row, column>> the mouse points at
          Budgets      \* bounds: how many chunks, resizes, events of the user and
                       \* pieces of a byte stream, a set of records

\* What a program can write, by the names Feed takes; a parameter is a number
\* without a sign (parseParams), the few modes of the erasures apart.
ControlFunctions ==
  {"print"} \X (Narrow \cup Wide)
  \cup {<<name>> : name \in {"LF", "CR", "NEL", "BS", "HT", "RI", "SC", "RC", "RIS"}}
  \cup {"REP", "CUU", "CUD", "CUF", "CUB", "CHA", "VPA", "ECH", "ICH", "DCH", "IL", "DL", "SU",
        "SD", "DECSET", "DECRST"} \X Nat
  \cup {"CUP", "STBM"} \X Nat \X Nat
  \cup {"ED"} \X (0..3) \cup {"EL"} \X (0..2)

ASSUME TerminalAssumption == /\ Budgets \subseteq [output : Nat, resize : Nat, user : Nat, piece : Nat]
                             /\ Sizes \subseteq Nat \X Nat /\ Spots \subseteq Nat \X Nat
                             /\ \A size \in Sizes : size[1] > 1 /\ size[2] > 1
                             /\ Outputs \subseteq Seq(ControlFunctions)

VARIABLES
  screen,        \* TerminalScreen
  mouse,         \* m_mouseMode, m_mousePressedBtn, m_selecting
  interactive,   \* m_interactive
  roll,          \* plain output as it would stand on endless paper (history)
  margins,       \* a program has set a smaller scroll region (history)
  gesture,       \* the buttons held, those the program thinks held, and whether
                 \* the gesture left what the code follows (history)
  parser,        \* EscapeParser
  meant,         \* what the bytes written so far are to be read as (history)
  budget         \* what may still happen

vars == <<screen, mouse, interactive, roll, margins, gesture, parser, meant, budget>>

Buttons == {"left", "middle", "right"}
MouseModes == {1000, 1002, 1003}

Paper(cols) == [plain |-> TRUE, lines |-> <<BlankRow(cols)>>, x |-> 0]

Init ==
  /\ \E size \in Sizes : /\ screen = FreshScreen(size[1], size[2])
                         /\ roll = Paper(size[1])
  /\ mouse = [mode |-> 0, pressed |-> "none", selecting |-> FALSE]
  /\ interactive \in BOOLEAN
  /\ margins = FALSE
  /\ gesture = [held |-> {}, seen |-> {}, excused |-> FALSE]
  /\ parser = NewParser /\ meant = <<>>
  /\ budget \in Budgets

(***************************************************************************)
(* Control functions.                                                      *)
(***************************************************************************)
\* The private modes, but those of the mouse.
SetMode(s, mode) ==
  CASE mode = 6 -> setOriginMode(s, TRUE)
    [] mode = 7 -> [s EXCEPT !.autoWrap = TRUE]
    [] mode \in {47, 1047} -> enterAltScreen(s, FALSE)
    [] mode = 1048 -> decSaveCursor(s)
    [] mode = 1049 -> enterAltScreen(decSaveCursor(s), TRUE)
    [] OTHER -> s

ResetMode(s, mode) ==
  CASE mode = 6 -> setOriginMode(s, FALSE)
    [] mode = 7 -> [s EXCEPT !.autoWrap = FALSE]
    [] mode \in {47, 1047} -> leaveAltScreen(s, mode = 1047)
    [] mode = 1048 -> decRestoreCursor(s)
    [] mode = 1049 -> decRestoreCursor(leaveAltScreen(s, TRUE))
    [] OTHER -> s

\* handleCsi and the escape sequences, by the name of the control function.
Feed(s, f) ==
  CASE f[1] = "print" -> putChar(s, f[2])
    [] f[1] = "REP" -> RepeatLast(s, f[2])
    [] f[1] = "LF"  -> newLine(s)
    [] f[1] = "CR"  -> carriageReturn(s)
    [] f[1] = "NEL" -> NextLine(s)
    [] f[1] = "BS"  -> backspace(s)
    [] f[1] = "HT"  -> tab(s)
    [] f[1] = "RI"  -> reverseIndex(s)
    [] f[1] = "CUU" -> cursorUp(s, f[2])
    [] f[1] = "CUD" -> cursorDown(s, f[2])
    [] f[1] = "CUF" -> cursorRight(s, f[2])
    [] f[1] = "CUB" -> cursorLeft(s, f[2])
    [] f[1] = "CHA" -> cursorColumn(s, f[2])
    [] f[1] = "VPA" -> cursorRow(s, f[2])
    [] f[1] = "CUP" -> cursorTo(s, f[2], f[3])
    [] f[1] = "SC"  -> saveCursor(s)
    [] f[1] = "RC"  -> restoreCursor(s)
    [] f[1] = "ED"  -> eraseInDisplay(s, f[2])
    [] f[1] = "EL"  -> eraseInLine(s, f[2])
    [] f[1] = "ECH" -> eraseChars(s, f[2])
    [] f[1] = "ICH" -> insertChars(s, f[2])
    [] f[1] = "DCH" -> deleteChars(s, f[2])
    [] f[1] = "IL"  -> insertLines(s, f[2])
    [] f[1] = "DL"  -> deleteLines(s, f[2])
    [] f[1] = "SU"  -> scrollUp(s, f[2])
    [] f[1] = "SD"  -> scrollDown(s, f[2])
    [] f[1] = "STBM" -> setScrollRegion(s, f[2], f[3])
    [] f[1] = "DECSET" -> SetMode(s, f[2])
    [] f[1] = "DECRST" -> ResetMode(s, f[2])
    [] f[1] = "RIS"    -> clearTerminal(s)

\* Mutant: a change of the mode forgets the button that is held.
FeedMouseForgets(m, f) ==
  IF f[1] = "RIS" THEN [m EXCEPT !.mode = 0, !.pressed = "none", !.selecting = FALSE]
  ELSE IF f[1] = "DECSET" /\ f[2] \in MouseModes
       THEN [m EXCEPT !.mode = f[2], !.pressed = "none"]
  ELSE IF f[1] = "DECRST" /\ f[2] = m.mode THEN [m EXCEPT !.mode = 0, !.pressed = "none"] ELSE m

\* applyMouseMode, and the reset of the tracking.
FeedMouse(m, f) ==
  IF f[1] = "RIS" THEN [m EXCEPT !.mode = 0, !.pressed = "none", !.selecting = FALSE]
  ELSE IF f[1] = "DECSET" /\ f[2] \in MouseModes THEN [m EXCEPT !.mode = f[2]]
  ELSE IF f[1] = "DECRST" /\ f[2] = m.mode THEN [m EXCEPT !.mode = 0, !.pressed = "none"] ELSE m

\* Plain output on endless paper: a character goes where it fits, a line feed
\* goes to a line of its own.  Anything else ends the comparison.
WritePaper(p, cols, f) ==
  LET Below(q)  == [q EXCEPT !.lines = Append(@, BlankRow(cols))]
      width     == charDisplayWidth(f[2])
      q         == IF p.x + width > cols THEN [Below(p) EXCEPT !.x = 0] ELSE p
      Row(line) == [c \in 0..cols - 1 |-> IF c = q.x THEN f[2]
                                          ELSE IF c = q.x + 1 /\ width = 2 THEN Blank ELSE line[c]]
  IN  CASE f[1] = "print" -> [q EXCEPT !.lines[Len(q.lines)] = Row(@), !.x = @ + width]
        [] f[1] = "CR"  -> [p EXCEPT !.x = 0]
        [] f[1] = "LF"  -> [Below(p) EXCEPT !.x = Least(@, cols - 1)]
        [] f[1] = "RIS" -> Paper(cols)
        [] OTHER -> [p EXCEPT !.plain = FALSE, !.lines = <<>>]

\* A smaller region is asked for, or everything is reset.
SetsMargins(m, s, f) ==
  IF f[1] = "RIS" THEN FALSE
  ELSE m \/ (f[1] = "STBM" /\ (setScrollRegion(s, f[2], f[3]).bottom # s.rows - 1
                               \/ setScrollRegion(s, f[2], f[3]).top # 0))

\* One control function, and what is kept of it as history.  A program that
\* stops tracking the mouse has no button in mind any more.
FeedOne(t, f) ==
  LET m == FeedMouse(t.mouse, f)
  IN  [screen  |-> Feed(t.screen, f),
       mouse   |-> m,
       seen    |-> IF m.mode = 0 THEN {} ELSE t.seen,
       roll    |-> IF t.roll.plain \/ f[1] = "RIS" THEN WritePaper(t.roll, t.screen.cols, f)
                   ELSE t.roll,
       margins |-> SetsMargins(t.margins, t.screen, f)]

\* appendOutput after the chunk: back to the bottom if the view was there.
Settled(before, after) ==
  IF before.viewOffset = 0 \/ after.viewOffset = 0 THEN setViewOffset(after, 0) ELSE after

Spend(kind) == /\ budget[kind] > 0
               /\ budget' = [budget EXCEPT ![kind] = @ - 1]
               /\ kind # "piece" => UNCHANGED <<parser, meant>>

\* Bytes as they come, before they are control functions.
WriteBytes(piece) ==
  /\ Spend("piece")
  /\ parser' = FeedBytes(parser, piece.bytes)
  /\ meant' = meant \o piece.read
  /\ UNCHANGED <<screen, mouse, interactive, roll, margins, gesture>>

Output(chunk) ==
  /\ Spend("output")
  /\ LET fed == FoldLeft(FeedOne, [screen |-> screen, mouse |-> mouse, seen |-> gesture.seen,
                                   roll |-> roll, margins |-> margins], chunk)
     IN  /\ screen' = Settled(screen, fed.screen)
         /\ mouse' = fed.mouse
         /\ gesture' = [gesture EXCEPT !.seen = fed.seen]
         /\ roll' = fed.roll
         /\ margins' = fed.margins
  /\ UNCHANGED interactive

(***************************************************************************)
(* The widget changes size: a splitter moves, fonts change, a bar appears. *)
(***************************************************************************)
syncPtySize(size) ==
  /\ size # <<screen.cols, screen.rows>>
  /\ Spend("resize")
  /\ screen' = clampCursor(resizeGrid(screen, size[1], size[2]))
  /\ roll' = LET grows == size[1] >= screen.cols /\ size[2] >= screen.rows
             IN  IF roll.plain /\ grows /\ ~screen.pendingWrap
                 THEN [roll EXCEPT !.lines = [i \in DOMAIN @ |-> CutLine(@[i], size[1])]]
                 ELSE [roll EXCEPT !.plain = FALSE, !.lines = <<>>]
  /\ UNCHANGED <<mouse, interactive, margins, gesture>>

(***************************************************************************)
(* The user.                                                               *)
(***************************************************************************)
Unseen == UNCHANGED <<roll, margins, interactive>>

\* The wheel, the bar and Shift+PageUp: all stay away from a full-screen program.
ScrollView(lines) ==
  /\ Spend("user")
  /\ ~screen.alt /\ MaxViewOffset(screen) > 0
  /\ screen' = setViewOffset(screen, screen.viewOffset + lines)
  /\ UNCHANGED <<mouse, gesture>> /\ Unseen

\* A key that is sent to the program: back to the live prompt.
TypeKey ==
  /\ Spend("user")
  /\ interactive
  /\ screen' = setViewOffset(screen, 0)
  /\ UNCHANGED <<mouse, gesture>> /\ Unseen

Pasted(s) == IF interactive THEN clearSelection(s) ELSE s

\* Ctrl+Insert, and Shift+Insert with something on the clipboard.
CopyOrPaste(copies) ==
  /\ Spend("user")
  /\ screen' = IF copies THEN clearSelection(screen) ELSE Pasted(screen)
  /\ UNCHANGED <<mouse, gesture>> /\ Unseen

\* MainWindow's shortcut, and the start of a session in this widget.
ClearTerminal ==
  /\ Spend("user")
  /\ screen' = clearTerminal(screen)
  /\ mouse' = FeedMouse(mouse, <<"RIS">>)
  /\ roll' = Paper(screen.cols)
  /\ margins' = FALSE
  /\ gesture' = [gesture EXCEPT !.excused = @ \/ gesture.held # {}]
  /\ UNCHANGED interactive

\* The session connects, disconnects, or is taken over by a file transfer.
setInteractive(enabled) ==
  /\ Spend("user")
  /\ interactive # enabled
  /\ interactive' = enabled
  /\ gesture' = [gesture EXCEPT !.excused = @ \/ gesture.held # {}]
  /\ UNCHANGED <<screen, mouse, roll, margins>>

mouseReportingActive == mouse.mode \in MouseModes
shouldReportMouse(shift) == mouseReportingActive /\ interactive /\ ~shift

IndexAt(spot) ==
  absIndexFromView(screen, Least(spot[1], screen.rows - 1), Least(spot[2], screen.cols - 1))

Pressing(btn) ==
  gesture' = [gesture EXCEPT !.held = @ \cup {btn}, !.excused = @ \/ gesture.held # {},
                             !.seen = IF mouse'.pressed = btn THEN @ \cup {btn} ELSE @]

\* special: the setting copyPasteMenu is on (right button), this is the third of
\* three quick clicks (left button).
mousePressEvent(btn, spot, shift, special) ==
  /\ Spend("user")
  /\ btn \notin gesture.held
  /\ \/ btn = "right" /\ special /\ UNCHANGED <<screen, mouse>>
     \/ /\ ~(btn = "right" /\ special) /\ shouldReportMouse(shift)
        /\ screen' = clearSelection(screen)
        /\ mouse' = [mouse EXCEPT !.pressed = btn]
     \/ /\ btn = "middle" \/ (btn = "right" /\ ~special)
        /\ ~shouldReportMouse(shift)
        /\ screen' = Pasted(screen) /\ UNCHANGED mouse
     \/ /\ btn = "left" /\ ~shouldReportMouse(shift)
        /\ screen' = IF special THEN selectLineAt(screen, Least(spot[1], screen.rows - 1))
                     ELSE setSelectionRange(screen, IndexAt(spot), IndexAt(spot), IndexAt(spot))
        /\ mouse' = [mouse EXCEPT !.selecting = ~special]
  /\ Pressing(btn) /\ Unseen

mouseMoveEvent(spot, shift) ==
  /\ Spend("user")
  /\ ~(shouldReportMouse(shift)
       /\ (mouse.mode = 1003 \/ (mouse.mode = 1002 /\ mouse.pressed # "none")))
  /\ mouse.selecting /\ "left" \in gesture.held
  /\ screen' = setSelectionRange(screen, screen.sel.anchor, screen.sel.anchor, IndexAt(spot))
  /\ UNCHANGED <<mouse, gesture>> /\ Unseen

\* A reported press is completed even if Shift is held by now; else a selection
\* ends here, and a click without a drag selects nothing.
Completes == mouse.pressed # "none" /\ mouseReportingActive /\ interactive

mouseReleaseEvent(btn, spot) ==
  /\ Spend("user")
  /\ btn \in gesture.held
  /\ IF Completes
     THEN /\ mouse' = [mouse EXCEPT !.pressed = "none"]
          /\ UNCHANGED screen
     ELSE IF btn = "left" /\ mouse.selecting
     THEN LET s == setSelectionRange(screen, screen.sel.anchor, screen.sel.anchor, IndexAt(spot))
          IN  /\ mouse' = [mouse EXCEPT !.selecting = FALSE]
              /\ screen' = IF s.sel.from = s.sel.to THEN clearSelection(s) ELSE s
     ELSE UNCHANGED <<screen, mouse>>
  /\ gesture' = [gesture EXCEPT !.held = @ \ {btn},
                                !.seen = IF Completes THEN @ \ {mouse.pressed} ELSE @]
  /\ Unseen

\* Qt sends this event in place of the second press.
mouseDoubleClickEvent(spot, shift) ==
  /\ Spend("user")
  /\ "left" \notin gesture.held
  /\ IF shouldReportMouse(shift) THEN UNCHANGED <<screen, mouse>>
     ELSE /\ screen' = selectWordAt(screen, Least(spot[1], screen.rows - 1),
                                    Least(spot[2], screen.cols - 1))
          /\ mouse' = [mouse EXCEPT !.selecting = FALSE]
  /\ Pressing("left") /\ Unseen

Mouse ==
  \E spot \in Spots, shift \in BOOLEAN :
    \/ \E btn \in Buttons, special \in BOOLEAN : mousePressEvent(btn, spot, shift, special)
    \/ mouseMoveEvent(spot, shift)
    \/ \E btn \in Buttons : mouseReleaseEvent(btn, spot)
    \/ mouseDoubleClickEvent(spot, shift)

Next ==
  \/ \E chunk \in Outputs : Output(chunk)
  \/ \E size \in Sizes : syncPtySize(size)
  \/ \E lines \in {-1, 1} : ScrollView(lines)
  \/ TypeKey
  \/ \E copies \in BOOLEAN : CopyOrPaste(copies)
  \/ ClearTerminal
  \/ \E enabled \in BOOLEAN : setInteractive(enabled)
  \/ Mouse
  \/ \E piece \in Pieces : WriteBytes(piece)

Spec == Init /\ [][Next]_vars

(***************************************************************************)
(* Properties.                                                             *)
(***************************************************************************)
IsGrid(grid, s) == /\ DOMAIN grid = 0..s.rows - 1
                   /\ \A r \in DOMAIN grid : grid[r] \in [0..s.cols - 1 -> Narrow \cup Wide]

\* cellAt indexes the cells without a check.  Whatever was written, saved,
\* restored and resized in whatever order: the cursor is on the screen, the
\* scroll region of the screen shown and of the one behind it is a region of
\* the screen, the grids have the size of the widget, the view is within the
\* history, and history is never laid over a full-screen program
\* (TerminalWidget.cpp:435-514, 596-602, 1086-1138, 1778-1788).
ScreenWellFormed ==
  LET s == screen
  IN  /\ s.cx \in 0..s.cols - 1 /\ s.cy \in 0..s.rows - 1
      /\ 0 <= s.top /\ s.top <= s.bottom /\ s.bottom < s.rows
      /\ s.alt => 0 <= s.mainTop /\ s.mainTop <= s.mainBottom /\ s.mainBottom < s.rows
      /\ IsGrid(s.cells, s)
      /\ IF s.alt THEN IsGrid(s.mainCells, s) ELSE s.altCells # NoGrid => IsGrid(s.altCells, s)
      /\ Len(s.scrollback) <= ScrollbackMax
      /\ \A i \in DOMAIN s.scrollback : DOMAIN s.scrollback[i] = 0..s.cols - 1
      /\ s.viewOffset \in 0..MaxViewOffset(s)
      /\ s.alt => s.viewOffset = 0

\* "A normal full-screen terminal region must grow again after a temporary
\* shrink": while no program has asked for margins, the whole screen scrolls,
\* however it was resized and whichever screen was shown meanwhile
\* (TerminalWidget.cpp:475-500).
FullRegionGrowsBack == margins \/ (screen.top = 0 /\ screen.bottom = screen.rows - 1)

\* The screen is a screen at every moment: its tables fit its size, and its
\* margins and its view are within it.
ScreenHolds == ScreenWellFormed /\ FullRegionGrowsBack

\* Plain output is on the screen and in the scrollback line for line: nothing
\* is lost, repeated or out of order where lines are wrapped, scroll off and are
\* trimmed, and nothing stands below the cursor.  Resizing that cuts lines or
\* rows off ends the comparison, because the code drops them
\* (TerminalWidget.cpp:435-446, 604-627, 857-906, 1742-1769).
PlainOutputIsKept ==
  roll.plain =>
    LET s   == screen
        all == s.scrollback \o [i \in 1..s.cy + 1 |-> s.cells[i - 1]]
    IN  /\ IsSuffix(all, roll.lines)
        /\ Len(all) = Least(Len(roll.lines), ScrollbackMax + s.cy + 1)
        /\ \A r \in s.cy + 1..s.rows - 1 : s.cells[r] = BlankRow(s.cols)

IsOutput == budget'.output # budget.output
Trimmed  == screen'.lost - screen.lost
KeepsHistory == IsOutput /\ screen'.wiped = screen.wiped

\* A user who has scrolled up goes on reading the same line while output
\* arrives, until that line is trimmed, the history is wiped, or a program
\* changes the screen; plain output never takes the view away
\* (TerminalWidget.cpp:1720-1735, 1752-1757).
ViewIsAnchored ==
  [][(KeepsHistory /\ screen.viewOffset > 0) =>
       /\ roll'.plain => screen'.viewOffset > 0
       /\ (screen'.viewOffset > 0 /\ Len(screen.scrollback) - screen.viewOffset >= Trimmed) =>
            DisplayLine(screen', 0) = DisplayLine(screen, 0)]_vars

\* "The selection survives": text selected in the history is the same text
\* after output has scrolled, unless its lines were trimmed.  A selection made
\* by double clicking a blank is not shifted, because it has no anchor
\* (TerminalWidget.cpp:1760-1769, 1937-1956; TerminalWidget.h:147-148).
SelectionIsStable ==
  [][(/\ KeepsHistory /\ screen.sel.anchor >= 0 /\ screen.sel.from >= Trimmed * screen.cols
      /\ screen.sel.to < Len(screen.scrollback) * screen.cols
      /\ screen'.sel # NoSelection)
       => selectedText(screen') = selectedText(screen)]_vars

\* "Always complete a reported press with a release": when the user lets go of
\* the mouse, the program thinks so too, although Shift, the mode, the screen or
\* the selection may have changed in between.  Excepted are two buttons at a
\* time, of which the code follows one, and a widget that is cleared or stops
\* being interactive under the finger (TerminalWidget.cpp:2868-2885).
PressesAreReleased == (gesture.held = {} /\ ~gesture.excused) => gesture.seen = {}

\* Any pieces in any order are read as what they are: a character that breaks
\* off takes nothing of what follows with it, a sequence that is too long still
\* ends where it ends, and no piece leaves the machine in a state that changes
\* how the next one is read (TerminalWidget.cpp:1533-1718).
StreamIsReadAsWritten == parser.out = meant /\ parser.state = "Ground"
===============================================================================
