-------------------------------- MODULE Grid --------------------------------
(***************************************************************************)
(* The terminal screen the agent keeps (src/src/grid/grid.cpp): two        *)
(* buffers, scrollback, cursor, margins, modes, pen and saved cursors, and *)
(* one operator per method.  A grid is a record; an operator returns the   *)
(* grid after the call.  Rows and columns count from 0, as in the code.    *)
(***************************************************************************)
EXTENDS GridLine, Sequences, FiniteSetsExt

CONSTANTS
    TabInterval,        \* DEFAULT_TAB_INTERVAL
    MaxCols,            \* MAX_COLS
    MaxRows,            \* MAX_ROWS
    MaxScreenCells      \* MAX_SCREEN_CELLS

LeastOf(a, b) == IF a < b THEN a ELSE b
GreatestOf(a, b) == IF a > b THEN a ELSE b

\* A size out of range is brought into it, never refused.
ClampScreenSize(newCols, newRows) ==
    LET cols == LeastOf(GreatestOf(newCols, 1), MaxCols)
    IN  [cols |-> cols,
         rows |-> LeastOf(GreatestOf(newRows, 1), LeastOf(MaxRows, MaxScreenCells \div cols))]

DefaultModes == {"awm", "tcem"}
DefaultTabs(from, cols) == {c \in from..(cols - 1) : c % TabInterval = 0}
NoSaved == [row |-> 0, col |-> 0, pen |-> NoPen, decom |-> FALSE,
            wrap |-> FALSE, g0 |-> FALSE, g1 |-> FALSE, shift |-> FALSE]

\* Grid::Create and Allocate.  A history limit of 0 keeps no line.
NewGrid(newCols, newRows, limit) ==
    LET cols == ClampScreenSize(newCols, newRows).cols
        rows == ClampScreenSize(newCols, newRows).rows
        lines == [r \in 0..(rows - 1) |-> [c \in 0..(cols - 1) |-> NewCell]]
    IN  [cols |-> cols, rows |-> rows, limit |-> limit,
         buf |-> [main |-> lines, alt |-> lines], history |-> <<>>,
         row |-> 0, col |-> 0, wrap |-> FALSE, top |-> 0, bot |-> rows - 1,
         pen |-> NoPen, modes |-> DefaultModes,
         g0 |-> FALSE, g1 |-> FALSE, shift |-> FALSE,
         saved |-> [main |-> NoSaved, alt |-> NoSaved],
         tabs |-> DefaultTabs(0, cols), style |-> 0,
         last |-> <<>>, diverged |-> FALSE]

IsAlt(g) == "alt" \in g.modes
Active(g) == IF IsAlt(g) THEN "alt" ELSE "main"
LineAt(g, r) == g.buf[Active(g)][r]
CellAt(g, r, c) == LineAt(g, r)[c]

\* The grid with line r of the active buffer, or all its lines, replaced.
WithLine(g, r, line) == [g EXCEPT !.buf[Active(g)][r] = line]
WithLines(g, lines) == [g EXCEPT !.buf[Active(g)] = lines]
BlankLine(g) == [c \in 0..(g.cols - 1) |-> BlankCell(g.pen)]
NoWrap(g) == [g EXCEPT !.wrap = FALSE]
\* Most cursor motions also clear the pending wrap.
At(g, r, c) == [g EXCEPT !.row = r, !.col = c, !.wrap = FALSE]

\* PushScrollback: a ring that drops its oldest line when it is full.
PushScrollback(g, r) ==
    IF g.limit = 0 THEN g
    ELSE LET h == Append(g.history, g.buf.main[r])
         IN  [g EXCEPT !.history = IF Len(h) > g.limit THEN Tail(h) ELSE h]

\* Rows 0..n-1 into the scrollback, in order.
PushRows(g, n) ==
    LET f[k \in 0..n] == IF k = 0 THEN g ELSE PushScrollback(f[k - 1], k - 1)
    IN  f[n]

ScrollRegionUp(g, k, push) ==
    LET n == LeastOf(k, g.bot - g.top + 1)
        pushed == IF push /\ g.top = 0 /\ ~IsAlt(g) THEN PushRows(g, n) ELSE g
    IN  WithLines(pushed,
          [r \in 0..(g.rows - 1) |->
             IF r \notin g.top..g.bot THEN LineAt(g, r)
             ELSE IF r + n <= g.bot THEN LineAt(g, r + n) ELSE BlankLine(g)])

ScrollRegionDown(g, k) ==
    LET n == LeastOf(k, g.bot - g.top + 1)
    IN  WithLines(g,
          [r \in 0..(g.rows - 1) |->
             IF r \notin g.top..g.bot THEN LineAt(g, r)
             ELSE IF r - n >= g.top THEN LineAt(g, r - n) ELSE BlankLine(g)])

(***************************************************************************)
(* Printing and the controls.                                              *)
(***************************************************************************)
Index(g) ==
    CASE g.row = g.bot                        -> NoWrap(ScrollRegionUp(g, 1, TRUE))
      [] g.row # g.bot /\ g.row < g.rows - 1  -> At(g, g.row + 1, g.col)
      [] OTHER                                -> NoWrap(g)

LineFeed(g) == Index(IF "lnm" \in g.modes THEN [g EXCEPT !.col = 0] ELSE g)

ReverseIndex(g) ==
    CASE g.row = g.top                -> NoWrap(ScrollRegionDown(g, 1))
      [] g.row # g.top /\ g.row > 0   -> At(g, g.row - 1, g.col)
      [] OTHER                        -> NoWrap(g)

InsertChars(g, k) ==
    NoWrap(WithLine(g, g.row, InsertCells(LineAt(g, g.row), g.pen, g.cols, g.col,
                                          LeastOf(GreatestOf(k, 1), g.cols - g.col))))

\* The line-drawing set replaces the one letter of the model it knows.
Translate(g, cp) ==
    IF cp = "q" /\ (IF g.shift THEN g.g1 ELSE g.g0) THEN "line" ELSE cp

\* PutChar, once the cursor stands where the character goes.
PlaceChar(g, cp, width) ==
    LET cell == [cp |-> cp, width |-> width, pen |-> g.pen]
        h == WithLine(g, g.row, PlaceCell(LineAt(g, g.row), g.pen, g.cols, g.col, cell))
        edge == g.col + width >= g.cols
    IN  [h EXCEPT !.last = <<cp, width>>, !.wrap = edge,
                  !.col = IF edge THEN g.cols - 1 ELSE @ + width]

\* PutChar.  Insert mode opens its gap before a wide character that does not
\* fit wraps; without DECAWM such a character is dropped.  In a grid of one
\* column a wide character becomes a space.
PutChar(g, cp, width) ==
    LET wrapped == IF g.wrap /\ "awm" \in g.modes
                   THEN LineFeed([g EXCEPT !.col = 0]) ELSE NoWrap(g)
        open == IF "irm" \in g.modes THEN InsertChars(wrapped, width) ELSE wrapped
        narrow == width = 2 /\ g.cols = 1
        w == IF narrow THEN 1 ELSE width
        glyph == IF narrow THEN "sp" ELSE Translate(g, cp)
        noRoom == w = 2 /\ open.col + 1 >= g.cols
    IN  CASE width = 0                         -> g
          [] width # 0 /\ ~noRoom              -> PlaceChar(open, glyph, w)
          [] noRoom /\ "awm" \in g.modes       ->
                PlaceChar(LineFeed([open EXCEPT !.col = 0]), glyph, w)
          [] noRoom /\ "awm" \notin g.modes    -> open

CarriageReturn(g) == At(g, g.row, 0)
Backspace(g) == At(g, g.row, GreatestOf(g.col - 1, 0))
HorizontalTab(g) ==
    LET next == {c \in g.tabs : c > g.col /\ c < g.cols}
    IN  At(g, g.row, IF next = {} THEN g.cols - 1 ELSE Min(next))
HorizontalTabBack(g) ==
    LET prev == {c \in g.tabs : c < g.col}
    IN  At(g, g.row, IF prev = {} THEN 0 ELSE Max(prev))

(***************************************************************************)
(* Cursor motion.                                                          *)
(***************************************************************************)
\* Above the region with DECOM the distance to the limit is negative, and
\* converting it to 16 bits takes the cursor down to the top margin.
MoveCursorUp(g, n) ==
    LET limit == CASE g.row \in g.top..g.bot -> g.top
                   [] g.row > g.bot          -> g.bot + 1
                   [] g.row < g.top          -> IF "decom" \in g.modes THEN g.top ELSE 0
    IN  At(g, IF n > g.row - limit THEN limit ELSE g.row - n, g.col)

MoveCursorDown(g, n) ==
    LET limit == IF g.row <= g.bot \/ "decom" \in g.modes THEN g.bot ELSE g.rows - 1
    IN  At(g, IF g.row + n > limit THEN limit ELSE g.row + n, g.col)

MoveCursorRight(g, n) == At(g, g.row, LeastOf(g.col + n, g.cols - 1))
MoveCursorLeft(g, n) == At(g, g.row, GreatestOf(g.col - n, 0))

\* The row of a 1-based parameter: from the top margin and no further than the
\* bottom one with DECOM.
TargetRow(g, row1) ==
    LET off == IF "decom" \in g.modes THEN g.top ELSE 0
        last == IF "decom" \in g.modes THEN g.bot ELSE g.rows - 1
    IN  LeastOf(off + GreatestOf(row1 - 1, 0), last)
TargetCol(g, col1) == LeastOf(GreatestOf(col1 - 1, 0), g.cols - 1)

MoveCursorTo(g, row1, col1) == At(g, TargetRow(g, row1), TargetCol(g, col1))
MoveCursorToCol(g, col1) == At(g, g.row, TargetCol(g, col1))
MoveCursorToRow(g, row1) == At(g, TargetRow(g, row1), g.col)

SaveCursor(g) ==
    [g EXCEPT !.saved[Active(g)] =
        [row |-> g.row, col |-> g.col, pen |-> g.pen,
         decom |-> "decom" \in g.modes, wrap |-> g.wrap,
         g0 |-> g.g0, g1 |-> g.g1, shift |-> g.shift]]

RestoreCursor(g) ==
    LET s == g.saved[Active(g)]
        row == LeastOf(s.row, g.rows - 1)
        col == LeastOf(s.col, g.cols - 1)
    IN  [g EXCEPT !.row = IF s.decom THEN LeastOf(row, g.bot) ELSE row,
                  !.col = col,
                  !.modes = IF s.decom THEN @ \cup {"decom"} ELSE @ \ {"decom"},
                  !.pen = s.pen, !.g0 = s.g0, !.g1 = s.g1, !.shift = s.shift,
                  !.wrap = s.wrap /\ col + 1 = g.cols]

(***************************************************************************)
(* Erasing, inserting and deleting.                                        *)
(***************************************************************************)
EraseCols(g, first, last) ==
    NoWrap(WithLine(g, g.row, EraseRange(LineAt(g, g.row), g.pen, first, last)))

EraseInLine(g, param) ==
    CASE param = 0 -> EraseCols(g, g.col, g.cols)
      [] param = 1 -> EraseCols(g, 0, g.col + 1)
      [] param = 2 -> NoWrap(WithLine(g, g.row, BlankLine(g)))
      [] OTHER     -> NoWrap(g)

EraseRows(g, rows) ==
    WithLines(g, [r \in 0..(g.rows - 1) |->
                    IF r \in rows THEN BlankLine(g) ELSE LineAt(g, r)])

\* ED 3 also drops the scrollback, on the main screen only.
EraseInDisplay(g, param) ==
    CASE param = 0 -> EraseRows(EraseInLine(g, 0), (g.row + 1)..(g.rows - 1))
      [] param = 1 -> EraseInLine(EraseRows(g, 0..(g.row - 1)), 1)
      [] param \in {2, 3} ->
            [NoWrap(EraseRows(g, 0..(g.rows - 1))) EXCEPT
                !.history = IF param = 3 /\ ~IsAlt(g) THEN <<>> ELSE @]
      [] OTHER -> NoWrap(g)

EraseChars(g, n) ==
    EraseCols(g, g.col, LeastOf(g.col + GreatestOf(n, 1), g.cols))

DeleteChars(g, n) ==
    NoWrap(WithLine(g, g.row, DeleteCells(LineAt(g, g.row), g.pen, g.cols, g.col,
                                          LeastOf(GreatestOf(n, 1), g.cols - g.col))))

\* IL and DL: the region from the cursor's row down, or nothing outside it.
\* Deleted lines never go to the scrollback.
InRegion(g) == g.row \in g.top..g.bot
InsertLines(g, n) ==
    IF InRegion(g)
    THEN [At(ScrollRegionDown([g EXCEPT !.top = g.row], n), g.row, 0)
            EXCEPT !.top = g.top]
    ELSE g
DeleteLines(g, n) ==
    IF InRegion(g)
    THEN [At(ScrollRegionUp([g EXCEPT !.top = g.row], n, FALSE), g.row, 0)
            EXCEPT !.top = g.top]
    ELSE g

\* REP of the last character; the model repeats it once.
RepeatChar(g) == IF g.last = <<>> THEN g ELSE PutChar(g, g.last[1], g.last[2])

(***************************************************************************)
(* Margins, modes, resets, character sets, tab stops.                      *)
(***************************************************************************)
SetScrollRegion(g, top1, bot1) ==
    LET t == GreatestOf(top1 - 1, 0)
        top == IF t >= g.rows THEN 0 ELSE t
        bot == IF bot1 = 0 THEN g.rows - 1 ELSE LeastOf(bot1 - 1, g.rows - 1)
    IN  IF top >= bot THEN g
        ELSE [At(g, IF "decom" \in g.modes THEN top ELSE 0, 0)
                EXCEPT !.top = top, !.bot = bot]

Flag(g, mode, on) == [g EXCEPT !.modes = IF on THEN @ \cup {mode} ELSE @ \ {mode}]
SwitchAltScreen(g, enter) == Flag(g, "alt", enter)
ClearAltScreen(g) ==
    NoWrap([g EXCEPT !.buf.alt = [r \in 0..(g.rows - 1) |-> BlankLine(g)]])

\* The modes that are a flag and nothing else.
PlainMode(param) ==
    CASE param = 1    -> "ckm"      [] param = 4    -> "irm"
      [] param = 7    -> "awm"      [] param = 20   -> "lnm"
      [] param = 25   -> "tcem"     [] param = 1000 -> "mouse1000"
      [] param = 1002 -> "mouse1002" [] param = 1003 -> "mouse1003"
      [] param = 1004 -> "focus"    [] param = 1005 -> "mouse1005"
      [] param = 1006 -> "mouse1006" [] param = 1015 -> "mouse1015"
      [] param = 2004 -> "paste"    [] param = 2026 -> "sync"
      [] OTHER        -> "unknown"

SetMode(g, param, on) ==
    CASE param = 6    -> At(Flag(g, "decom", on), IF on THEN g.top ELSE 0, 0)
      [] param = 47   -> SwitchAltScreen(g, on)
      [] param = 1047 -> SwitchAltScreen(IF ~on /\ IsAlt(g) THEN ClearAltScreen(g)
                                                            ELSE g, on)
      [] param = 1048 -> IF on THEN SaveCursor(g) ELSE RestoreCursor(g)
      [] param = 1049 -> IF on THEN ClearAltScreen(SwitchAltScreen(SaveCursor(g), TRUE))
                         ELSE RestoreCursor(SwitchAltScreen(g, FALSE))
      [] OTHER        -> IF PlainMode(param) = "unknown" THEN g
                         ELSE Flag(g, PlainMode(param), on)

\* Reset: RIS clears everything but the code's memory of the last character;
\* DECSTR keeps the cursor, the saved cursors, the buffer in use, the tab
\* stops and the content.
Reset(g, hard) ==
    LET soft == [g EXCEPT !.pen = NoPen, !.top = 0, !.bot = g.rows - 1,
                          !.g0 = FALSE, !.g1 = FALSE, !.shift = FALSE,
                          !.modes = DefaultModes \cup (@ \cap {"alt"})]
        fresh == NewGrid(g.cols, g.rows, g.limit)
    IN  IF hard THEN [fresh EXCEPT !.last = g.last, !.diverged = g.diverged]
                ELSE soft

SetTabStop(g) == [g EXCEPT !.tabs = @ \cup {g.col}]
ClearTabStop(g, param) ==
    [g EXCEPT !.tabs = CASE param = 0 -> @ \ {g.col} [] param = 3 -> {} [] OTHER -> @]
ShiftCharset(g, out) == [g EXCEPT !.shift = out]
DesignateCharset(g, set, final) ==
    IF set = 0 THEN [g EXCEPT !.g0 = final = "0"] ELSE [g EXCEPT !.g1 = final = "0"]

(***************************************************************************)
(* Resize.  Either every new buffer is allocated or nothing changes.  Rows *)
(* leave at the top, into the scrollback unless the alternate screen is in *)
(* use; lines are cut or padded, never reflowed.  A narrower width cuts    *)
(* the old lines first, so what is pushed is cut already.                  *)
(***************************************************************************)
ResizeScreen(g, lines, cols, rows) ==
    LET lost == GreatestOf(g.rows - rows, 0)
    IN  [r \in 0..(rows - 1) |->
           IF r + lost < g.rows THEN ResizeLine(lines[r + lost], g.pen, g.cols, cols)
           ELSE [c \in 0..(cols - 1) |-> NewCell]]

ResizeHistory(g, cols) ==
    [i \in DOMAIN g.history |-> ResizeLine(g.history[i], g.pen, g.cols, cols)]

ClampSaved(s, cols, rows) ==
    [s EXCEPT !.row = LeastOf(@, rows - 1), !.col = LeastOf(@, cols - 1)]

Resize(g, newCols, newRows) ==
    LET cols == ClampScreenSize(newCols, newRows).cols
        rows == ClampScreenSize(newCols, newRows).rows
        lost == GreatestOf(g.rows - rows, 0)
        pushed == IF IsAlt(g) THEN g ELSE PushRows(g, lost)
    IN  IF cols = g.cols /\ rows = g.rows THEN g
        ELSE [pushed EXCEPT
                !.cols = cols, !.rows = rows, !.top = 0, !.bot = rows - 1,
                !.buf = [b \in {"main", "alt"} |->
                            ResizeScreen(g, g.buf[b], cols, rows)],
                !.history = ResizeHistory(pushed, cols),
                !.tabs = @ \cup DefaultTabs(g.cols, cols),
                !.row = LeastOf(GreatestOf(@ - lost, 0), rows - 1),
                !.col = LeastOf(@, cols - 1), !.wrap = FALSE,
                !.saved = [b \in {"main", "alt"} |-> ClampSaved(@[b], cols, rows)]]
=============================================================================
