------------------------------ MODULE Snapshot ------------------------------
(***************************************************************************)
(* The snapshot of a screen (src/src/grid/snapshot.cpp): the sequences     *)
(* that rebuild it on the client's terminal, and the ladder of reductions  *)
(* that keeps them below the size limit.  A snapshot is a sequence of the  *)
(* sequences of module VtDispatch.                                         *)
(***************************************************************************)
EXTENDS VtDispatch

Cup(row1, col1) == CsiNums(<<row1, col1>>, "H")
ResetPen == Sgr(Nums(<<0>>))
EraseHome == <<CsiNums(<<2>>, "J"), CsiNums(<<>>, "H")>>
\* EmitPrivateMode and EmitAnsiMode.
OnOff(on) == IF on THEN "h" ELSE "l"
PrivateMode(n, on) == Dec(n, OnOff(on))
AnsiMode(n, on) == CsiNums(<<n>>, OnOff(on))
SgrTo(pen, new) == [i \in DOMAIN EmitSgr(pen, new) |-> Sgr(EmitSgr(pen, new)[i])]

\* SanitizeCp, and the replacement of a wide character left in a narrow cell.
\* The parser never stores the controls SanitizeCp also replaces.
ShownCp(cell) ==
    CASE cell.cp = "nul"                             -> "sp"
      [] cell.width = 1 /\ Wcwidth(cell.cp) = 2      -> "fffd"
      [] OTHER                                       -> cell.cp

IsBlankCell(cell) == cell.cp \in {"nul", "sp"} /\ cell.pen = NoPen
Extent(line) == Max({0} \cup {c + 1 : c \in {d \in DOMAIN line : ~IsBlankCell(line[d])}})

\* The cells of a line up to its extent, tails skipped.  The terminal's pen is
\* that of the character before, or pen0 at the start of the line.
EncodeCells(line, pen0, mode) ==
    LET penOf(c) == NormalizePen(line[c].pen, mode)
        before(c) == CASE c = 0                              -> pen0
                       [] c > 0 /\ line[c - 1].width = 0     -> penOf(c - 2)
                       [] c > 0 /\ line[c - 1].width # 0     -> penOf(c - 1)
        one(c) == IF line[c].width = 0 THEN <<>>
                  ELSE SgrTo(before(c), penOf(c)) \o <<Char(ShownCp(line[c]))>>
    IN  FlattenSeq([i \in 1..Extent(line) |-> one(i - 1)])
\* The pen EncodeCells leaves: the cell before the extent is never a tail.
PenAfter(line, pen0, mode) ==
    IF Extent(line) = 0 THEN pen0 ELSE NormalizePen(line[Extent(line) - 1].pen, mode)

\* Fault: the pen runs on into the next line of the scrollback.
EncodeHistoryBleeds(g, first, count, mode) ==
    FlattenSeq([i \in 1..count |->
        EncodeCells(g.history[first + i], NoPen, mode) \o <<Ctl("CR"), Ctl("LF")>>])

EncodeHistory(g, first, count, mode) ==
    FlattenSeq([i \in 1..count |->
        LET line == g.history[first + i]
        IN  EncodeCells(line, NoPen, mode)
            \o (IF PenAfter(line, NoPen, mode) = NoPen THEN <<>> ELSE <<ResetPen>>)
            \o <<Ctl("CR"), Ctl("LF")>>])

\* EncodeAnyScreen: rows first..end-1 that show anything; the next row follows
\* by CR LF, a row after a gap by an absolute position.
EncodeAnyScreen(lines, first, end, mode) ==
    LET used(r) == r \in first..(end - 1) /\ Extent(lines[r]) > 0
        above(r) == {q \in first..(r - 1) : used(q)}
        pen(r) == IF above(r) = {} THEN NoPen
                  ELSE PenAfter(lines[Max(above(r))], NoPen, mode)
        move(r) == IF used(r - 1) THEN <<Ctl("CR"), Ctl("LF")>> ELSE <<Cup(r + 1, 1)>>
        one(r) == IF used(r) THEN move(r) \o EncodeCells(lines[r], pen(r), mode) ELSE <<>>
    IN  FlattenSeq([i \in 1..GreatestOf(end - first, 0) |-> one(first + i - 1)])

(***************************************************************************)
(* The saved cursor.  Its character sets and DECOM are put in place only   *)
(* if they are not the default ones; with DECOM the region is widened to   *)
(* cover the saved row, and all is undone after DECSC or ?1049h.           *)
(***************************************************************************)
Charsets(g0, g1, shift) ==
    <<Esc("(", IF g0 THEN "0" ELSE "B"), Esc(")", IF g1 THEN "0" ELSE "B"),
      Ctl(IF shift THEN "SO" ELSE "SI")>>
SlotNeedsState(s) == s.decom \/ s.g0 \/ s.g1 \/ s.shift
SlotSetState(g, s) ==
    LET top == LeastOf(s.row, g.top)
        bot == GreatestOf(s.row, g.bot)
    IN  Charsets(s.g0, s.g1, s.shift)
        \o (IF s.decom
            THEN <<CsiNums(<<top + 1, bot + 1>>, "r"), Dec(6, "h"),
                   Cup(s.row - top + 1, s.col + 1)>>
            ELSE <<Cup(s.row + 1, s.col + 1)>>)
SlotUndoState == <<Dec(6, "l"), CsiNums(<<>>, "r")>> \o Charsets(FALSE, FALSE, FALSE)

\* The slot's pen and state, then the sequence that saves it.
EncodeSlot(g, s, save, mode) ==
    <<ResetPen>> \o SgrTo(NoPen, NormalizePen(s.pen, mode))
    \o (IF SlotNeedsState(s) THEN SlotSetState(g, s) ELSE <<Cup(s.row + 1, s.col + 1)>>)
    \o <<save>> \o (IF SlotNeedsState(s) THEN SlotUndoState ELSE <<>>)

(***************************************************************************)
(* EncodeModeRestore, in the order of its numbered steps.                  *)
(***************************************************************************)
ModeList == <<1000, 1002, 1003, 1005, 1006, 1015, 2004, 1004>>
On(g, mode) == mode \in g.modes

\* Step 12: the character in the last column, or the head of the pair whose
\* tail is there, is printed again to bring the pending wrap back.
OnTail(g) == g.wrap /\ g.col > 0 /\ CellAt(g, g.row, g.col).width = 0
Reprint(g, mode) ==
    LET cell == CellAt(g, g.row, IF OnTail(g) THEN g.col - 1 ELSE g.col)
        live == NormalizePen(g.pen, mode)
        pen == NormalizePen(cell.pen, mode)
        g0On == g.g0 /\ ~g.shift
        g1On == g.g1 /\ g.shift
    IN  IF ~g.wrap THEN <<>>
        ELSE (IF On(g, "awm") THEN <<>> ELSE <<Dec(7, "h")>>)
             \o (IF g0On THEN <<Esc("(", "B")>> ELSE <<>>)
             \o (IF g1On THEN <<Esc(")", "B"), Ctl("SI")>> ELSE <<>>)
             \o SgrTo(live, pen) \o <<Char(ShownCp(cell))>> \o SgrTo(pen, live)
             \o (IF g0On THEN <<Esc("(", "0")>> ELSE <<>>)
             \o (IF g1On THEN <<Esc(")", "0"), Ctl("SO")>> ELSE <<>>)
             \o (IF On(g, "awm") THEN <<>> ELSE <<Dec(7, "l")>>)

\* Steps 10 and 11: DECOM, then the position, in the region's coordinates and
\* clamped into it with DECOM.
EncodeCursor(g) ==
    LET col == IF OnTail(g) THEN g.col - 1 ELSE g.col
        row == IF On(g, "decom")
               THEN LeastOf(GreatestOf(g.row, g.top), g.bot) - g.top ELSE g.row
    IN  <<PrivateMode(6, On(g, "decom")), Cup(row + 1, col + 1)>>

TabStops(g) ==
    <<CsiNums(<<3>>, "g")>>
    \o FlattenSeq([i \in 1..g.cols |->
         IF i - 1 \in g.tabs THEN <<Cup(1, i), Esc("", "H")>> ELSE <<>>])

EncodeModeRestore(g, mode) ==
    EncodeSlot(g, g.saved[Active(g)], Esc("", "7"), mode)
    \o <<ResetPen>> \o SgrTo(NoPen, NormalizePen(g.pen, mode))
    \o <<CsiNums(<<g.top + 1, g.bot + 1>>, "r"),
         PrivateMode(1, On(g, "ckm")), PrivateMode(7, On(g, "awm")),
         AnsiMode(4, On(g, "irm")), AnsiMode(20, On(g, "lnm"))>>
    \o [i \in DOMAIN ModeList |-> PrivateMode(ModeList[i], On(g, PlainMode(ModeList[i])))]
    \o Charsets(g.g0, g.g1, g.shift) \o TabStops(g)
    \o <<Csi("", Nums(<<g.style>>), " ", "q")>>
    \o EncodeCursor(g) \o Reprint(g, mode)
    \o <<PrivateMode(25, On(g, "tcem")), Dec(2026, "l")>>

(***************************************************************************)
(* EncodeAll.                                                              *)
(***************************************************************************)
Preamble == <<Ctl("CAN"), Esc("", "\\"), Csi("", <<>>, "!", "p"), Dec(1049, "l")>>
            \o EraseHome \o <<Dec(25, "l")>>

EncodeAll(g, ep) ==
    LET end == g.rows - ep.cropBot
        paint(b) == EncodeAnyScreen(g.buf[b], ep.cropTop, end, ep.color)
        history == EncodeHistory(g, ep.histStart, ep.histCount, ep.color)
                   \o [i \in 1..(g.rows - 1) |-> Ctl("LF")]
        enterAlt == paint("main")
                    \o EncodeSlot(g, g.saved.main, Dec(1049, "h"), ep.color)
                    \o <<ResetPen>> \o EraseHome
    IN  Preamble
        \o (IF ep.histCount > 0 THEN history ELSE <<>>)
        \o <<ResetPen>> \o EraseHome
        \o (IF IsAlt(g) THEN enterAlt ELSE <<>>)
        \o <<Dec(2026, "h")>> \o paint(Active(g)) \o EncodeModeRestore(g, ep.color)

(***************************************************************************)
(* Snapshot::Create: the degrade ladder.  A dry run measures a rung (what  *)
(* it keeps); the first that fits the limit is written.                    *)
(***************************************************************************)
Rung(g, count, color, top, bot) ==
    [histStart |-> Len(g.history) - count, histCount |-> count, color |-> color,
     cropTop |-> top, cropBot |-> bot]
FullParams(g) == Rung(g, Len(g.history), "full", 0, 0)

\* WriteDecimal and WriteUtf8: the bytes of a number and of a character.
Digits(n) == CASE n < 10                  -> 1
               [] n >= 10 /\ n < 100      -> 2
               [] n >= 100 /\ n < 1000    -> 3
               [] OTHER                   -> 4
BytesOfCp(cp) == IF cp \in {"W", "fffd", "line"} THEN 3 ELSE 1
Present(field) == IF field = "" THEN 0 ELSE 1
BytesOf(s) ==
    CASE s.kind = "char" -> BytesOfCp(s.cp)
      [] s.kind = "ctl"  -> 1
      [] s.kind = "esc"  -> 2 + Present(s.inter)
      [] s.kind = "csi"  ->
           LET upTo[i \in 0..Len(s.ps)] ==
                 IF i = 0 THEN 0 ELSE upTo[i - 1] + Digits(s.ps[i].n) + (IF i > 1 THEN 1 ELSE 0)
           IN  3 + Present(s.mark) + upTo[Len(s.ps)] + Present(s.inter)

RECURSIVE Measure(_)
Measure(seqs) ==
    IF seqs = <<>> THEN 0 ELSE BytesOf(Head(seqs)) + Measure(Tail(seqs))
MeasureEncoding(g, ep) == Measure(EncodeAll(g, ep))

\* The binary searches: the last and the first index in lo..hi whose rung fits,
\* if those that fit are a prefix, or a suffix.
RECURSIVE LastFit(_, _, _, _)
LastFit(size, cap, lo, hi) ==
    LET mid == lo + (hi - lo + 1) \div 2
    IN  CASE lo >= hi                         -> lo
          [] lo < hi /\ size[mid] <= cap      -> LastFit(size, cap, mid, hi)
          [] lo < hi /\ size[mid] > cap       -> LastFit(size, cap, lo, mid - 1)
\* Fault: no search, all the rows go.
FirstFitMost(size, cap, lo, hi) == hi
RECURSIVE FirstFit(_, _, _, _)
FirstFit(size, cap, lo, hi) ==
    LET mid == lo + (hi - lo) \div 2
    IN  CASE lo >= hi                         -> lo
          [] lo < hi /\ size[mid] <= cap      -> FirstFit(size, cap, lo, mid)
          [] lo < hi /\ size[mid] > cap       -> FirstFit(size, cap, mid + 1, hi)

\* The rung of each step: all; the newest history lines that fit; no history
\* with 256 colours, with none; rows cropped above the cursor, then all of them
\* and rows below it.  The result is the first that fits; empty if none does.
\* bytes[ep] is MeasureEncoding(g, ep).
Create(g, cap, bytes) ==
    LET sz == Len(g.history)
        below == g.rows - g.row - 1
        trimmed(n) == Rung(g, n, "full", 0, 0)
        above(n) == Rung(g, 0, "none", n, 0)
        bottom(n) == Rung(g, 0, "none", g.row, n)
        sizes(Of(_), from, to) == [n \in from..to |-> bytes[Of(n)]]
        ladder ==
            <<FullParams(g)>>
            \o (IF sz = 0 THEN <<>>
                ELSE <<trimmed(LastFit(sizes(trimmed, 0, sz - 1), cap, 0, sz - 1))>>)
            \o <<Rung(g, 0, "256", 0, 0), Rung(g, 0, "none", 0, 0),
                 above(FirstFit(sizes(above, 0, g.row), cap, 0, g.row))>>
            \o (IF below = 0 THEN <<>>
                ELSE <<bottom(FirstFit(sizes(bottom, 1, below), cap, 1, below))>>)
        fitting == SelectSeq(ladder, LAMBDA ep : bytes[ep] <= cap)
    IN  SubSeq(fitting, 1, LeastOf(1, Len(fitting)))
=============================================================================
