----------------------------- MODULE VtDispatch -----------------------------
(***************************************************************************)
(* What a complete sequence does to the grid: the second half of           *)
(* src/src/grid/vt_parser.cpp (HandleControl, ParseParams, DispatchEsc,    *)
(* DispatchCsi).  Module VtParser models how bytes become sequences.       *)
(*                                                                         *)
(* A sequence is a record: a printed character, a C0 control, an escape    *)
(* with its intermediate, or a CSI with its private marker, parameters,    *)
(* intermediate and final byte.                                            *)
(***************************************************************************)
EXTENDS Grid, Sgr, SequencesExt

CONSTANT MaxParams      \* MAX_PARAMS

\* Code points stand for their kind: "W" is wide, "mark" combines, the rest
\* are narrow.
Wcwidth(cp) == CASE cp = "W" -> 2 [] cp = "mark" -> 0 [] OTHER -> 1

Char(cp) == [kind |-> "char", cp |-> cp]
Ctl(c) == [kind |-> "ctl", final |-> c]
Esc(inter, final) == [kind |-> "esc", inter |-> inter, final |-> final]
Csi(mark, ps, inter, final) ==
    [kind |-> "csi", mark |-> mark, ps |-> ps, inter |-> inter, final |-> final]
CsiNums(ns, final) == Csi("", Nums(ns), "", final)
Dec(n, final) == Csi("?", Nums(<<n>>), "", final)
Sgr(ps) == Csi("", ps, "", "m")

HandleControl(g, c) ==
    CASE c = "BS"                 -> Backspace(g)
      [] c = "HT"                 -> HorizontalTab(g)
      [] c \in {"LF", "VT", "FF"} -> LineFeed(g)
      [] c = "CR"                 -> CarriageReturn(g)
      [] c = "SO"                 -> ShiftCharset(g, TRUE)
      [] c = "SI"                 -> ShiftCharset(g, FALSE)
      [] OTHER                    -> g

DispatchEsc(g, inter, final) ==
    CASE inter = "" /\ final = "7" -> SaveCursor(g)
      [] inter = "" /\ final = "8" -> RestoreCursor(g)
      [] inter = "" /\ final = "D" -> Index(g)
      [] inter = "" /\ final = "E" -> LineFeed(CarriageReturn(g))
      [] inter = "" /\ final = "H" -> SetTabStop(g)
      [] inter = "" /\ final = "M" -> ReverseIndex(g)
      [] inter = "" /\ final = "c" -> Reset(g, TRUE)
      [] inter = "("               -> DesignateCharset(g, 0, final)
      [] inter = ")"               -> DesignateCharset(g, 1, final)
      [] OTHER                     -> g

\* ParseParams: there is always a first parameter, an absent one is 0, and
\* what does not fit is dropped.
ParseParams(ps) ==
    SubSeq(IF ps = <<>> THEN <<Num(0)>> ELSE ps, 1,
           LeastOf(MaxParams, GreatestOf(Len(ps), 1)))

Repeated(Op(_), g, n) ==
    LET f[k \in 0..n] == IF k = 0 THEN g ELSE Op(f[k - 1]) IN f[n]

\* DECSET and DECRST: 4 and 20 are ANSI modes and skipped here.
PrivateModes(g, ps, on) ==
    FoldLeft(LAMBDA h, p : IF p.n \in {4, 20} THEN h ELSE SetMode(h, p.n, on), g, ps)
AnsiModes(g, ps, on) ==
    FoldLeft(LAMBDA h, p : IF p.n \in {4, 20} THEN SetMode(h, p.n, on) ELSE h, g, ps)

DispatchCsi(g, s) ==
    LET ps == ParseParams(s.ps)
        p0(i) == IF i <= Len(ps) THEN ps[i].n ELSE 0
        p(i, def) == IF p0(i) > 0 THEN p0(i) ELSE def
        n == p(1, 1)
        b == p0(1) % 256    \* static_cast<std::uint8_t>
        f == s.final
    IN  IF s.mark # ""
        THEN IF s.mark = "?" /\ f \in {"h", "l"} THEN PrivateModes(g, ps, f = "h") ELSE g
        ELSE
        CASE f = "A"           -> MoveCursorUp(g, n)
          [] f \in {"B", "e"}  -> MoveCursorDown(g, n)
          [] f \in {"C", "a"}  -> MoveCursorRight(g, n)
          [] f = "D"           -> MoveCursorLeft(g, n)
          [] f = "E"           -> [MoveCursorDown(g, n) EXCEPT !.col = 0]
          [] f = "F"           -> [MoveCursorUp(g, n) EXCEPT !.col = 0]
          [] f = "G"           -> MoveCursorToCol(g, n)
          [] f \in {"H", "f"}  -> MoveCursorTo(g, n, p(2, 1))
          [] f = "d"           -> MoveCursorToRow(g, n)
          [] f = "I"           -> Repeated(HorizontalTab, g, n)
          [] f = "Z"           -> Repeated(HorizontalTabBack, g, n)
          [] f = "J"           -> EraseInDisplay(g, b)
          [] f = "K"           -> EraseInLine(g, b)
          [] f = "X"           -> EraseChars(g, n)
          [] f = "L"           -> InsertLines(g, n)
          [] f = "M"           -> DeleteLines(g, n)
          [] f = "P"           -> DeleteChars(g, n)
          [] f = "@"           -> InsertChars(g, n)
          [] f = "S"           -> ScrollRegionUp(g, n, TRUE)
          [] f = "T"           -> ScrollRegionDown(g, n)
          [] f = "m"           -> [g EXCEPT !.pen = ApplySgr(@, ps)]
          [] f \in {"h", "l"}  -> AnsiModes(g, ps, f = "h")
          [] f = "r" /\ s.inter = "" -> SetScrollRegion(g, n, p(2, g.rows))
          [] f = "g"           -> ClearTabStop(g, b)
          [] f = "s"           -> SaveCursor(g)
          [] f = "u"           -> RestoreCursor(g)
          [] f = "p" /\ s.inter = "!" -> Reset(g, FALSE)
          [] f = "q" /\ s.inter = " " -> [g EXCEPT !.style = b]
          [] f = "b"           -> Repeated(RepeatChar, g, n)
          [] OTHER             -> g

\* What one sequence does.
Dispatch(g, s) ==
    CASE s.kind = "char" -> PutChar(g, s.cp, Wcwidth(s.cp))
      [] s.kind = "ctl"  -> HandleControl(g, s.final)
      [] s.kind = "esc"  -> DispatchEsc(g, s.inter, s.final)
      [] s.kind = "csi"  -> DispatchCsi(g, s)

\* Several, in order.  (The membership test has TLC compute each grid before it
\* goes on to the next sequence.)
RECURSIVE Play(_, _)
Play(g, seqs) ==
    IF seqs = <<>> THEN g
    ELSE LET h == Dispatch(g, Head(seqs))
         IN  IF h.row \in 0..h.rows THEN Play(h, Tail(seqs)) ELSE h
=============================================================================
