------------------------------- MODULE Screen -------------------------------
(***************************************************************************)
(* The agent's screen under an application's output: the grid, fed one     *)
(* sequence at a time, resized in between, and photographed at any moment. *)
(* A behaviour starts from a screen some output has prepared and takes at  *)
(* most MaxSteps more sequences.                                           *)
(***************************************************************************)
EXTENDS Snapshot

CONSTANTS
    Cols, Rows, Limit,  \* the first size, and the scrollback limit
    Prepared,           \* outputs the behaviours start after
    Chars, Controls, Escapes, Sequences,    \* what the application writes
    Sizes,              \* sizes of the client's window: <<cols, rows>>
    MaxSteps,           \* bound on the sequences that follow
    LadderSteps         \* the ladder is tried with this many steps left or more

VARIABLES
    grid,   \* Grid
    steps   \* sequences left

vars == <<grid, steps>>

Init ==
    /\ \E p \in Prepared : grid = Play(NewGrid(Cols, Rows, Limit), p)
    /\ steps = MaxSteps

Take(g) == steps > 0 /\ steps' = steps - 1 /\ grid' = g

PrintChar == \E cp \in Chars : Take(Dispatch(grid, Char(cp)))
Control == \E c \in Controls : Take(Dispatch(grid, Ctl(c)))
Escape == \E e \in Escapes : Take(Dispatch(grid, e))
Sequence == \E s \in Sequences : Take(Dispatch(grid, s))
HandleResize == \E s \in Sizes : Take(Resize(grid, s[1], s[2]))

Next == PrintChar \/ Control \/ Escape \/ Sequence \/ HandleResize
Spec == Init /\ [][Next]_vars

-----------------------------------------------------------------------------
\* The grid stays within its limits, and the cursor, the margins and the
\* scrollback inside the grid, whatever its size becomes; a wrap is pending in the
\* last column only.
TypeOK ==
    /\ grid.cols \in 1..MaxCols /\ grid.rows \in 1..MaxRows
    /\ grid.cols * grid.rows <= MaxScreenCells
    /\ grid.row \in 0..(grid.rows - 1) /\ grid.col \in 0..(grid.cols - 1)
    /\ grid.top <= grid.bot /\ grid.bot < grid.rows
    /\ grid.wrap => grid.col = grid.cols - 1
    /\ Len(grid.history) <= grid.limit
    /\ \A b \in {"main", "alt"} :
          /\ DOMAIN grid.buf[b] = 0..(grid.rows - 1)
          /\ \A r \in DOMAIN grid.buf[b] : DOMAIN grid.buf[b][r] = 0..(grid.cols - 1)

(***************************************************************************)
(* docs/design.md section 9, wide characters: in both buffers and in the   *)
(* scrollback, no head in the last column, a tail behind every head and a  *)
(* head before every tail, whatever is printed over, erased, inserted,     *)
(* deleted, scrolled or cut off.                                           *)
(***************************************************************************)
WidePairs ==
    /\ \A b \in {"main", "alt"} : \A r \in DOMAIN grid.buf[b] :
          Paired(grid.buf[b][r], grid.cols)
    /\ \A i \in DOMAIN grid.history : Paired(grid.history[i], grid.cols)

\* No operation leaves the grid in a shape the others do not expect.
GridWellFormed == TypeOK /\ WidePairs

\* What rung ep keeps of a pen, a line and a screen: reduced colours, and rows
\* of blanks where rows are cropped.
KeptPen(pen, ep) == NormalizePen(pen, ep.color)
Kept(line, ep) ==
    [c \in DOMAIN line |-> [line[c] EXCEPT !.cp = ShownCp(line[c]), !.pen = KeptPen(@, ep)]]
KeptScreen(g, b, ep) ==
    [r \in DOMAIN g.buf[b] |->
        IF r \in ep.cropTop..(g.rows - ep.cropBot - 1) THEN Kept(g.buf[b][r], ep)
        ELSE Kept([c \in 0..(g.cols - 1) |-> NewCell], ep)]
\* docs/design.md section 9: the wrap flag of the saved cursor is not restored.
KeptSaved(s, ep) == [s EXCEPT !.wrap = FALSE, !.pen = KeptPen(@, ep)]
\* The row of the cursor as a snapshot can give it: with DECOM, in the region.
KeptRow(g) == IF On(g, "decom") THEN LeastOf(GreatestOf(g.row, g.top), g.bot) ELSE g.row

\* Terminal t shows what rung ep keeps of g.  While the main screen is in use
\* neither the alternate screen nor its saved cursor is part of a snapshot;
\* synchronized output is over at its end.
Shows(t, g, ep) ==
    LET all == FullParams(t)
        inUse == 0..(g.cols - 1)
    IN  /\ KeptScreen(t, "main", all) = KeptScreen(g, "main", ep)
        /\ [i \in DOMAIN t.history |-> Kept(t.history[i], all)]
             = [i \in 1..ep.histCount |-> Kept(g.history[ep.histStart + i], ep)]
        /\ IsAlt(g) => /\ KeptScreen(t, "alt", all) = KeptScreen(g, "alt", ep)
                       /\ KeptSaved(t.saved.alt, all) = KeptSaved(g.saved.alt, ep)
        /\ KeptSaved(t.saved.main, all) = KeptSaved(g.saved.main, ep)
        /\ t.row = KeptRow(g) /\ t.col = g.col /\ t.wrap = g.wrap
        /\ t.top = g.top /\ t.bot = g.bot /\ t.pen = KeptPen(g.pen, ep)
        /\ t.modes = g.modes \ {"sync"}
        /\ t.g0 = g.g0 /\ t.g1 = g.g1 /\ t.shift = g.shift /\ t.style = g.style
        /\ t.tabs \cap inUse = g.tabs \cap inUse

\* A snapshot of rung ep, played on a fresh terminal of the same size.
Restored(ep) ==
    Play(NewGrid(grid.cols, grid.rows, grid.limit), EncodeAll(grid, ep))

\* The reprint of step 12 goes wrong: shifted to a graphic G1 it shifts back to a
\* graphic G0, or the cursor it starts from had to be clamped into the region.
ReprintMisled(g) ==
    g.wrap /\ ((g.g0 /\ g.g1 /\ g.shift) \/ KeptRow(g) # g.row)

(***************************************************************************)
(* snapshot.cpp:1-6: a snapshot fed to a fresh terminal of the same size   *)
(* reproduces screen, history, cursor, saved cursors and modes.            *)
(***************************************************************************)
RoundTrip == Shows(Restored(FullParams(grid)), grid, FullParams(grid))

\* The rungs in the order in which Create gives things up.
Ladder(g) ==
    LET sz == Len(g.history)
    IN  [i \in 1..(sz + 1) |-> Rung(g, sz + 1 - i, "full", 0, 0)]
        \o <<Rung(g, 0, "256", 0, 0), Rung(g, 0, "none", 0, 0)>>
        \o [i \in 1..g.row |-> Rung(g, 0, "none", i, 0)]
        \o [i \in 1..(g.rows - g.row - 1) |-> Rung(g, 0, "none", g.row, i)]

\* For every limit that tells two rungs apart, and one below them all.
TakesFirstFit(ladder, bytes) ==
    \A cap \in Range(bytes) \cup {Min(Range(bytes)) - 1} :
        LET fit == {i \in DOMAIN ladder : bytes[ladder[i]] <= cap}
        IN  Create(grid, cap, bytes) = IF fit = {} THEN <<>> ELSE <<ladder[Min(fit)]>>

(***************************************************************************)
(* Create's binary searches are sound although the size of a rung is only  *)
(* known by encoding it: whatever the limit, the rung chosen is the first  *)
(* of the ladder that fits ("the first step whose dry-run fits the cap is  *)
(* encoded"), and there is none only if no rung fits.                      *)
(***************************************************************************)
LadderFirstFit ==
    steps >= LadderSteps =>
        TakesFirstFit(Ladder(grid),
                      [ep \in Range(Ladder(grid)) |-> MeasureEncoding(grid, ep)])

(***************************************************************************)
(* RoundTrip, except where the reprint of the last column goes wrong; and  *)
(* a reduced snapshot still restores all that its rung keeps, and the      *)
(* cursor and the modes whole.                                             *)
(***************************************************************************)
SnapshotRestores ==
    ~ReprintMisled(grid) =>
        \A ep \in IF steps >= LadderSteps THEN Range(Ladder(grid)) ELSE {FullParams(grid)} :
            Shows(Restored(ep), grid, ep)
=============================================================================
