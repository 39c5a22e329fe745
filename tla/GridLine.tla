------------------------------ MODULE GridLine ------------------------------
(***************************************************************************)
(* One line of the terminal screen (src/src/grid/grid.cpp): the cell edits *)
(* behind printing, erasing, inserting, deleting and cropping.  A line is  *)
(* a function from columns 0..n-1 to cells.  A wide character is a pair: a *)
(* head of width 2 and, in the next column, a tail of width 0.             *)
(***************************************************************************)
EXTENDS Integers

\* Cell{}: code point 0, width 1 and the default pen of module Sgr.
NoPen == [attrs |-> {}, style |-> 0, underline |-> 0, fg |-> <<>>, bg |-> <<>>]
NewCell == [cp |-> "nul", width |-> 1, pen |-> NoPen]

\* The second half of a wide character: a default cell of width 0.
Tail0 == [NewCell EXCEPT !.width = 0]

\* BlankCell: a default cell with the background of the pen.
BlankCell(pen) == [NewCell EXCEPT !.pen = [NoPen EXCEPT !.bg = pen.bg]]

\* ClearLine, ClearCells: blank the columns first..last-1.
ClearCells(line, pen, first, last) ==
    [c \in DOMAIN line |-> IF c \in first..(last - 1) THEN BlankCell(pen)
                                                      ELSE line[c]]

\* Blank column c if there is one and its cell has width w.
BlankIf(line, pen, c, w) ==
    [d \in DOMAIN line |-> IF d = c /\ line[d].width = w THEN BlankCell(pen)
                                                         ELSE line[d]]

\* Fault: the column behind the erased range is not looked at.
RepairBefore(line, pen, first, last) == BlankIf(line, pen, first - 1, 2)

\* A head that loses its tail, or a tail that loses its head, at either end of
\* the columns first..last-1 is blanked.
RepairWideOrphans(line, pen, first, last) ==
    BlankIf(BlankIf(line, pen, first - 1, 2), pen, last, 0)

\* EraseInLine and EraseChars: blank first..last-1 and repair the two ends.
EraseRange(line, pen, first, last) ==
    ClearCells(RepairWideOrphans(line, pen, first, last), pen, first, last)

\* DeleteChars: n columns at c go, the rest moves left, blanks come in at the
\* end.  A pair cut by the cursor, by the deleted range or by the blanks that
\* come in is blanked.
DeleteCells(line, pen, n, c, k) ==
    LET onTail == c > 0 /\ line[c].width = 0
        cut == [d \in DOMAIN line |->
                  IF onTail /\ d \in {c - 1, c} THEN BlankCell(pen) ELSE line[d]]
        moved == [d \in DOMAIN line |->
                    CASE d < c                  -> cut[d]
                      [] d >= c /\ d + k < n    -> cut[d + k]
                      [] OTHER                  -> BlankCell(pen)]
    IN  BlankIf(BlankIf(moved, pen, c, 0), pen, n - k - 1, 2)

\* InsertChars: k blanks at c, the rest moves right.  The head before the
\* cursor, the tail that starts the moved block and a head in the last column
\* are blanked.
InsertCells(line, pen, n, c, k) ==
    LET moved == [d \in DOMAIN line |->
                    CASE d < c             -> line[d]
                      [] d \in c..(c+k-1)  -> BlankCell(pen)
                      [] OTHER             -> line[d - k]]
        fixed == BlankIf(BlankIf(moved, pen, c - 1, 2), pen, c + k, 0)
    IN  BlankIf(fixed, pen, n - 1, 2)

\* PutChar, its writes: a head to the left keeps its character and becomes
\* narrow, the tail of a head written over is blanked, and so is the tail of a
\* head that the new tail replaces.
PlaceCell(line, pen, n, c, cell) ==
    LET overHead == line[c].width = 2
        tailOverHead == cell.width = 2 /\ c + 1 < n /\ ~overHead
                          /\ line[c + 1].width = 2
    IN  [d \in DOMAIN line |->
            CASE d = c                           -> cell
              [] d = c + 1 /\ cell.width = 2     -> Tail0
              [] d = c + 1 /\ overHead /\ cell.width # 2 -> BlankCell(pen)
              [] d = c + 2 /\ tailOverHead       -> BlankCell(pen)
              [] d = c - 1 /\ line[d].width = 2  -> [line[d] EXCEPT !.width = 1]
              [] OTHER                           -> line[d]]

\* Resize, one line: a head that would stand in the new last column is blanked,
\* the columns that remain are copied and new ones are default cells.
ResizeLine(line, pen, n, m) ==
    LET cut == IF m < n THEN BlankIf(line, pen, m - 1, 2) ELSE line
    IN  [c \in 0..(m - 1) |-> IF c < n THEN cut[c] ELSE NewCell]

\* docs/design.md section 9: a head is never in the last column, a tail follows
\* every head, a head precedes every tail.
Paired(line, n) ==
    \A c \in 0..(n - 1) :
        /\ line[c].width = 2 => c + 1 < n /\ line[c + 1].width = 0
        /\ line[c].width = 0 => c > 0 /\ line[c - 1].width = 2
=============================================================================
