------------------------------- MODULE Terminal -------------------------------
(***************************************************************************)
(* What a session promises its user: a terminal on a shell, as if nothing  *)
(* lay between them.  There are no connections, buffers, generations or    *)
(* snapshots here; module Session implements this specification.           *)
(*                                                                         *)
(* The i-th byte typed and the i-th byte written are both the number i.    *)
(***************************************************************************)
EXTENDS Naturals, Sequences

VARIABLES typed,     \* what the user typed
          read,      \* what the shell has read of it
          written,   \* how many bytes the shell has written
          shown,     \* what the terminal shows of them
          gone,      \* the shell has exited
          over       \* the user was told so

vars == <<typed, read, written, shown, gone, over>>

FirstBytes(n) == [i \in 1..n |-> i]

Init ==
    /\ typed = <<>> /\ read = <<>> /\ written = 0 /\ shown = <<>>
    /\ gone = FALSE /\ over = FALSE

Type ==
    /\ ~over
    /\ typed' = Append(typed, Len(typed) + 1)
    /\ UNCHANGED <<read, written, shown, gone, over>>

\* Each byte typed is read once, in order.
Read ==
    /\ ~gone /\ Len(read) < Len(typed)
    /\ read' = Append(read, typed[Len(read) + 1])
    /\ UNCHANGED <<typed, written, shown, gone, over>>

Write ==
    /\ ~gone /\ written' > written
    /\ UNCHANGED <<typed, read, shown, gone, over>>

\* The screen catches up by any amount, and never goes back.
Show ==
    /\ ~over
    /\ Len(shown') > Len(shown) /\ Len(shown') <= written
    /\ shown' = FirstBytes(Len(shown'))
    /\ UNCHANGED <<typed, read, written, gone, over>>

Exit ==
    /\ ~gone /\ gone' = TRUE
    /\ UNCHANGED <<typed, read, written, shown, over>>

\* The end is told only to a user who has seen everything.
Leave ==
    /\ gone /\ ~over /\ Len(shown) = written
    /\ over' = TRUE
    /\ UNCHANGED <<typed, read, written, shown, gone>>

Next == Type \/ Read \/ Write \/ Show \/ Exit \/ Leave

Spec == Init /\ [][Next]_vars
===============================================================================
