------------------------------ MODULE MCSession ------------------------------
(* Plans of the runs of Session. *)
EXTENDS Session

Short == [conns |-> 2, out |-> 0, in |-> 2, resizes |-> 0, read |-> 1, payload |-> 2,
          link |-> 1, disconnect |-> 2, size |-> 1,
          grid |-> FALSE, waits |-> FALSE, overlap |-> TRUE]

\* Input, two overlapping connections, the pty's queue at its limit.
MCInput == {Short}

\* Output that overflows, snapshots supplied at once: three overlapping
\* connections, or two with more output and bytes the agent has to hold back.
MCGrid == {[Short EXCEPT !.conns = 3, !.out = 2, !.in = 0, !.read = 1, !.payload = 1,
                         !.disconnect = 1, !.grid = TRUE],
           [Short EXCEPT !.out = 3, !.in = 0, !.read = 2, !.grid = TRUE]}

\* Snapshots that may wait, connections in order: a window that changes, or
\* bytes the agent has to hold back.
MCInOrder == {[Short EXCEPT !.conns = 3, !.out = 3, !.in = 0, !.resizes = 1,
                            !.payload = 1, !.size = 2, !.grid = TRUE,
                            !.waits = TRUE, !.overlap = FALSE],
              [Short EXCEPT !.out = 3, !.in = 0, !.read = 3, !.grid = TRUE,
                            !.waits = TRUE, !.overlap = FALSE]}

\* Output that goes on after a snapshot, to a client that had some before it.
MCAfter == {[Short EXCEPT !.out = 4, !.in = 0, !.read = 2, !.disconnect = 1,
                          !.grid = TRUE, !.overlap = FALSE]}

MCSafe == MCInput \cup MCGrid \cup MCInOrder \cup MCAfter

\* One byte typed; two written, connections in order, or one, overlapping.
MCLive == {[Short EXCEPT !.out = 2, !.in = 1, !.read = 2, !.grid = TRUE, !.overlap = FALSE],
           [Short EXCEPT !.out = 1, !.in = 1, !.grid = TRUE]}

\* Snapshots that may wait and three overlapping connections.
MCHole == {[Short EXCEPT !.conns = 3, !.out = 3, !.in = 0, !.read = 3, !.payload = 1,
                         !.grid = TRUE, !.waits = TRUE]}

\* The same with two connections, longer frames and more of them in flight.
MCLate == {[Short EXCEPT !.out = 2, !.in = 0, !.read = 2, !.link = 2, !.grid = TRUE,
                         !.waits = TRUE]}
=============================================================================
