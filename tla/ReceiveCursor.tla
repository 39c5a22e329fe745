----------------------------- MODULE ReceiveCursor -----------------------------
(***************************************************************************)
(* The incoming half of a session's stream (src/src/session/receive_cursor)*)
(* as a value:                                                             *)
(*                                                                         *)
(*   recv        RecvOffset_, how much of the peer's stream has arrived    *)
(*   pending     Pending_, arrived but not yet taken by the consumer       *)
(*   onDelivery  the ack policy: TRUE on the agent, which acknowledges     *)
(*               input when the pty takes it, FALSE on the client          *)
(***************************************************************************)
EXTENDS Naturals, Sequences

CONSTANT OffsetMax      \* the largest stream offset, 2^64 - 1 in the code

ASSUME OffsetMaxAssumption == OffsetMax \in Nat

NewCursor(onDelivery) == [recv |-> 0, pending |-> 0, onDelivery |-> onDelivery]

\* Fault: input is acknowledged on arrival.
AckOffsetOnArrival(r) == r.recv

\* What the peer may forget.
AckOffset(r) == r.recv - r.pending

\* A frame of `bytes' at `offset': a gap, or an end past the last offset, is an
\* error; a duplicate is dropped and of a frame that straddles recv only the
\* new tail is handed on.
Receive(r, offset, bytes) ==
    LET end  == offset + Len(bytes)
        tail == SubSeq(bytes, r.recv - offset + 1, Len(bytes))
    IN IF end > OffsetMax \/ offset > r.recv
       THEN [err |-> "StreamGap", cur |-> r, new |-> <<>>]
       ELSE IF end <= r.recv THEN [err |-> "ok", cur |-> r, new |-> <<>>]
       ELSE [err |-> "ok", new |-> tail,
             cur |-> [r EXCEPT !.recv = end,
                               !.pending = IF r.onDelivery THEN @ + Len(tail)
                                           ELSE @]]

\* Fault: one byte too many is counted as delivered.
MarkDeliveredOneMore(r, n) == [r EXCEPT !.pending = @ - n - 1]

\* The consumer took n of the pending bytes; refused when it never had them.
MarkDelivered(r, n) == IF n > r.pending THEN r ELSE [r EXCEPT !.pending = @ - n]

\* The consumer had no room for the last n bytes: they were not received.
Unreceive(r, n) ==
    IF n > r.pending THEN r
    ELSE [r EXCEPT !.pending = @ - n, !.recv = @ - n]

\* A snapshot was applied: the new output generation starts at zero.
Reset(r, offset) == [r EXCEPT !.recv = offset, !.pending = 0]
===============================================================================
