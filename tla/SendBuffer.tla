------------------------------ MODULE SendBuffer ------------------------------
(***************************************************************************)
(* The outgoing half of a session's stream (src/src/session/send_buffer):  *)
(* unacknowledged plaintext held by absolute offset.  A buffer is a value, *)
(* and every method of the class is an operator from buffers to buffers,   *)
(* so that the agent and the client can each own one.                      *)
(*                                                                         *)
(*   log         every byte appended in this output generation; the byte   *)
(*               at absolute offset i is log[i + 1] and End is Len(log)    *)
(*   base, next  Base_ and SendNext_                                       *)
(*   gen         SessionGen_                                               *)
(*   overflowed  RingOverflowed_                                           *)
(*                                                                         *)
(* Only the window base .. End - 1 of the log may be read (CopyOut).  That *)
(* the ring of `cap' slots really holds this window is module SendRing.    *)
(***************************************************************************)
EXTENDS Naturals, Sequences

NewBuffer == [log |-> <<>>, base |-> 0, next |-> 0,
              gen |-> 0, overflowed |-> FALSE]

End(b) == Len(b.log)

Size(b) == End(b) - b.base

Room(b, cap) == cap - Size(b)

Unsent(b) == End(b) - b.next

AtMost(m, n) == IF m <= n THEN m ELSE n

\* Append takes what fits and nothing more.
Append_(b, bytes, cap) ==
    [b EXCEPT !.log = @ \o SubSeq(bytes, 1, AtMost(Len(bytes), Room(b, cap)))]

\* The only error of Acknowledge; Outcome pairs a buffer with an error or "ok".
Outcome(err, b) == [err |-> err, buf |-> b]

Acknowledge(b, ack) ==
    IF ack <= b.base THEN Outcome("ok", b)
    ELSE IF ack > End(b) THEN Outcome("AckBeyondSent", b)
    ELSE Outcome("ok", [b EXCEPT !.base = ack,
                                 !.next = IF @ < ack THEN ack ELSE @])

\* Up to n bytes from absolute offset `from', empty outside the window.
CopyOut(b, from, n) ==
    IF from < b.base \/ from >= End(b) THEN <<>>
    ELSE SubSeq(b.log, from + 1, AtMost(from + n, End(b)))

\* Fault: resending starts where sending stopped.
ResetSendNextGoesOn(b, peer) ==
    IF peer > End(b) THEN Outcome("AckBeyondSent", b)
    ELSE IF peer < b.base THEN Outcome("PeerBehindBuffer", b)
    ELSE Outcome("ok", Acknowledge(b, peer).buf)

ResetSendNext(b, peer) ==
    IF peer > End(b) THEN Outcome("AckBeyondSent", b)
    ELSE IF peer < b.base THEN Outcome("PeerBehindBuffer", b)
    ELSE Outcome("ok", [Acknowledge(b, peer).buf EXCEPT !.next = peer])

AdvanceSendNext(b, n) == [b EXCEPT !.next = AtMost(@ + n, End(b))]

\* Fault: the overflow is not recorded.
SetRingOverflowedNot(b) == b

SetRingOverflowed(b) == [b EXCEPT !.overflowed = TRUE]

NewGeneration(b) == [NewBuffer EXCEPT !.gen = b.gen + 1]
===============================================================================
