----------------------------- MODULE FrameStream -----------------------------
(***************************************************************************)
(* Reassembly of frames out of a TCP stream (src/src/wire/frame_stream and *)
(* frame) as a value.  The bytes of a frame f are the pairs <<f, i>>, the  *)
(* first HeaderSize of them the header, so that any cut of the stream into *)
(* chunks is told apart and a frame put together wrongly is noticed.       *)
(***************************************************************************)
EXTENDS Naturals, Sequences

CONSTANTS HeaderSize,           \* HEADER_SIZE
          MaxHandshakeFrame,    \* MAX_HANDSHAKE_FRAME
          MaxFrame              \* MAX_FRAME, which the storage has room for

ASSUME FrameLimitsAssumption ==
    /\ HeaderSize \in Nat \ {0}
    /\ MaxHandshakeFrame \in Nat \ {0} /\ MaxFrame \in Nat
    /\ MaxHandshakeFrame <= MaxFrame

\* The bytes of a frame, whose body has f.length of them.
Bytes(f) == [i \in 1..(HeaderSize + f.length) |-> <<f, i>>]

\* held: the bytes in Storage_; pending: those of the frame last handed out;
\* limit: MaxBodyLength_.
NewStream == [held |-> <<>>, pending |-> 0, limit |-> MaxHandshakeFrame]

Capacity(s) == HeaderSize + s.limit

\* Buffered: what is held back for the rest of a frame; the rest is ReadRoom.
ReadRoom(s) == Capacity(s) - (Len(s.held) - s.pending)

DropPending(s) ==
    [s EXCEPT !.held = SubSeq(@, s.pending + 1, Len(@)), !.pending = 0]

\* Fault: the limit of the handshake stays.
RaiseLimitNot(s) == s

RaiseLimit(s) == [s EXCEPT !.limit = MaxFrame]

\* FrameStream::Append.
Appended(s, chunk) ==
    LET d == DropPending(s)
    IN IF Len(chunk) > Capacity(d) - Len(d.held)
       THEN [err |-> "LengthLimitExceeded", stream |-> s]
       ELSE [err |-> "ok", stream |-> [d EXCEPT !.held = @ \o chunk]]

\* ReadFrame: the length is checked before the body is looked for.
ReadFrame(held, limit) ==
    IF Len(held) < HeaderSize THEN "Truncated"
    ELSE LET length == held[1][1].length
         IN IF length > limit THEN "LengthLimitExceeded"
            ELSE IF length = 0 THEN "MalformedField"
            ELSE IF Len(held) < HeaderSize + length THEN "Truncated"
            ELSE "ok"

\* FrameStream::Next: err is "Truncated" when there is no whole frame yet.  What
\* is handed out is the body as the bytes spell it, nonsense when they are not
\* those of one frame.
NextFrame(s) ==
    LET d == DropPending(s)
        err == ReadFrame(d.held, d.limit)
        f == d.held[1][1]
        spelled == SubSeq(d.held, 1, HeaderSize + f.length)
    IN IF err # "ok" THEN [err |-> err, stream |-> d]
       ELSE [err |-> "ok",
             body |-> IF spelled = Bytes(f) THEN f.body ELSE [type |-> "nonsense"],
             stream |-> [d EXCEPT !.pending = HeaderSize + f.length]]
=============================================================================
