------------------------------ MODULE StreamState ------------------------------
(***************************************************************************)
(* The part of a session that outlives its connections                     *)
(* (src/src/session/stream_state): both byte streams and the life cycle    *)
(* Detached -> Live -> Detached ... -> Reaped.  The agent and the client   *)
(* each own one, so a stream state is a value and the class's methods are  *)
(* operators on it.                                                        *)
(*                                                                         *)
(*   out, in     Output_ and Input_                                        *)
(*   state       State_                                                    *)
(*   overflow    Overflow_: what a full buffer does while detached         *)
(*   conn        Generation_, the number of the last attached connection   *)
(*   since       DetachedSince_                                            *)
(*   reason      ReapReason_, "none" until the session is reaped           *)
(*                                                                         *)
(* `lim' is the policy the session runs under (SessionLimits): resend,     *)
(* disconnect and orphan (0 for "never").  The storage is as large as the  *)
(* larger of the two buffer limits, as both executables allocate it.       *)
(***************************************************************************)
EXTENDS SendBuffer, ReceiveCursor

OverflowModes == {"Reap", "Backpressure", "Resync"}

KillReasons == {"DisconnectBufferOverflow", "PeerBehindBuffer",
                "OrphanTimeout", "SessionReaped"}

States == {"Detached", "Live", "Reaped"}

Reasons == KillReasons \cup {"none"}

Buffers == [log : Seq(Nat), base : Nat, next : Nat, gen : Nat,
            overflowed : BOOLEAN]

Cursors == [recv : Nat, pending : Nat, onDelivery : BOOLEAN]

Streams == [out : Buffers, in : Cursors, state : States,
            overflow : OverflowModes, conn : Nat, since : Nat,
            reason : Reasons]

NewStream(overflow, onDelivery, now) ==
    [out |-> NewBuffer, in |-> NewCursor(onDelivery), state |-> "Detached",
     overflow |-> overflow, conn |-> 0, since |-> now, reason |-> "none"]

Capacity(lim) ==
    IF lim.resend >= lim.disconnect THEN lim.resend ELSE lim.disconnect

\* Fault: the disconnected ceiling applies while live as well.
WriteRoomUnbounded(s, lim) ==
    AtMost(lim.disconnect - AtMost(Size(s.out), lim.disconnect),
           Room(s.out, Capacity(lim)))

\* Bytes Write may still hold: the ceiling of the state, within the ring.
WriteRoom(s, lim) ==
    LET ceiling == IF s.state = "Live" THEN lim.resend ELSE lim.disconnect
        held    == Size(s.out)
    IN AtMost(IF held < ceiling THEN ceiling - held ELSE 0,
              Room(s.out, Capacity(lim)))

Reap(s, reason) ==
    IF s.state = "Reaped" THEN s
    ELSE [s EXCEPT !.state = "Reaped", !.reason = reason]

\* Write: how many bytes were taken, the error if it failed, and the stream.
Write(s, bytes, lim) ==
    LET room   == WriteRoom(s, lim)
        fits   == SubSeq(bytes, 1, AtMost(Len(bytes), room))
        stored == Append_(s.out, fits, Capacity(lim))
        over   == s.state = "Detached" /\ Len(bytes) > room
        resync == s.state = "Detached" /\ s.overflow = "Resync"
        Wrote(err, taken, t) == [err |-> err, taken |-> taken, stream |-> t]
    IN IF s.state = "Reaped" THEN Wrote("SessionReaped", 0, s)
       ELSE IF resync /\ s.out.overflowed THEN Wrote("ok", Len(bytes), s)
       ELSE IF over /\ s.overflow = "Reap"
            THEN Wrote("DisconnectBufferOverflow", 0,
                       Reap(s, "DisconnectBufferOverflow"))
       ELSE IF over /\ resync
            THEN Wrote("ok", Len(bytes),
                       [s EXCEPT !.out = SetRingOverflowed(stored)])
       ELSE Wrote("ok", Len(fits), [s EXCEPT !.out = stored])

\* Whether the owner of the stream should go on reading its local source.
AcceptsWrites(s, lim) ==
    LET Below(max) == Size(s.out) < max /\ Room(s.out, Capacity(lim)) > 0
    IN \/ s.state = "Live" /\ Below(lim.resend)
       \/ /\ s.state = "Detached"
          /\ s.overflow = "Reap" \/ s.out.overflowed \/ Below(lim.disconnect)

\* OnTimer: the orphan deadline, which only a detached session has.
OrphanExpired(s, lim, now) ==
    s.state = "Detached" /\ lim.orphan # 0 /\ now >= s.since + lim.orphan

OnTimer(s, lim, now) ==
    IF OrphanExpired(s, lim, now) THEN Reap(s, "OrphanTimeout") ELSE s

\* grid: version 2 was negotiated and the peer announced GRID_CAPABLE.
SetOverflowMode(s, grid) ==
    [s EXCEPT !.overflow = IF grid THEN "Resync" ELSE "Reap"]

Attached(s, out) == [s EXCEPT !.out = out, !.state = "Live", !.conn = @ + 1]

\* Attach: the peer holds our stream up to `peer'; resending starts there.
Attach(s, peer) ==
    LET reset == ResetSendNext(s.out, peer)
    IN IF s.state = "Reaped" THEN [err |-> "SessionReaped", stream |-> s]
       ELSE IF reset.err # "ok" THEN [err |-> reset.err, stream |-> s]
       ELSE [err |-> "ok", stream |-> Attached(s, reset.buf)]

\* Fault: a reaped session is attached again.
AttachPathBAlways(s) == [err |-> "ok", stream |-> Attached(s, s.out)]

\* Path B leaves the buffer alone: a snapshot is about to replace it.
AttachPathB(s) ==
    IF s.state = "Reaped" THEN [err |-> "SessionReaped", stream |-> s]
    ELSE [err |-> "ok", stream |-> Attached(s, s.out)]

IsCurrent(s, conn) == s.state = "Live" /\ conn = s.conn

\* Fault: a superseded connection detaches its successor.
DetachAny(s, conn, now) ==
    IF s.state = "Live" THEN [s EXCEPT !.state = "Detached", !.since = now]
    ELSE s

\* Fault: the orphan clock is not restarted.
DetachKeepsClock(s, conn, now) ==
    IF IsCurrent(s, conn) THEN [s EXCEPT !.state = "Detached"] ELSE s

\* Only the connection that carries the session can detach it.
Detach(s, conn, now) ==
    IF IsCurrent(s, conn) THEN [s EXCEPT !.state = "Detached", !.since = now]
    ELSE s
===============================================================================
