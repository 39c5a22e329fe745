------------------------ MODULE StreamLifecycle_proofs ------------------------
(***************************************************************************)
(* Proofs about the life cycle of a stream, for every value of the limits  *)
(* and of the bounds.  First what each method of SendBuffer preserves,     *)
(* then what Write and Attach do to a whole stream, then the inductive     *)
(* invariant.                                                              *)
(***************************************************************************)
EXTENDS StreamLifecycle, TLAPS

(* send_buffer.hpp's invariant, for a ring of cap bytes.                   *)
BufferOK(b, cap) ==
    /\ b \in Buffers
    /\ b.base <= b.next /\ b.next <= Len(b.log)
    /\ Len(b.log) - b.base <= cap

(***************************************************************************)
(* The window of a buffer that keeps its invariant has a natural size.     *)
(***************************************************************************)
LEMMA SizeIsNat ==
    ASSUME NEW b, NEW cap, BufferOK(b, cap)
    PROVE  Size(b) \in Nat
  <1>1. b.base \in Nat /\ Len(b.log) \in Nat /\ b.next \in Nat
    BY DEF BufferOK, Buffers
  <1>2. b.base <= Len(b.log)
    BY <1>1 DEF BufferOK
  <1> QED BY <1>1, <1>2 DEF Size, End

(***************************************************************************)
(* Acknowledge keeps the buffer's invariant and never touches the bytes.   *)
(***************************************************************************)
LEMMA AcknowledgeOK ==
    ASSUME NEW b, NEW cap \in Nat, BufferOK(b, cap), NEW ack \in Nat
    PROVE  /\ BufferOK(Acknowledge(b, ack).buf, cap)
           /\ Acknowledge(b, ack).buf.log = b.log
           /\ Acknowledge(b, ack).buf.overflowed = b.overflowed
           /\ Size(Acknowledge(b, ack).buf) <= Size(b)
  <1>1. CASE ack <= b.base \/ ack > Len(b.log)
    BY <1>1 DEF Acknowledge, Outcome, BufferOK, Buffers, End, Size
  <1>2. CASE b.base < ack /\ ack <= Len(b.log)
    <2> DEFINE a == [b EXCEPT !.base = ack, !.next = IF @ < ack THEN ack ELSE @]
    <2>1. Acknowledge(b, ack).buf = a
      BY <1>2 DEF Acknowledge, Outcome, BufferOK, Buffers, End
    <2>2. a \in Buffers /\ a.base = ack /\ a.log = b.log /\ a.overflowed = b.overflowed
          /\ a.next = IF b.next < ack THEN ack ELSE b.next
      BY DEF BufferOK, Buffers
    <2>3. b.base \in Nat /\ b.next \in Nat /\ Len(b.log) \in Nat
          /\ b.next <= Len(b.log) /\ Len(b.log) - b.base <= cap
      BY DEF BufferOK, Buffers
    <2> HIDE DEF a
    <2>4. /\ a.base <= a.next /\ a.next <= Len(a.log)
          /\ Len(a.log) - a.base <= cap /\ Len(a.log) - a.base <= Len(b.log) - b.base
      BY <1>2, <2>2, <2>3
    <2> QED BY <2>1, <2>2, <2>4 DEF BufferOK, Size, End
  <1> QED BY <1>1, <1>2 DEF BufferOK, Buffers

(***************************************************************************)
(* ResetSendNext fails and changes nothing, or keeps the invariant and     *)
(* the bytes.                                                              *)
(***************************************************************************)
LEMMA ResetSendNextOK ==
    ASSUME NEW b, NEW cap \in Nat, BufferOK(b, cap), NEW peer \in Nat
    PROVE  LET r == ResetSendNext(b, peer) IN
           /\ r.err \in {"ok", "AckBeyondSent", "PeerBehindBuffer"}
           /\ BufferOK(r.buf, cap)
           /\ r.buf.log = b.log /\ r.buf.overflowed = b.overflowed
           /\ Size(r.buf) <= Size(b)
  <1>1. CASE peer > Len(b.log) \/ peer < b.base
    BY <1>1 DEF ResetSendNext, Outcome, BufferOK, Buffers, End, Size
  <1>2. CASE b.base <= peer /\ peer <= Len(b.log)
    <2> DEFINE a == Acknowledge(b, peer).buf
               c == [a EXCEPT !.next = peer]
    <2>1. ResetSendNext(b, peer) = Outcome("ok", c)
      BY <1>2 DEF ResetSendNext, BufferOK, Buffers, End
    <2>2. BufferOK(a, cap) /\ a.log = b.log /\ a.overflowed = b.overflowed /\ Size(a) <= Size(b)
      BY AcknowledgeOK
    <2>3. a.base = peer
      BY <1>2 DEF Acknowledge, Outcome, BufferOK, Buffers, End
    <2> HIDE DEF a
    <2>4. c \in Buffers /\ c.next = peer /\ c.base = a.base /\ c.log = a.log
          /\ c.overflowed = a.overflowed
      BY <2>2 DEF BufferOK, Buffers
    <2> HIDE DEF c
    <2> QED BY <1>2, <2>1, <2>2, <2>3, <2>4 DEF Outcome, BufferOK, Buffers, Size, End
  <1> QED BY <1>1, <1>2 DEF BufferOK, Buffers

(***************************************************************************)
(* AdvanceSendNext stays inside the window.                                *)
(***************************************************************************)
LEMMA AdvanceSendNextOK ==
    ASSUME NEW b, NEW cap \in Nat, BufferOK(b, cap), NEW n \in Nat
    PROVE  /\ BufferOK(AdvanceSendNext(b, n), cap)
           /\ AdvanceSendNext(b, n).log = b.log
           /\ AdvanceSendNext(b, n).overflowed = b.overflowed
           /\ Size(AdvanceSendNext(b, n)) = Size(b)
  <1> DEFINE to == AtMost(b.next + n, Len(b.log))
             a  == [b EXCEPT !.next = to]
  <1>1. to \in Nat /\ b.next <= to /\ to <= Len(b.log)
    BY DEF AtMost, BufferOK, Buffers
  <1>2. AdvanceSendNext(b, n) = a
    BY DEF AdvanceSendNext, End
  <1> HIDE DEF to
  <1>3. a \in Buffers /\ a.next = to /\ a.base = b.base /\ a.log = b.log
        /\ a.overflowed = b.overflowed
    BY <1>1 DEF BufferOK, Buffers
  <1> HIDE DEF a
  <1> QED BY <1>1, <1>2, <1>3 DEF BufferOK, Buffers, Size, End

(***************************************************************************)
(* A new output generation is an empty buffer.                             *)
(***************************************************************************)
LEMMA NewGenerationOK ==
    ASSUME NEW b, NEW cap \in Nat, BufferOK(b, cap)
    PROVE  BufferOK(NewGeneration(b), cap) /\ Len(NewGeneration(b).log) = 0
           /\ Size(NewGeneration(b)) = 0
  <1> DEFINE e == NewBuffer
  <1>1. e \in Buffers /\ Len(e.log) = 0 /\ e.base = 0 /\ e.next = 0
    BY DEF NewBuffer, Buffers
  <1>2. NewGeneration(b) = [e EXCEPT !.gen = b.gen + 1]
    BY DEF NewGeneration
  <1> HIDE DEF e
  <1> DEFINE g == b.gen + 1
             a == [e EXCEPT !.gen = g]
  <1>3. g \in Nat
    BY DEF BufferOK, Buffers
  <1> HIDE DEF g
  <1>4. a \in Buffers /\ a.log = e.log /\ a.base = e.base /\ a.next = e.next
    BY <1>1, <1>3 DEF Buffers
  <1> USE DEF g
  <1> HIDE DEF a
  <1> QED BY <1>1, <1>2, <1>4 DEF BufferOK, Size, End, a

(***************************************************************************)
(* Append of a chunk that fits holds all of it.                            *)
(***************************************************************************)
LEMMA AppendOK ==
    ASSUME NEW b, NEW cap \in Nat, BufferOK(b, cap), NEW bytes \in Seq(Nat),
           Len(bytes) <= cap - Size(b)
    PROVE  /\ BufferOK(Append_(b, bytes, cap), cap)
           /\ Len(Append_(b, bytes, cap).log) = Len(b.log) + Len(bytes)
           /\ Append_(b, bytes, cap).overflowed = b.overflowed
           /\ Append_(b, bytes, cap).base = b.base
  <1>1. SubSeq(bytes, 1, AtMost(Len(bytes), Room(b, cap))) = bytes
    <2>1. AtMost(Len(bytes), Room(b, cap)) = Len(bytes)
      BY DEF AtMost, Room
    <2> QED BY <2>1
  <1>2. Append_(b, bytes, cap) = [b EXCEPT !.log = @ \o bytes]
    BY <1>1 DEF Append_
  <1>3. b.log \o bytes \in Seq(Nat) /\ Len(b.log \o bytes) = Len(b.log) + Len(bytes)
    BY DEF BufferOK, Buffers
  <1> DEFINE a == [b EXCEPT !.log = @ \o bytes]
  <1>4. a \in Buffers /\ a.log = b.log \o bytes /\ a.base = b.base /\ a.next = b.next
        /\ a.overflowed = b.overflowed
    BY <1>3 DEF BufferOK, Buffers
  <1> HIDE DEF a
  <1> QED BY <1>2, <1>3, <1>4 DEF BufferOK, Buffers, Size, End, a

-------------------------------------------------------------------------------
(* A stream whose output buffer satisfies its invariant.                   *)
StreamOK(s) == s \in Streams /\ BufferOK(s.out, Capacity(Limits))

(* The storage is as large as either limit (Agent's Storage_).             *)
LEMMA CapacityOK ==
    Capacity(Limits) \in Nat /\ Limits.resend = ResendMax
    /\ Limits.disconnect = DisconnectMax /\ Limits.orphan = OrphanTimeout
  BY LimitsAssumption DEF Capacity, Limits

(***************************************************************************)
(* Replacing the buffer of a stream leaves the rest of it alone.           *)
(***************************************************************************)
LEMMA NewOutOK ==
    ASSUME NEW s, StreamOK(s), NEW b, BufferOK(b, Capacity(Limits))
    PROVE  LET t == [s EXCEPT !.out = b] IN
           /\ StreamOK(t) /\ t.out = b
           /\ t.state = s.state /\ t.reason = s.reason /\ t.conn = s.conn
           /\ t.since = s.since
  BY DEF StreamOK, Streams, BufferOK

(***************************************************************************)
(* Reap ends a stream once and touches nothing but state and reason.       *)
(***************************************************************************)
LEMMA ReapOK ==
    ASSUME NEW s, StreamOK(s), NEW reason \in KillReasons
    PROVE  LET t == Reap(s, reason) IN
           /\ StreamOK(t) /\ t.out = s.out /\ t.conn = s.conn /\ t.since = s.since
           /\ t.state = "Reaped"
           /\ t.reason = IF s.state = "Reaped" THEN s.reason ELSE reason
  <1>1. CASE s.state = "Reaped"
    BY <1>1 DEF Reap
  <1>2. CASE s.state # "Reaped"
    <2> DEFINE t == [s EXCEPT !.state = "Reaped", !.reason = reason]
    <2>1. Reap(s, reason) = t
      BY <1>2 DEF Reap
    <2>2. t \in Streams /\ t.out = s.out /\ t.conn = s.conn /\ t.since = s.since
          /\ t.state = "Reaped" /\ t.reason = reason
      BY DEF StreamOK, Streams, States, Reasons
    <2> HIDE DEF t
    <2> QED BY <1>2, <2>1, <2>2 DEF StreamOK
  <1> QED BY <1>1, <1>2

(* What Write may do to stream s when it takes `took' bytes.               *)
Wrote(s, t, took) ==
    /\ StreamOK(t) /\ took \in Nat
    /\ t.conn = s.conn /\ t.since = s.since
    /\ \/ t.state = s.state /\ t.reason = s.reason
       \/ s.state = "Detached" /\ t.state = "Reaped"
          /\ t.reason = "DisconnectBufferOverflow"
    /\ \/ t.out.overflowed
       \/ ~s.out.overflowed /\ Len(t.out.log) = Len(s.out.log) + took
    /\ s.state = "Live" /\ Size(t.out) > Size(s.out) => Size(t.out) <= ResendMax

(***************************************************************************)
(* Write takes a byte only if it holds it or has marked the overflow, and  *)
(* while live it never grows the window past ResendMax.                    *)
(***************************************************************************)
LEMMA WriteOK ==
    ASSUME NEW s, StreamOK(s), NEW bytes \in Seq(Nat)
    PROVE  LET w == Write(s, bytes, Limits) IN Wrote(s, w.stream, w.taken)
  <1> DEFINE room   == WriteRoom(s, Limits)
             fits   == SubSeq(bytes, 1, AtMost(Len(bytes), room))
             stored == Append_(s.out, fits, Capacity(Limits))
             over   == s.state = "Detached" /\ Len(bytes) > room
             resync == s.state = "Detached" /\ s.overflow = "Resync"
             w      == Write(s, bytes, Limits)
             cap    == Capacity(Limits)
  <1> SUFFICES Wrote(s, w.stream, w.taken)
    OBVIOUS
  <1>c. cap \in Nat /\ BufferOK(s.out, cap)
    BY CapacityOK DEF StreamOK
  <1>h. Size(s.out) \in Nat /\ Room(s.out, cap) \in Nat
    BY <1>c DEF BufferOK, Buffers, Size, End, Room
  <1>r. /\ room \in Nat /\ room <= cap - Size(s.out)
        /\ s.state = "Live" =>
             Size(s.out) + room <= ResendMax \/ room = 0
    <2> HIDE DEF cap
    <2> QED BY <1>c, <1>h, CapacityOK, LimitsAssumption DEF WriteRoom, AtMost, Room, cap
  <1> HIDE DEF room, cap
  <1>f. fits \in Seq(Nat) /\ Len(fits) <= room /\ Len(fits) \in Nat
    <2> DEFINE m == AtMost(Len(bytes), room)
    <2>1. m \in 0 .. Len(bytes) /\ m <= room
      BY <1>r DEF AtMost
    <2> HIDE DEF m
    <2>2. SubSeq(bytes, 1, m) \in Seq(Nat) /\ Len(SubSeq(bytes, 1, m)) = m
      BY <2>1
    <2> QED BY <2>1, <2>2 DEF m
  <1> HIDE DEF fits
  <1>a. /\ BufferOK(stored, cap) /\ Len(stored.log) = Len(s.out.log) + Len(fits)
        /\ stored.overflowed = s.out.overflowed /\ stored.base = s.out.base
    <2>1. Len(fits) <= cap - Size(s.out)
      BY <1>c, <1>h, <1>r, <1>f
    <2> HIDE DEF w, over, resync
    <2> QED BY <1>c, <1>f, <2>1, AppendOK DEF cap
  <1> HIDE DEF stored
  <1>k. 0 \in Nat /\ Len(s.out.log) = Len(s.out.log) + 0 /\ ~(Size(s.out) > Size(s.out))
    BY <1>c, <1>h DEF BufferOK, Buffers
  <1>1. CASE s.state = "Reaped"
    <2>1. w.stream = s /\ w.taken = 0
      BY <1>1 DEF Write
    <2> HIDE DEF w
    <2> QED BY <1>1, <1>k, <2>1 DEF Wrote
  <1>2. CASE s.state # "Reaped" /\ resync /\ s.out.overflowed
    <2>1. w.stream = s /\ w.taken = Len(bytes)
      BY <1>2 DEF Write
    <2> HIDE DEF w
    <2>2. Len(bytes) \in Nat
      OBVIOUS
    <2> QED BY <1>2, <2>1, <2>2 DEF Wrote
  <1>3. CASE /\ s.state # "Reaped" /\ ~(resync /\ s.out.overflowed)
             /\ over /\ s.overflow = "Reap"
    <2>1. w.stream = Reap(s, "DisconnectBufferOverflow") /\ w.taken = 0
      BY <1>3 DEF Write, room
    <2> HIDE DEF w
    <2>2. LET t == w.stream IN
          /\ StreamOK(t) /\ t.out = s.out /\ t.conn = s.conn /\ t.since = s.since
          /\ t.state = "Reaped" /\ t.reason = "DisconnectBufferOverflow"
      BY <1>3, <2>1, ReapOK DEF KillReasons
    <2> QED BY <1>3, <1>k, <2>1, <2>2 DEF Wrote
  <1>4. CASE /\ s.state # "Reaped" /\ ~(resync /\ s.out.overflowed)
             /\ over /\ resync
    <2> DEFINE b == SetRingOverflowed(stored)
    <2>1. w.stream = [s EXCEPT !.out = b] /\ w.taken = Len(bytes)
      BY <1>4 DEF Write, room, fits, stored
    <2>2. BufferOK(b, cap) /\ b.overflowed
      BY <1>a DEF SetRingOverflowed, BufferOK, Buffers
    <2> HIDE DEF w, b
    <2>3. LET t == w.stream IN
          /\ StreamOK(t) /\ t.out = b /\ t.conn = s.conn /\ t.since = s.since
          /\ t.state = s.state /\ t.reason = s.reason
      BY <2>1, <2>2, NewOutOK DEF cap
    <2>4. Len(bytes) \in Nat /\ s.state # "Live"
      BY <1>4
    <2> QED BY <2>1, <2>2, <2>3, <2>4 DEF Wrote
  <1>5. CASE /\ s.state # "Reaped" /\ ~(resync /\ s.out.overflowed)
             /\ ~(over /\ s.overflow = "Reap") /\ ~(over /\ resync)
    <2>1. w.stream = [s EXCEPT !.out = stored] /\ w.taken = Len(fits)
      BY <1>5 DEF Write, room, fits, stored
    <2> HIDE DEF w
    <2>2. LET t == w.stream IN
          /\ StreamOK(t) /\ t.out = stored /\ t.conn = s.conn /\ t.since = s.since
          /\ t.state = s.state /\ t.reason = s.reason
      BY <1>a, <2>1, NewOutOK DEF cap
    <2>3. stored.overflowed \/ ~s.out.overflowed
      BY <1>a, <1>c DEF BufferOK, Buffers
    <2>4. s.state = "Live" /\ Size(stored) > Size(s.out) => Size(stored) <= ResendMax
      <3>1. Size(stored) = Size(s.out) + Len(fits)
        BY <1>a, <1>c, <1>f DEF Size, End, BufferOK, Buffers
      <3>2. ResendMax \in Nat
        BY LimitsAssumption
      <3> QED BY <1>f, <1>h, <1>r, <3>1, <3>2
    <2> QED BY <1>a, <1>f, <2>1, <2>2, <2>3, <2>4 DEF Wrote
  <1> HIDE DEF w
  <1> QED BY <1>1, <1>2, <1>3, <1>4, <1>5 DEF w

(* What attaching may do to stream s.                                      *)
Attaching(s, r) ==
    \/ /\ r.err \in {"AckBeyondSent", "PeerBehindBuffer", "SessionReaped"}
       /\ r.stream = s
       /\ s.state = "Reaped" => r.err = "SessionReaped"
    \/ /\ r.err = "ok" /\ s.state # "Reaped" /\ StreamOK(r.stream)
       /\ r.stream.state = "Live" /\ r.stream.reason = s.reason
       /\ r.stream.out.overflowed = s.out.overflowed
       /\ Len(r.stream.out.log) = Len(s.out.log)
       /\ Size(r.stream.out) <= Size(s.out)
       /\ r.stream.conn = s.conn + 1 /\ r.stream.since = s.since

(***************************************************************************)
(* Attached makes the stream live on a new connection.                     *)
(***************************************************************************)
LEMMA AttachedOK ==
    ASSUME NEW s, StreamOK(s), NEW b, BufferOK(b, Capacity(Limits))
    PROVE  LET t == Attached(s, b) IN
           /\ StreamOK(t) /\ t.out = b /\ t.state = "Live" /\ t.reason = s.reason
           /\ t.conn = s.conn + 1 /\ t.since = s.since
  <1> DEFINE n == s.conn + 1
             t == [s EXCEPT !.out = b, !.state = "Live", !.conn = n]
  <1>1. n \in Nat
    BY DEF StreamOK, Streams
  <1>2. Attached(s, b) = t
    BY DEF Attached
  <1> HIDE DEF n
  <1>3. t \in Streams /\ t.out = b /\ t.state = "Live" /\ t.reason = s.reason
        /\ t.conn = n /\ t.since = s.since
    BY <1>1 DEF StreamOK, Streams, States, BufferOK
  <1> HIDE DEF t
  <1> QED BY <1>2, <1>3 DEF StreamOK, n

(***************************************************************************)
(* Both ways to attach refuse and change nothing, or make the stream live. *)
(***************************************************************************)
LEMMA AttachOK ==
    ASSUME NEW s, StreamOK(s)
    PROVE  /\ \A peer \in Nat : Attaching(s, Attach(s, peer))
           /\ Attaching(s, AttachPathB(s))
  <1>c. Capacity(Limits) \in Nat /\ BufferOK(s.out, Capacity(Limits))
    BY CapacityOK DEF StreamOK
  <1>s. Size(s.out) <= Size(s.out)
    BY <1>c, SizeIsNat
  <1>1. ASSUME NEW peer \in Nat PROVE Attaching(s, Attach(s, peer))
    <2> DEFINE reset == ResetSendNext(s.out, peer)
               r     == Attach(s, peer)
    <2>1. /\ reset.err \in {"ok", "AckBeyondSent", "PeerBehindBuffer"}
          /\ BufferOK(reset.buf, Capacity(Limits))
          /\ reset.buf.log = s.out.log /\ reset.buf.overflowed = s.out.overflowed
          /\ Size(reset.buf) <= Size(s.out)
      BY <1>c, ResetSendNextOK
    <2>2. r = IF s.state = "Reaped" THEN [err |-> "SessionReaped", stream |-> s]
              ELSE IF reset.err # "ok" THEN [err |-> reset.err, stream |-> s]
              ELSE [err |-> "ok", stream |-> Attached(s, reset.buf)]
      BY DEF Attach
    <2> HIDE DEF reset, r
    <2>3. CASE s.state = "Reaped"
      BY <2>2, <2>3 DEF Attaching, r
    <2>4. CASE s.state # "Reaped" /\ reset.err # "ok"
      BY <2>1, <2>2, <2>4 DEF Attaching, r
    <2>5. CASE s.state # "Reaped" /\ reset.err = "ok"
      <3>1. r.err = "ok" /\ r.stream = Attached(s, reset.buf)
        BY <2>2, <2>5
      <3>2. LET t == Attached(s, reset.buf) IN
            /\ StreamOK(t) /\ t.out = reset.buf /\ t.state = "Live"
            /\ t.reason = s.reason /\ t.conn = s.conn + 1 /\ t.since = s.since
        BY <2>1, AttachedOK
      <3> QED BY <2>1, <2>5, <3>1, <3>2 DEF Attaching, r
    <2> QED BY <2>3, <2>4, <2>5
  <1>2. Attaching(s, AttachPathB(s))
    <2> DEFINE r == AttachPathB(s)
    <2>1. CASE s.state = "Reaped"
      BY <2>1 DEF Attaching, AttachPathB
    <2>2. CASE s.state # "Reaped"
      <3>1. r.err = "ok" /\ r.stream = Attached(s, s.out)
        BY <2>2 DEF AttachPathB
      <3> HIDE DEF r
      <3>2. LET t == Attached(s, s.out) IN
            /\ StreamOK(t) /\ t.out = s.out /\ t.state = "Live"
            /\ t.reason = s.reason /\ t.conn = s.conn + 1 /\ t.since = s.since
        BY <1>c, AttachedOK
      <3> QED BY <1>s, <2>2, <3>1, <3>2 DEF Attaching, r
    <2> QED BY <2>1, <2>2
  <1> QED BY <1>1, <1>2
-------------------------------------------------------------------------------
(* What the orphan clock knows: a detached stream was last carried before  *)
(* it was detached, and a live one is carried now.                         *)
ClockKept ==
    /\ st.since <= now /\ lastLive <= now
    /\ st.state = "Live" => lastLive = now
    /\ st.state = "Detached" => lastLive <= st.since
    /\ st.reason = "OrphanTimeout" => st.state = "Reaped"

LifecycleInv ==
    /\ TypeOK /\ WindowFits /\ TakenIsHeldOrMarked /\ LiveIffCarried
    /\ OrphanedOnlyAfterTimeout /\ ClockKept

(* The two action properties as formulas about one step.                   *)
StaysReaped ==
    st.state = "Reaped" =>
        st'.state = "Reaped" /\ st'.reason = st.reason /\ st'.conn = st.conn

StaysBounded ==
    st.state = "Live" /\ st'.state = "Live" /\ Size(st'.out) > Size(st.out)
        => Size(st'.out) <= ResendMax

(***************************************************************************)
(* The type invariant with the window is StreamOK with the other types.    *)
(***************************************************************************)
LEMMA TypedStream ==
    /\ TypeOK /\ WindowFits <=>
         /\ StreamOK(st) /\ now \in Nat /\ open \subseteq Nat /\ taken \in Nat
         /\ lastLive \in Nat
    /\ TypeOK' /\ WindowFits' <=>
         /\ StreamOK(st') /\ now' \in Nat /\ open' \subseteq Nat /\ taken' \in Nat
         /\ lastLive' \in Nat
  <1>1. \A s \in Streams : s.out \in Buffers
    BY DEF Streams
  <1> QED BY <1>1 DEF TypeOK, WindowFits, StreamOK, BufferOK, Size, End

(* The facts every step starts from and has to restore.                    *)
Kept == LifecycleInv' /\ StaysReaped /\ StaysBounded

(***************************************************************************)
(* A step that leaves state, reason, connection and clock alone.           *)
(***************************************************************************)
LEMMA OnlyOutMoves ==
    ASSUME LifecycleInv, StreamOK(st'), taken' \in Nat,
           UNCHANGED <<now, open, lastLive>>,
           st'.state = st.state, st'.reason = st.reason, st'.conn = st.conn,
           st'.since = st.since,
           st'.out.overflowed \/ Len(st'.out.log) = taken',
           StaysBounded
    PROVE  Kept
  <1>1. StreamOK(st) /\ now \in Nat /\ open \subseteq Nat /\ lastLive \in Nat
    BY TypedStream DEF LifecycleInv
  <1>2. TypeOK' /\ WindowFits'
    BY <1>1, TypedStream
  <1>3. TakenIsHeldOrMarked'
    BY DEF TakenIsHeldOrMarked, End
  <1>4. LiveIffCarried' /\ OrphanedOnlyAfterTimeout' /\ ClockKept'
    BY DEF LifecycleInv, LiveIffCarried, OrphanedOnlyAfterTimeout, ClockKept
  <1> QED BY <1>2, <1>3, <1>4 DEF Kept, LifecycleInv, StaysReaped

(***************************************************************************)
(* The writer, the acknowledgements and the channel keep the invariant.    *)
(***************************************************************************)
LEMMA TrafficKeeps ==
    ASSUME LifecycleInv, NEW n \in Nat,
           \/ WriterWrites(n) \/ ChannelSends(n) \/ PeerAcknowledges(n)
           \/ SnapshotSupplied
    PROVE  Kept
  <1> DEFINE cap == Capacity(Limits)
  <1>t. /\ StreamOK(st) /\ now \in Nat /\ open \subseteq Nat /\ lastLive \in Nat
        /\ taken \in Nat
    BY TypedStream DEF LifecycleInv
  <1>c. cap \in Nat /\ BufferOK(st.out, cap)
    BY <1>t, CapacityOK DEF StreamOK
  <1>h. st.out.overflowed \/ Len(st.out.log) = taken
    BY DEF LifecycleInv, TakenIsHeldOrMarked, End
  <1>1. CASE WriterWrites(n)
    <2> DEFINE w == Write(st, Chunk(n), Limits)
    <2>1. Chunk(n) \in Seq(Nat)
      BY <1>t DEF Chunk
    <2>2. Wrote(st, w.stream, w.taken)
      BY <1>t, <2>1, WriteOK
    <2> HIDE DEF w
    <2>3. st' = w.stream /\ taken' = taken + w.taken /\ UNCHANGED <<now, open, lastLive>>
      BY <1>1 DEF WriterWrites, w
    <2>4. taken' \in Nat /\ StreamOK(st')
      BY <1>t, <2>2, <2>3 DEF Wrote
    <2>5. st'.out.overflowed \/ Len(st'.out.log) = taken'
      BY <1>h, <2>2, <2>3 DEF Wrote
    <2>6. StaysBounded
      BY <2>2, <2>3 DEF Wrote, StaysBounded
    <2>7. CASE st'.state = st.state /\ st'.reason = st.reason
      BY <2>2, <2>3, <2>4, <2>5, <2>6, <2>7, OnlyOutMoves DEF Wrote
    <2>8. CASE /\ st.state = "Detached" /\ st'.state = "Reaped"
               /\ st'.reason = "DisconnectBufferOverflow"
      <3>1. TypeOK' /\ WindowFits'
        BY <1>t, <2>3, <2>4, TypedStream
      <3>2. TakenIsHeldOrMarked'
        BY <2>5 DEF TakenIsHeldOrMarked, End
      <3>3. st'.since = st.since
        BY <2>2, <2>3 DEF Wrote
      <3>4. LiveIffCarried' /\ OrphanedOnlyAfterTimeout' /\ ClockKept'
        BY <2>3, <2>8, <3>3 DEF LifecycleInv, LiveIffCarried, OrphanedOnlyAfterTimeout,
                                ClockKept
      <3> QED BY <2>6, <2>8, <3>1, <3>2, <3>4 DEF Kept, LifecycleInv, StaysReaped
    <2> QED BY <2>2, <2>3, <2>7, <2>8 DEF Wrote
  <1>2. ASSUME NEW b, BufferOK(b, cap), st' = [st EXCEPT !.out = b],
               taken' \in Nat, UNCHANGED <<now, open, lastLive>>,
               b.overflowed \/ Len(b.log) = taken',
               Size(b) <= Size(st.out)
        PROVE  Kept
    <2>1. /\ StreamOK(st') /\ st'.out = b
          /\ st'.state = st.state /\ st'.reason = st.reason /\ st'.conn = st.conn
          /\ st'.since = st.since
      BY <1>t, <1>2, NewOutOK
    <2>2. Size(b) \in Nat /\ Size(st.out) \in Nat
      BY <1>2, <1>c, SizeIsNat
    <2>3. StaysBounded
      BY <1>2, <2>1, <2>2 DEF StaysBounded
    <2> QED BY <1>2, <2>1, <2>3, OnlyOutMoves
  <1>3. CASE ChannelSends(n)
    <2> DEFINE b == AdvanceSendNext(st.out, n)
    <2>1. BufferOK(b, cap) /\ b.log = st.out.log /\ b.overflowed = st.out.overflowed
          /\ Size(b) <= Size(st.out)
      <3>1. Size(st.out) <= Size(st.out)
        BY <1>c, SizeIsNat
      <3> QED BY <1>c, <3>1, AdvanceSendNextOK
    <2> HIDE DEF b, cap
    <2>2. /\ st' = [st EXCEPT !.out = b]
          /\ taken' = taken /\ UNCHANGED <<now, open, lastLive>>
      BY <1>3 DEF ChannelSends, b
    <2> QED BY <1>t, <1>h, <1>2, <2>1, <2>2
  <1>4. CASE PeerAcknowledges(n)
    <2> DEFINE b == Acknowledge(st.out, n).buf
    <2>1. BufferOK(b, cap) /\ b.log = st.out.log /\ b.overflowed = st.out.overflowed
          /\ Size(b) <= Size(st.out)
      BY <1>c, AcknowledgeOK
    <2> HIDE DEF b, cap
    <2>2. /\ st' = [st EXCEPT !.out = b]
          /\ taken' = taken /\ UNCHANGED <<now, open, lastLive>>
      BY <1>4 DEF PeerAcknowledges, b
    <2> QED BY <1>t, <1>h, <1>2, <2>1, <2>2
  <1>5. CASE SnapshotSupplied
    <2> DEFINE b == NewGeneration(st.out)
    <2>1. BufferOK(b, cap) /\ Len(b.log) = 0 /\ Size(b) = 0
      BY <1>c, NewGenerationOK
    <2>2. 0 <= Size(st.out)
      BY <1>c, SizeIsNat
    <2> HIDE DEF b, cap
    <2>3. /\ st' = [st EXCEPT !.out = b]
          /\ taken' = 0 /\ UNCHANGED <<now, open, lastLive>>
      BY <1>5 DEF SnapshotSupplied, b
    <2> QED BY <1>2, <2>1, <2>2, <2>3
  <1> QED BY <1>1, <1>3, <1>4, <1>5

(***************************************************************************)
(* A peer that authenticates only chooses the overflow policy.             *)
(***************************************************************************)
LEMMA AuthenticationKeeps ==
    ASSUME LifecycleInv, NEW grid \in BOOLEAN, PeerAuthenticates(grid)
    PROVE  Kept
  <1>t. StreamOK(st) /\ taken \in Nat
    BY TypedStream DEF LifecycleInv
  <1> DEFINE mode == IF grid THEN "Resync" ELSE "Reap"
             t    == [st EXCEPT !.overflow = mode]
  <1>1. mode \in OverflowModes
    BY DEF OverflowModes
  <1>2. st' = t /\ taken' = taken /\ UNCHANGED <<now, open, lastLive>>
    BY DEF PeerAuthenticates, SetOverflowMode
  <1> HIDE DEF mode
  <1>3. /\ t \in Streams /\ t.out = st.out /\ t.state = st.state
        /\ t.reason = st.reason /\ t.conn = st.conn /\ t.since = st.since
    BY <1>t, <1>1 DEF StreamOK, Streams
  <1> HIDE DEF t
  <1>4. StreamOK(st')
    BY <1>t, <1>2, <1>3 DEF StreamOK
  <1>5. st'.out.overflowed \/ Len(st'.out.log) = taken'
    BY <1>2, <1>3 DEF LifecycleInv, TakenIsHeldOrMarked, End
  <1>6. StaysBounded
    <2>1. Size(st.out) \in Nat
      BY <1>t, SizeIsNat DEF StreamOK
    <2> QED BY <1>2, <1>3, <2>1 DEF StaysBounded
  <1> QED BY <1>t, <1>2, <1>3, <1>4, <1>5, <1>6, OnlyOutMoves

(***************************************************************************)
(* An attach makes the new connection the carrier, or is refused; only a   *)
(* KillSession refusal reaps the session.                                  *)
(***************************************************************************)
LEMMA AttachKeeps ==
    ASSUME LifecycleInv, NEW r, Attaching(st, r), ConnectionAttaches(r)
    PROVE  Kept
  <1>t. /\ StreamOK(st) /\ now \in Nat /\ open \subseteq Nat /\ lastLive \in Nat
        /\ taken \in Nat /\ st.state \in States /\ st.conn \in Nat /\ st.since \in Nat
        /\ Size(st.out) \in Nat
    <2>1. /\ StreamOK(st) /\ now \in Nat /\ open \subseteq Nat /\ lastLive \in Nat
          /\ taken \in Nat
      BY TypedStream DEF LifecycleInv
    <2>2. Size(st.out) \in Nat
      BY <2>1, SizeIsNat DEF StreamOK
    <2> QED BY <2>1, <2>2 DEF StreamOK, Streams
  <1>u. now' = now /\ taken' = taken /\ lastLive' = LiveAt(st', now, lastLive)
    BY DEF ConnectionAttaches
  <1>1. CASE /\ r.err \in {"PeerBehindBuffer", "SessionReaped"} /\ r.stream = st
             /\ st.state = "Reaped" => r.err = "SessionReaped"
    <2>1. st' = Reap(st, r.err) /\ open' = open
      BY <1>1 DEF ConnectionAttaches, KillReasons
    <2>2. /\ StreamOK(st') /\ st'.out = st.out /\ st'.conn = st.conn
          /\ st'.since = st.since /\ st'.state = "Reaped"
          /\ st'.reason = IF st.state = "Reaped" THEN st.reason ELSE r.err
      BY <1>t, <1>1, <2>1, ReapOK DEF KillReasons
    <2>3. lastLive' = lastLive
      BY <1>u, <2>2 DEF LiveAt
    <2>4. TypeOK' /\ WindowFits'
      BY <1>t, <1>u, <2>1, <2>2, <2>3, TypedStream
    <2>5. TakenIsHeldOrMarked'
      BY <1>u, <2>2 DEF LifecycleInv, TakenIsHeldOrMarked, End
    <2>6. LiveIffCarried' /\ OrphanedOnlyAfterTimeout' /\ ClockKept'
      BY <1>1, <1>u, <2>2, <2>3 DEF LifecycleInv, LiveIffCarried,
                                    OrphanedOnlyAfterTimeout, ClockKept
    <2>7. StaysReaped /\ StaysBounded
      BY <2>2 DEF StaysReaped, StaysBounded
    <2> QED BY <2>4, <2>5, <2>6, <2>7 DEF Kept, LifecycleInv
  <1>2. CASE r.err = "AckBeyondSent" /\ r.stream = st
    <2>1. st' = st /\ open' = open
      BY <1>2 DEF ConnectionAttaches, KillReasons
    <2>2. lastLive' = lastLive
      BY <1>u, <2>1 DEF LiveAt, LifecycleInv, ClockKept
    <2>3. LifecycleInv'
      BY <1>u, <2>1, <2>2 DEF LifecycleInv, TypeOK, WindowFits, TakenIsHeldOrMarked,
                              LiveIffCarried, OrphanedOnlyAfterTimeout, ClockKept
    <2> QED BY <1>t, <2>1, <2>3 DEF Kept, StaysReaped, StaysBounded
  <1>3. CASE r.err = "ok"
    <2>1. /\ st.state # "Reaped" /\ StreamOK(r.stream)
          /\ r.stream.state = "Live" /\ r.stream.reason = st.reason
          /\ r.stream.out.overflowed = st.out.overflowed
          /\ Len(r.stream.out.log) = Len(st.out.log)
          /\ Size(r.stream.out) <= Size(st.out)
          /\ r.stream.conn = st.conn + 1 /\ r.stream.since = st.since
      BY <1>3 DEF Attaching
    <2>2. st' = r.stream /\ open' = open \cup {st'.conn}
      BY <1>3 DEF ConnectionAttaches, KillReasons
    <2>3. lastLive' = now
      BY <1>u, <2>1, <2>2 DEF LiveAt
    <2>4. TypeOK' /\ WindowFits'
      <3>1. open' \subseteq Nat
        <4>1. st'.conn \in Nat
          BY <1>t, <2>1, <2>2
        <4> QED BY <1>t, <2>2, <4>1
      <3> QED BY <1>t, <1>u, <2>1, <2>2, <2>3, <3>1, TypedStream
    <2>5. TakenIsHeldOrMarked'
      BY <1>u, <2>1, <2>2 DEF LifecycleInv, TakenIsHeldOrMarked, End
    <2>6. LiveIffCarried'
      BY <2>1, <2>2 DEF LiveIffCarried
    <2>7. st.reason # "OrphanTimeout"
      BY <2>1 DEF LifecycleInv, ClockKept
    <2>8. OrphanedOnlyAfterTimeout'
      BY <2>1, <2>2, <2>7 DEF OrphanedOnlyAfterTimeout
    <2>9. ClockKept'
      BY <1>t, <1>u, <2>1, <2>2, <2>3, <2>7 DEF ClockKept, LifecycleInv
    <2>10. StaysReaped /\ StaysBounded
      <3>1. Size(st'.out) \in Nat
        BY <2>1, <2>2, SizeIsNat DEF StreamOK
      <3> QED BY <1>t, <2>1, <2>2, <3>1 DEF StaysReaped, StaysBounded
    <2> QED BY <2>4, <2>5, <2>6, <2>8, <2>9, <2>10 DEF Kept, LifecycleInv
  <1> QED BY <1>1, <1>2, <1>3 DEF Attaching

(***************************************************************************)
(* A close, the clock and the orphan timer keep the invariant.             *)
(***************************************************************************)
LEMMA TimeKeeps ==
    ASSUME LifecycleInv, NEW k, ConnectionCloses(k) \/ Tick \/ TimerFires
    PROVE  Kept
  <1>t. /\ StreamOK(st) /\ now \in Nat /\ open \subseteq Nat /\ lastLive \in Nat
        /\ taken \in Nat /\ st.state \in States /\ st.conn \in Nat /\ st.since \in Nat
        /\ Size(st.out) \in Nat
    <2>1. /\ StreamOK(st) /\ now \in Nat /\ open \subseteq Nat /\ lastLive \in Nat
          /\ taken \in Nat
      BY TypedStream DEF LifecycleInv
    <2>2. Size(st.out) \in Nat
      BY <2>1, SizeIsNat DEF StreamOK
    <2> QED BY <2>1, <2>2 DEF StreamOK, Streams
  <1>1. CASE ConnectionCloses(k) /\ IsCurrent(st, k)
    <2> DEFINE t == [st EXCEPT !.state = "Detached", !.since = now]
    <2>1. /\ st' = t /\ open' = open \ {k}
          /\ UNCHANGED <<now, taken, lastLive>>
      BY <1>1 DEF ConnectionCloses, Detach
    <2>2. /\ t \in Streams /\ t.out = st.out /\ t.state = "Detached"
          /\ t.reason = st.reason /\ t.conn = st.conn /\ t.since = now
      BY <1>t DEF StreamOK, Streams, States
    <2> HIDE DEF t
    <2>3. StreamOK(st')
      BY <1>t, <2>1, <2>2 DEF StreamOK
    <2>4. TypeOK' /\ WindowFits'
      BY <1>t, <2>1, <2>3, TypedStream
    <2>5. TakenIsHeldOrMarked'
      BY <2>1, <2>2 DEF LifecycleInv, TakenIsHeldOrMarked, End
    <2>6. LiveIffCarried'
      BY <1>1, <2>1, <2>2 DEF LiveIffCarried, IsCurrent
    <2>7. OrphanedOnlyAfterTimeout' /\ ClockKept'
      BY <1>t, <1>1, <2>1, <2>2 DEF LifecycleInv, OrphanedOnlyAfterTimeout, ClockKept,
                                    IsCurrent
    <2>8. StaysReaped /\ StaysBounded
      BY <1>1, <2>1, <2>2 DEF StaysReaped, StaysBounded, IsCurrent
    <2> QED BY <2>4, <2>5, <2>6, <2>7, <2>8 DEF Kept, LifecycleInv
  <1>2. CASE ConnectionCloses(k) /\ ~IsCurrent(st, k)
    <2>1. st' = st /\ open' = open \ {k} /\ UNCHANGED <<now, taken, lastLive>>
      BY <1>2 DEF ConnectionCloses, Detach
    <2>2. LiveIffCarried'
      BY <1>2, <2>1 DEF LifecycleInv, LiveIffCarried, IsCurrent
    <2>3. TypeOK' /\ WindowFits' /\ TakenIsHeldOrMarked'
      BY <1>t, <2>1 DEF LifecycleInv, TypeOK, WindowFits, TakenIsHeldOrMarked
    <2>4. OrphanedOnlyAfterTimeout' /\ ClockKept'
      BY <2>1 DEF LifecycleInv, OrphanedOnlyAfterTimeout, ClockKept
    <2> QED BY <1>t, <2>1, <2>2, <2>3, <2>4 DEF Kept, LifecycleInv, StaysReaped, StaysBounded
  <1>3. CASE Tick
    <2>1. /\ st' = st /\ open' = open /\ taken' = taken /\ now' = now + 1
          /\ lastLive' = IF st.state = "Live" THEN now + 1 ELSE lastLive
      BY <1>3 DEF Tick, LiveAt
    <2>2. TypeOK' /\ WindowFits' /\ TakenIsHeldOrMarked' /\ LiveIffCarried'
      BY <1>t, <2>1 DEF LifecycleInv, TypeOK, WindowFits, TakenIsHeldOrMarked,
                        LiveIffCarried
    <2>3. OrphanedOnlyAfterTimeout'
      BY <1>t, <2>1, LimitsAssumption DEF LifecycleInv, OrphanedOnlyAfterTimeout, ClockKept
    <2>4. ClockKept'
      BY <1>t, <2>1 DEF LifecycleInv, ClockKept
    <2> QED BY <1>t, <2>1, <2>2, <2>3, <2>4 DEF Kept, LifecycleInv, StaysReaped, StaysBounded
  <1>4. CASE TimerFires
    <2>1. /\ st.state = "Detached" /\ OrphanTimeout # 0
          /\ now >= st.since + OrphanTimeout
      BY <1>4, CapacityOK DEF TimerFires, OrphanExpired
    <2>2. /\ st' = Reap(st, "OrphanTimeout")
          /\ UNCHANGED <<now, open, taken, lastLive>>
      BY <1>4 DEF TimerFires, OnTimer
    <2>3. /\ StreamOK(st') /\ st'.out = st.out /\ st'.conn = st.conn
          /\ st'.since = st.since /\ st'.state = "Reaped"
      BY <1>t, <2>2, ReapOK DEF KillReasons
    <2>4. TypeOK' /\ WindowFits'
      BY <1>t, <2>2, <2>3, TypedStream
    <2>5. TakenIsHeldOrMarked'
      BY <2>2, <2>3 DEF LifecycleInv, TakenIsHeldOrMarked, End
    <2>6. OrphanedOnlyAfterTimeout'
      BY <1>t, <2>1, <2>2, LimitsAssumption DEF LifecycleInv, OrphanedOnlyAfterTimeout,
                                                ClockKept
    <2>7. LiveIffCarried' /\ ClockKept'
      BY <2>2, <2>3 DEF LifecycleInv, LiveIffCarried, ClockKept
    <2>8. StaysReaped /\ StaysBounded
      BY <2>1, <2>3 DEF StaysReaped, StaysBounded
    <2> QED BY <2>4, <2>5, <2>6, <2>7, <2>8 DEF Kept, LifecycleInv
  <1> QED BY <1>1, <1>2, <1>3, <1>4

(***************************************************************************)
(* A new session, detached and empty, satisfies the invariant.             *)
(***************************************************************************)
LEMMA InitLifecycle == Init => LifecycleInv
  <1> SUFFICES ASSUME Init PROVE LifecycleInv
    OBVIOUS
  <1> DEFINE b == NewBuffer
             i == NewCursor(TRUE)
  <1>1. b \in Buffers /\ Len(b.log) = 0 /\ b.base = 0 /\ b.next = 0
    BY DEF NewBuffer, Buffers
  <1>2. i \in Cursors
    BY DEF NewCursor, Cursors
  <1>3. st = [out |-> b, in |-> i, state |-> "Detached", overflow |-> "Reap",
              conn |-> 0, since |-> 0, reason |-> "none"]
    BY DEF Init, NewStream
  <1> HIDE DEF b, i
  <1>4. /\ st \in Streams /\ st.out = b /\ st.state = "Detached" /\ st.conn = 0
        /\ st.since = 0 /\ st.reason = "none"
    BY <1>1, <1>2, <1>3 DEF Streams, States, OverflowModes, Reasons
  <1>5. now = 0 /\ open = {} /\ taken = 0 /\ lastLive = 0
    BY DEF Init
  <1>6. StreamOK(st)
    BY <1>1, <1>4, CapacityOK DEF StreamOK, BufferOK
  <1>7. TypeOK /\ WindowFits
    BY <1>5, <1>6, TypedStream
  <1>8. TakenIsHeldOrMarked
    BY <1>1, <1>4, <1>5 DEF TakenIsHeldOrMarked, End
  <1>9. LiveIffCarried /\ OrphanedOnlyAfterTimeout /\ ClockKept
    BY <1>4, <1>5 DEF LiveIffCarried, OrphanedOnlyAfterTimeout, ClockKept
  <1> QED BY <1>7, <1>8, <1>9 DEF LifecycleInv

(***************************************************************************)
(* Every operation of the stream keeps the invariant, leaves a reaped      *)
(* session alone and respects the live window.                             *)
(***************************************************************************)
LEMMA StepLifecycle == LifecycleInv /\ [Next]_vars => LifecycleInv' /\ (StaysReaped /\ StaysBounded)
  <1> SUFFICES ASSUME LifecycleInv, [Next]_vars PROVE Kept
    BY DEF Kept
  <1>t. StreamOK(st) /\ Len(st.out.log) \in Nat /\ Size(st.out) \in Nat
    <2>1. StreamOK(st)
      BY TypedStream DEF LifecycleInv
    <2> QED BY <2>1 DEF StreamOK, BufferOK, Buffers, Size, End
  <1>1. ASSUME NEW n \in 1 .. MaxWrite, WriterWrites(n) \/ ChannelSends(n) PROVE Kept
    <2>1. n \in Nat
      OBVIOUS
    <2> QED BY <1>1, <2>1, TrafficKeeps
  <1>2. ASSUME NEW p \in 0 .. Len(st.out.log) + 1, PeerAcknowledges(p) PROVE Kept
    <2>1. p \in Nat
      BY <1>t
    <2> QED BY <1>2, <2>1, TrafficKeeps
  <1>3. ASSUME NEW p \in 0 .. Len(st.out.log) + 1, AttachPathA(p) PROVE Kept
    <2>1. p \in Nat
      BY <1>t
    <2>2. Attaching(st, Attach(st, p))
      BY <1>t, <2>1, AttachOK
    <2> QED BY <1>3, <2>2, AttachKeeps DEF AttachPathA
  <1>4. ASSUME NEW grid \in BOOLEAN, PeerAuthenticates(grid) PROVE Kept
    BY <1>4, AuthenticationKeeps
  <1>5. CASE AttachForSnapshot
    <2>1. Attaching(st, AttachPathB(st))
      BY <1>t, AttachOK
    <2> QED BY <1>5, <2>1, AttachKeeps DEF AttachForSnapshot
  <1>6. CASE SnapshotSupplied
    <2>1. 0 \in Nat
      OBVIOUS
    <2> QED BY <1>6, <2>1, TrafficKeeps
  <1>7. ASSUME NEW k \in open, ConnectionCloses(k) PROVE Kept
    BY <1>7, TimeKeeps
  <1>8. CASE Tick \/ TimerFires
    BY <1>8, TimeKeeps
  <1>9. CASE UNCHANGED vars
    BY <1>9, <1>t DEF vars, Kept, LifecycleInv, TypeOK, WindowFits, TakenIsHeldOrMarked,
                      LiveIffCarried, OrphanedOnlyAfterTimeout, ClockKept, StaysReaped,
                      StaysBounded
  <1> QED BY <1>1, <1>2, <1>3, <1>4, <1>5, <1>6, <1>7, <1>8, <1>9 DEF Next

(***************************************************************************)
(* For every limit and bound: the send buffer's own invariant, no byte     *)
(* dropped without a mark, live exactly while carried, and no session      *)
(* orphaned before its time (stream_state.cpp).                            *)
(***************************************************************************)
THEOREM LifecycleCorrect ==
    Spec => [](/\ TypeOK /\ WindowFits /\ TakenIsHeldOrMarked /\ LiveIffCarried
               /\ OrphanedOnlyAfterTimeout)
  <1>1. LifecycleInv =>
          /\ TypeOK /\ WindowFits /\ TakenIsHeldOrMarked /\ LiveIffCarried
          /\ OrphanedOnlyAfterTimeout
    BY DEF LifecycleInv
  <1> QED BY <1>1, InitLifecycle, StepLifecycle, PTL DEF Spec

(***************************************************************************)
(* StreamState::Attach and Detach: a session is live exactly while the     *)
(* connection that carries it is open, in whatever order superseded ones   *)
(* close.                                                                  *)
(***************************************************************************)
THEOREM LiveWhileCarried == Spec => []LiveIffCarried
  BY LifecycleCorrect, PTL

(***************************************************************************)
(* StreamState::Tick: a session is orphaned only after a whole timeout     *)
(* without a connection.                                                   *)
(***************************************************************************)
THEOREM NoEarlyOrphan == Spec => []OrphanedOnlyAfterTimeout
  BY LifecycleCorrect, PTL

(***************************************************************************)
(* No step takes a reaped session back, whatever connections still call.   *)
(***************************************************************************)
THEOREM ReapIsForEver == Spec => ReapedIsFinal
  <1>1. LifecycleInv /\ [Next]_vars =>
          [st.state = "Reaped" =>
             st'.state = "Reaped" /\ st'.reason = st.reason
             /\ st'.conn = st.conn]_vars
    BY StepLifecycle DEF StaysReaped
  <1> QED BY <1>1, InitLifecycle, StepLifecycle, PTL DEF Spec, ReapedIsFinal

(***************************************************************************)
(* No step of a live session grows the window past ResendMax.              *)
(***************************************************************************)
THEOREM BackpressureHolds == Spec => LiveWindowBounded
  <1>1. LifecycleInv /\ [Next]_vars =>
          [st.state = "Live" /\ st'.state = "Live" /\ Size(st'.out) > Size(st.out)
             => Size(st'.out) <= ResendMax]_vars
    BY StepLifecycle DEF StaysBounded
  <1> QED BY <1>1, InitLifecycle, StepLifecycle, PTL DEF Spec, LiveWindowBounded
===============================================================================
