--------------------------- MODULE SessionAgent_proofs ---------------------------
(***************************************************************************)
(* Proofs about a session, for every value of the limits and bounds: the   *)
(* invariant of what is typed, over any number of connections that are     *)
(* cut, overlap and resume, and that the steps of the agent keep it.       *)
(***************************************************************************)
EXTENDS Session, Integers, TLAPS

(* A buffer whose window is in order, a cursor that does not run ahead,    *)
(* and a stream that owns one of each.                                     *)
Held(b) == b \in Buffers /\ b.base <= b.next /\ b.next <= Len(b.log)

CursorOK(r) == r \in Cursors /\ r.pending <= r.recv

StreamOK(s) == s \in Streams /\ Held(s.out)

Links == [Conns -> Seq(Frames)]

(* The types, and what the subtractions of the two ends need.              *)
AgentTyped ==
    /\ StreamOK(a) /\ CursorOK(a.in) /\ a.in.onDelivery = TRUE
    /\ fed \in Nat /\ ptyBuf \in Seq(Nat) /\ ptyIn \in Seq(Nat) /\ ptyGot \in Seq(Nat)
    /\ shell \in {"running", "exited", "ended"}
    /\ size \in Sizes \cup {Unknown} /\ snapWait \in Conns \cup {NoConn}
    /\ ac \in [Conns -> AgentConns] /\ done \in BOOLEAN

ClientTyped ==
    /\ StreamOK(c) /\ CursorOK(c.in) /\ c.in.onDelivery = FALSE /\ c.in.pending = 0
    /\ cGen \in Nat /\ cConn \in Conns \cup {NoConn} /\ cLive \in BOOLEAN
    /\ cc \in ClientChannels /\ used \in Nat /\ used <= plan.conns
    /\ window \in [size : Sizes, changes : 0..plan.resizes]
    /\ screen \in Seq(Nat) /\ pendApply \in Nat
    /\ cEnd \in BOOLEAN /\ fatal \in BOOLEAN

TypeInv ==
    plan \in Plans /\ AgentTyped /\ ClientTyped /\ up \in Links /\ down \in Links

(***************************************************************************)
(* What is typed, for the agent's cursor, the queue of the pty, what the   *)
(* shell has read and the client's buffer: every keystroke is in its place *)
(* and none is forgotten before a running shell has read it.               *)
(***************************************************************************)
Keyed ==
    /\ a.in.pending = Len(ptyIn) /\ a.in.recv <= Len(c.out.log)
    /\ Len(c.out.log) <= plan.in
    /\ \A i \in 1..Len(ptyIn) : ptyIn[i] = AckOffset(a.in) + i
    /\ \A i \in 1..Len(ptyGot) : ptyGot[i] = i
    /\ Len(ptyGot) <= AckOffset(a.in)
    /\ shell = "running" => Len(ptyGot) = AckOffset(a.in)
    /\ \A i \in 1..Len(c.out.log) : c.out.log[i] = i
    /\ c.out.base <= AckOffset(a.in)

(* The client goes on: its buffer never overflows and it never gives up.   *)
GoesOn ==
    /\ c.state # "Reaped" /\ c.overflow = "Backpressure"
    /\ c.out.overflowed = FALSE /\ fatal = FALSE

(* A Data frame of the client holds what was typed from its offset on.     *)
Excerpt(m, typed) ==
    m.type = "Data" =>
        /\ m.off + Len(m.bytes) <= typed
        /\ \A i \in 1..Len(m.bytes) : m.bytes[i] = m.off + i

(* The offset is in reach of what arrived before it: received already, or  *)
(* up to the end of one of the first n frames.                             *)
Reached(off, recv, frames, n) ==
    \/ off <= recv
    \/ \E i \in 1..n : /\ frames[i].type = "Data"
                       /\ off <= frames[i].off + Len(frames[i].bytes)

(* Frames that leave no gap after what was received.                       *)
NoGap(frames, recv) ==
    \A i \in 1..Len(frames) :
        frames[i].type = "Data" => Reached(frames[i].off, recv, frames, i - 1)

(* What the frame acknowledges was delivered.                              *)
Honours(m, acked) ==
    /\ m.type = "AuthOk" => m.off <= acked
    /\ m.type \in {"Data", "Ack"} => m.ack <= acked

(* Before its Resume a connection carries a Hello or the answer to it.     *)
Greeting(k) ==
    /\ ac[k].stage \in {"new", "resume", "closed"}
    /\ \/ up[k] = <<>>
       \/ up[k] = <<Hello>> /\ ac[k].stage # "resume"
    /\ \/ down[k] = <<>>
       \/ /\ Len(down[k]) = 1 /\ down[k][1].type = "AuthOk"
          /\ c.out.base <= down[k][1].off
          /\ ac[k].stage # "new" /\ up[k] = <<>>

(* The client is on one connection, and what it has left answers nothing.  *)
LinkOK(k) ==
    /\ k > used => ac[k].stage = "new" /\ up[k] = <<>>
    /\ k # cConn => down[k] = <<>>
    /\ k = cConn /\ cLive = FALSE => Greeting(k)
    /\ k = cConn /\ cLive = TRUE =>
           ac[k].stage # "new" /\ \A i \in 1..Len(down[k]) : down[k][i].type # "AuthOk"

(* What is under way on a connection, and what the client sends next.      *)
CarryOK(k) ==
    /\ \A i \in 1..Len(up[k]) : Excerpt(up[k][i], Len(c.out.log))
    /\ \A i \in 1..Len(down[k]) : Honours(down[k][i], AckOffset(a.in))
    /\ ac[k].stage # "closed" => NoGap(up[k], a.in.recv)
    /\ k = cConn /\ cLive = TRUE /\ ac[k].stage # "closed" =>
          Reached(c.out.next, a.in.recv, up[k], Len(up[k]))

Wired ==
    /\ cConn \in {NoConn, used} /\ (cLive = TRUE => cConn # NoConn)
    /\ \A k \in Conns : LinkOK(k) /\ CarryOK(k)

(* Errors that the two ends never find in what is typed.                   *)
InputErrors ==
    {<<"agent", "StreamGap">>} \cup
    {<<"client", e>> : e \in {"AckBeyondSent"} \cup KillReasons}

Unaccused == \A e \in errors : e \notin InputErrors

InputInv == TypeInv /\ Keyed /\ GoesOn /\ Wired /\ Unaccused

-----------------------------------------------------------------------------
(* Sequences *)

LEMMA EmptySeq ==
    ASSUME NEW S
    PROVE  <<>> \in Seq(S) /\ \A s \in Seq(S) : s = <<>> <=> Len(s) = 0
OBVIOUS

(* Two sequences, one after the other.                                     *)
LEMMA ConcatProperties ==
    ASSUME NEW S, NEW s \in Seq(S), NEW t \in Seq(S)
    PROVE  /\ s \o t \in Seq(S) /\ Len(s \o t) = Len(s) + Len(t)
           /\ \A i \in 1..(Len(s) + Len(t)) :
                 (s \o t)[i] = IF i <= Len(s) THEN s[i] ELSE t[i - Len(s)]
OBVIOUS

(* A part of a sequence.                                                   *)
LEMMA SubSeqProperties ==
    ASSUME NEW S, NEW s \in Seq(S), NEW m \in 1..(Len(s) + 1),
           NEW n \in (m - 1)..Len(s)
    PROVE  /\ SubSeq(s, m, n) \in Seq(S) /\ Len(SubSeq(s, m, n)) = n - m + 1
           /\ \A i \in 1..(n - m + 1) : SubSeq(s, m, n)[i] = s[m + i - 1]
OBVIOUS

(* The first element, and the others.                                      *)
LEMMA HeadTailProperties ==
    ASSUME NEW S, NEW s \in Seq(S), s # <<>>
    PROVE  /\ Head(s) \in S /\ Tail(s) \in Seq(S) /\ Len(Tail(s)) = Len(s) - 1
           /\ \A i \in 1..Len(Tail(s)) : Tail(s)[i] = s[i + 1]
OBVIOUS

(* A link with one more frame.                                             *)
OneMore(d, m, e) ==
    /\ Len(e) = Len(d) + 1 /\ Len(d) \in Nat /\ e[Len(d) + 1] = m
    /\ \A i \in 1..Len(d) : e[i] = d[i]

LEMMA FramePushed ==
    ASSUME NEW d \in Seq(Frames), NEW m \in Frames
    PROVE  OneMore(d, m, Append(d, m))
BY DEF OneMore

(* What is in a sequence.                                                  *)
LEMMA Elements ==
    ASSUME NEW S, NEW s \in Seq(S)
    PROVE  \A i \in 1..Len(s) : s[i] \in S
OBVIOUS

LEMMA HeadPlace ==
    ASSUME NEW S, NEW s \in Seq(S), s # <<>>
    PROVE  1 \in 1..Len(s)
OBVIOUS

LEMMA NoElements == \A i \in 1..Len(<<>>) : FALSE
OBVIOUS

LEMMA EarlierPlace ==
    ASSUME NEW n \in Nat, NEW i \in 1..(n + 1), i # n + 1
    PROVE  i \in 1..n
OBVIOUS

LEMMA LenNat ==
    ASSUME NEW S, NEW s \in Seq(S)
    PROVE  Len(s) \in Nat
OBVIOUS

LEMMA Trans ==
    ASSUME NEW x \in Nat, NEW y \in Nat, NEW z \in Nat, x <= y, y <= z
    PROVE  x <= z
OBVIOUS

(* Sums and differences of offsets.                                        *)
LEMMA Offsets ==
    ASSUME NEW r \in Nat, NEW p \in Nat, NEW n \in Nat
    PROVE  r <= r + n /\ r - (p - n) = (r - p) + n
OBVIOUS

LEMMA OffsetsMove ==
    ASSUME NEW r \in Nat, NEW p \in Nat, NEW n \in Nat
    PROVE  (r + n) - (p + n) = r - p
OBVIOUS

LEMMA OffsetsSwap ==
    ASSUME NEW r \in Nat, NEW p \in Nat, NEW n \in Nat
    PROVE  (r - p) + n = r + (n - p)
OBVIOUS

-----------------------------------------------------------------------------
(* Frames and links *)

(* Every frame either end builds is a frame.                               *)
LEMMA FramesBuilt ==
    /\ Hello \in Frames /\ GridEnd \in Frames /\ SessionEnd \in Frames
    /\ \A n \in Nat : /\ AuthOk(n) \in Frames /\ Ack(n) \in Frames
                     /\ GridBegin(n) \in Frames /\ GridChunk(n) \in Frames
                     /\ GridApplied(n) \in Frames
    /\ \A g, n \in Nat : Resume(g, n) \in Frames
    /\ \A sz \in Sizes : Resize(sz) \in Frames
BY DEF Frames, Hello, GridEnd, SessionEnd, AuthOk, Ack, GridBegin, GridChunk,
       GridApplied, Resume, Resize

LEMMA DataBuilt ==
    ASSUME NEW ack \in Nat, NEW off \in Nat, NEW bytes \in Seq(Nat)
    PROVE  Data(ack, off, bytes) \in Frames
BY DEF Frames, Data

(* The fields of a frame, by its type.                                     *)
LEMMA FrameFields ==
    ASSUME NEW m \in Frames
    PROVE  /\ m.type = "AuthOk" => m.off \in Nat
           /\ m.type = "Resume" => m.gen \in Nat /\ m.off \in Nat
           /\ m.type = "Data" => /\ m.ack \in Nat /\ m.off \in Nat
                                 /\ m.bytes \in Seq(Nat)
           /\ m.type = "Ack" => m.ack \in Nat
           /\ m.type = "Resize" => m.size \in Sizes
           /\ m.type \in {"GridBegin", "GridApplied"} => m.gen \in Nat
           /\ m.type = "GridChunk" => m.snap \in Nat
BY DEF Frames

(* A frame is sent on one connection.                                      *)
LEMMA PushedLink ==
    ASSUME NEW link \in Links, NEW k \in Conns, NEW m \in Frames
    PROVE  /\ Pushed(link, k, m) \in Links
           /\ Pushed(link, k, m)[k] = Append(link[k], m)
           /\ \A j \in Conns \ {k} : Pushed(link, k, m)[j] = link[j]
BY DEF Links, Pushed

(* The first frame is taken off one connection.                            *)
LEMMA PoppedLink ==
    ASSUME NEW link \in Links, NEW k \in Conns, link[k] # <<>>
    PROVE  /\ Popped(link, k) \in Links
           /\ Popped(link, k)[k] = Tail(link[k])
           /\ \A j \in Conns \ {k} : Popped(link, k)[j] = link[j]
           /\ Head(link[k]) \in Frames
BY DEF Links, Popped

-----------------------------------------------------------------------------
(* Streams *)

(* A new stream.                                                           *)
LEMMA NewTyped ==
    ASSUME NEW o \in OverflowModes, NEW d \in BOOLEAN
    PROVE  StreamOK(NewStream(o, d, 0))
<1>1. NewBuffer \in Buffers /\ Held(NewBuffer)
  BY EmptySeq DEF NewBuffer, Buffers, Held
<1>2. NewCursor(d) \in Cursors
  BY Zenon DEF NewCursor, Cursors
<1> QED
  BY <1>1, <1>2 DEF NewStream, Streams, States, Reasons, StreamOK

(* An Ack, whether or not it is taken, leaves a buffer.                    *)
LEMMA AckTyped ==
    ASSUME NEW b, Held(b), NEW n \in Nat
    PROVE  LET o == Acknowledge(b, n) IN
           /\ Held(o.buf) /\ o.err \in {"ok", "AckBeyondSent"}
           /\ o.buf.log = b.log /\ o.buf.overflowed = b.overflowed
           /\ o.buf.gen = b.gen
           /\ o.err = "AckBeyondSent" => o.buf = b /\ n > Len(b.log)
           /\ o.buf.base = b.base \/ o.buf.base = n
           /\ o.buf.next = b.next \/ o.buf.next = n
           /\ b.base <= n /\ n <= Len(b.log) => o.err = "ok" /\ o.buf.base = n
<1> DEFINE o == Acknowledge(b, n)
<1>1. b.base \in Nat /\ b.next \in Nat /\ Len(b.log) \in Nat
  BY DEF Held, Buffers
<1>2. CASE n <= b.base
  BY <1>1, <1>2 DEF Acknowledge, Outcome
<1>3. CASE n > b.base /\ n > Len(b.log)
  BY <1>1, <1>3 DEF Acknowledge, Outcome, End
<1>4. CASE n > b.base /\ n <= Len(b.log)
  <2> DEFINE x == IF b.next < n THEN n ELSE b.next
  <2>1. x \in Nat /\ n <= x /\ x <= Len(b.log) /\ (x = b.next \/ x = n)
    BY <1>1, <1>4 DEF Held
  <2>2. o.err = "ok" /\ o.buf = [b EXCEPT !.base = n, !.next = x]
    BY <1>1, <1>4 DEF Acknowledge, Outcome, End
  <2> HIDE DEF x
  <2>4. /\ Held(o.buf) /\ o.buf.base = n /\ o.buf.next = x /\ o.buf.log = b.log
        /\ o.buf.gen = b.gen /\ o.buf.overflowed = b.overflowed
    <3> HIDE DEF o
    <3> QED BY <1>1, <2>1, <2>2, Zenon DEF Held, Buffers
  <2> QED
    BY <2>1, <2>2, <2>4
<1> QED
  BY <1>1, <1>2, <1>3, <1>4

LEMMA ResetTyped ==
    ASSUME NEW b, Held(b), NEW n \in Nat
    PROVE  LET o == ResetSendNext(b, n) IN
           /\ Held(o.buf)
           /\ o.err \in {"ok", "AckBeyondSent", "PeerBehindBuffer"}
           /\ b.base <= n /\ n <= Len(b.log) =>
                 /\ o.err = "ok" /\ o.buf.base = n /\ o.buf.next = n
                 /\ o.buf.log = b.log /\ o.buf.overflowed = b.overflowed
                 /\ o.buf.gen = b.gen
           /\ o.err = "ok" => b.base <= n /\ n <= Len(b.log)
<1> DEFINE o == ResetSendNext(b, n)
<1>1. b.base \in Nat /\ b.next \in Nat /\ Len(b.log) \in Nat
  BY DEF Held, Buffers
<1>2. CASE n > Len(b.log)
  BY <1>1, <1>2 DEF ResetSendNext, Outcome, End
<1>3. CASE n <= Len(b.log) /\ n < b.base
  BY <1>1, <1>3 DEF ResetSendNext, Outcome, End
<1>4. CASE b.base <= n /\ n <= Len(b.log)
  <2>1. /\ o.err = "ok"
        /\ o.buf = [Acknowledge(b, n).buf EXCEPT !.next = n]
    BY <1>1, <1>4 DEF ResetSendNext, Outcome, End
  <2>2. /\ Held(Acknowledge(b, n).buf) /\ Acknowledge(b, n).buf.base = n
        /\ Acknowledge(b, n).buf.log = b.log /\ Acknowledge(b, n).buf.gen = b.gen
        /\ Acknowledge(b, n).buf.overflowed = b.overflowed
    BY <1>1, <1>4, AckTyped, ZenonT(30)
  <2> DEFINE y == Acknowledge(b, n).buf
  <2> HIDE DEF y
  <2>3. o.buf = [y EXCEPT !.next = n] /\ Held(y) /\ y.base = n
    BY <2>1, <2>2 DEF y
  <2>4. /\ Held(o.buf) /\ o.buf.base = n /\ o.buf.next = n
        /\ o.buf.log = y.log /\ o.buf.overflowed = y.overflowed /\ o.buf.gen = y.gen
    <3> HIDE DEF o
    <3>1. /\ o.buf \in Buffers /\ o.buf.base = n /\ o.buf.next = n
          /\ o.buf.log = y.log /\ o.buf.overflowed = y.overflowed /\ o.buf.gen = y.gen
      BY <2>3, Zenon DEF Held, Buffers
    <3>2. n <= n
      OBVIOUS
    <3>3. n <= Len(y.log)
      BY <1>4, <2>2, Zenon DEF y
    <3> QED BY <3>1, <3>2, <3>3, Zenon DEF Held
  <2> QED
    BY <1>4, <2>1, <2>2, <2>4 DEF y
<1> QED
  BY <1>1, <1>2, <1>3, <1>4

(* What is read from a buffer: the bytes from an offset on.                *)
LEMMA CopyTyped ==
    ASSUME NEW b, Held(b), NEW n \in Nat, NEW from \in Nat
    PROVE  LET s == CopyOut(b, from, n) IN
           /\ s \in Seq(Nat) /\ (s # <<>> => from + Len(s) <= Len(b.log))
           /\ \A i \in 1..Len(s) : s[i] = b.log[from + i]
<1>0. b.log \in Seq(Nat) /\ b.base \in Nat
  BY DEF Held, Buffers
<1>1. CASE from < b.base \/ from >= End(b)
  <2>1. CopyOut(b, from, n) = <<>>
    BY <1>1 DEF CopyOut
  <2> QED BY <2>1, EmptySeq
<1>2. CASE ~(from < b.base \/ from >= End(b))
  <2> DEFINE m == AtMost(from + n, End(b))
             s == SubSeq(b.log, from + 1, m)
  <2>1. CopyOut(b, from, n) = s
    BY <1>2, Zenon DEF CopyOut
  <2>2. m \in Nat /\ m <= Len(b.log) /\ from <= m
    BY <1>0, <1>2 DEF AtMost, End
  <2> HIDE DEF m
  <2>3. \A i \in (from + 1)..m : b.log[i] \in Nat
    BY <1>0, <2>2
  <2>4. /\ s \in Seq(Nat) /\ Len(s) = m - from
        /\ \A i \in 1..(m - from) : s[i] = b.log[from + i]
    <3>1. from + 1 \in Int /\ m \in Int
      BY <2>2
    <3>2. /\ s \in Seq(Nat)
          /\ Len(s) = IF from + 1 <= m THEN m - (from + 1) + 1 ELSE 0
          /\ \A i \in 1..(m - (from + 1) + 1) : s[i] = b.log[(from + 1) + i - 1]
      BY <2>3, <3>1, SubSeqProperties
    <3> HIDE DEF s
    <3>3. m - (from + 1) + 1 = m - from /\ Len(s) = m - from
      BY <2>2, <3>2
    <3>4. \A i \in 1..(m - from) : (from + 1) + i - 1 = from + i
      BY <2>2
    <3> QED BY <3>2, <3>3, <3>4
  <2> HIDE DEF s
  <2> QED
    BY <2>1, <2>2, <2>4
<1> QED
  BY <1>1, <1>2

LEMMA AdvanceTyped ==
    ASSUME NEW b, Held(b), NEW n \in Nat
    PROVE  LET d == AdvanceSendNext(b, n) IN
           /\ Held(d) /\ d.log = b.log /\ d.base = b.base /\ d.gen = b.gen
           /\ d.overflowed = b.overflowed /\ d.next <= b.next + n
<1> DEFINE x == AtMost(b.next + n, End(b))
<1>1. b.base \in Nat /\ b.next \in Nat /\ Len(b.log) \in Nat
  BY DEF Held, Buffers
<1>2. x \in Nat /\ b.next <= x /\ x <= Len(b.log) /\ x <= b.next + n
  BY <1>1 DEF AtMost, End, Held
<1>3. AdvanceSendNext(b, n) = [b EXCEPT !.next = x]
  BY DEF AdvanceSendNext
<1> HIDE DEF x
<1> DEFINE d == AdvanceSendNext(b, n)
<1>4. /\ Held(d) /\ d.base = b.base /\ d.next = x /\ d.log = b.log
      /\ d.gen = b.gen /\ d.overflowed = b.overflowed
  <2> HIDE DEF d
  <2>1. b.base <= x
    BY <1>1, <1>2 DEF Held
  <2> QED BY <1>1, <1>2, <1>3, <2>1, Zenon DEF d, Held, Buffers
<1> QED
  BY <1>2, <1>4

(* The policy of the session.                                              *)
LEMMA LimitsTyped ==
    ASSUME plan \in Plans
    PROVE  /\ Limits.resend \in Nat \ {0} /\ Limits.disconnect \in Nat \ {0}
           /\ Capacity(Limits) \in Nat /\ Capacity(Limits) >= Limits.resend
           /\ Capacity(Limits) >= Limits.disconnect
BY BoundsAssumption DEF Limits, Capacity

(* Bytes appended.                                                         *)
LEMMA AppendTyped ==
    ASSUME NEW b, Held(b), NEW bytes \in Seq(Nat), NEW cap \in Nat
    PROVE  LET d == Append_(b, bytes, cap) IN
           /\ Held(d) /\ d.base = b.base /\ d.next = b.next /\ d.gen = b.gen
           /\ d.overflowed = b.overflowed
           /\ \E n \in Nat : n <= Len(bytes) /\ d.log = b.log \o SubSeq(bytes, 1, n)
           /\ Len(bytes) <= cap - (Len(b.log) - b.base) => d.log = b.log \o bytes
<1> DEFINE m == AtMost(Len(bytes), Room(b, cap))
           t == SubSeq(bytes, 1, m)
           x == b.log \o t
           d == Append_(b, bytes, cap)
<1> SUFFICES /\ Held(d) /\ d.base = b.base /\ d.next = b.next /\ d.gen = b.gen
             /\ d.overflowed = b.overflowed
             /\ \E n \in Nat : n <= Len(bytes) /\ d.log = b.log \o SubSeq(bytes, 1, n)
             /\ Len(bytes) <= cap - (Len(b.log) - b.base) => d.log = b.log \o bytes
  BY Zenon
<1>1. b.base \in Nat /\ b.next \in Nat /\ b.log \in Seq(Nat) /\ Len(bytes) \in Nat
  BY DEF Held, Buffers
<1>2. m \in Int /\ m <= Len(bytes)
  BY <1>1 DEF AtMost, Room, Size, End
<1>3. /\ t \in Seq(Nat)
      /\ \E n \in Nat : n <= Len(bytes) /\ t = SubSeq(bytes, 1, n)
  <2>1. \A i \in 1..m : bytes[i] \in Nat
    BY <1>1, <1>2
  <2>2. CASE m >= 0
    <3>1. m \in Nat /\ 1 \in 1..(Len(bytes) + 1) /\ m \in (1 - 1)..Len(bytes)
      BY <1>1, <1>2, <2>2
    <3> HIDE DEF m
    <3>2. SubSeq(bytes, 1, m) \in Seq(Nat)
      BY <3>1, SubSeqProperties
    <3> HIDE DEF t
    <3>3. t = SubSeq(bytes, 1, m)
      BY DEF t
    <3> QED
      BY <1>2, <3>1, <3>2, <3>3
  <2>3. CASE m < 0
    <3>1. t = <<>> /\ SubSeq(bytes, 1, 0) = <<>>
      BY <1>2, <2>3
    <3> HIDE DEF t
    <3>2. 0 \in Nat /\ 0 <= Len(bytes)
      BY <1>1
    <3> QED BY <3>1, <3>2, EmptySeq
  <2> QED BY <1>2, <2>2, <2>3
<1>4. Len(bytes) <= cap - (Len(b.log) - b.base) => t = bytes
  <2> SUFFICES ASSUME Len(bytes) <= cap - (Len(b.log) - b.base) PROVE t = bytes
    OBVIOUS
  <2>1. m = Len(bytes)
    BY <1>1 DEF AtMost, Room, Size, End
  <2> QED BY <1>1, <2>1
<1>5. d = [b EXCEPT !.log = x]
  BY DEF Append_
<1> HIDE DEF m, t
<1>6. x \in Seq(Nat) /\ Len(x) \in Nat /\ b.next <= Len(x)
  <2>1. Len(t) \in Nat /\ Len(b.log) \in Nat
    BY <1>1, <1>3
  <2>2. x \in Seq(Nat) /\ Len(x) = Len(b.log) + Len(t)
    BY <1>1, <1>3
  <2> QED BY <1>1, <2>1, <2>2 DEF Held
<1> HIDE DEF x
<1>7. /\ Held(d) /\ d.log = x /\ d.base = b.base /\ d.next = b.next
      /\ d.gen = b.gen /\ d.overflowed = b.overflowed
  <2> HIDE DEF d
  <2> QED BY <1>1, <1>5, <1>6, Zenon DEF Held, Buffers
<1> HIDE DEF d
<1> QED
  BY <1>3, <1>4, <1>7, Zenon DEF x

(* Only the buffer of a stream changes.                                    *)
LEMMA OutTyped ==
    ASSUME NEW s, StreamOK(s), NEW b, Held(b)
    PROVE  LET t == [s EXCEPT !.out = b] IN
           /\ StreamOK(t) /\ t.out = b /\ t.in = s.in /\ t.state = s.state
           /\ t.overflow = s.overflow /\ t.conn = s.conn
<1> DEFINE t == [s EXCEPT !.out = b]
<1>1. /\ t \in Streams /\ t.out = b /\ t.in = s.in /\ t.state = s.state
      /\ t.overflow = s.overflow /\ t.conn = s.conn
  BY DEF StreamOK, Streams, Held
<1> HIDE DEF t
<1> SUFFICES StreamOK(t)
  BY <1>1 DEF t
<1> QED BY <1>1 DEF StreamOK

(* Reap changes the state only.                                            *)
LEMMA ReapTyped ==
    ASSUME NEW s, StreamOK(s), NEW why \in KillReasons
    PROVE  LET t == Reap(s, why) IN
           StreamOK(t) /\ t.out = s.out /\ t.in = s.in /\ t.conn = s.conn
           /\ t.overflow = s.overflow
BY Zenon DEF Reap, StreamOK, Streams, States, Reasons

(* Write appends some of the bytes and says how many it took.              *)
LEMMA WriteTyped ==
    ASSUME plan \in Plans, NEW s, StreamOK(s), NEW bytes \in Seq(Nat)
    PROVE  LET w == Write(s, bytes, Limits)
               t == w.stream
           IN /\ StreamOK(t) /\ t.in = s.in /\ t.conn = s.conn
              /\ t.overflow = s.overflow /\ t.out.gen = s.out.gen
              /\ t.out.base = s.out.base /\ t.out.next = s.out.next
              /\ w.taken \in Nat /\ w.taken <= Len(bytes)
<1> DEFINE room   == WriteRoom(s, Limits)
           fits   == SubSeq(bytes, 1, AtMost(Len(bytes), room))
           stored == Append_(s.out, fits, Capacity(Limits))
           over   == s.state = "Detached" /\ Len(bytes) > room
           resync == s.state = "Detached" /\ s.overflow = "Resync"
           w      == Write(s, bytes, Limits)
           t      == w.stream
           Goal   == /\ StreamOK(t) /\ t.in = s.in /\ t.conn = s.conn
                     /\ t.overflow = s.overflow /\ t.out.gen = s.out.gen
                     /\ t.out.base = s.out.base /\ t.out.next = s.out.next
                     /\ w.taken \in Nat /\ w.taken <= Len(bytes)
<1> SUFFICES Goal
  OBVIOUS
<1>0. /\ Held(s.out) /\ s.out.base \in Nat /\ Len(s.out.log) \in Nat
      /\ Len(bytes) \in Nat /\ s.out.base <= Len(s.out.log)
  BY DEF StreamOK, Held, Buffers
<1>1. room \in Int
  <2>1. /\ Size(s.out) \in Int /\ Room(s.out, Capacity(Limits)) \in Int
        /\ Limits.resend \in Int /\ Limits.disconnect \in Int
    BY <1>0, LimitsTyped DEF Size, Room, End
  <2> QED BY <2>1 DEF WriteRoom, AtMost
<1> HIDE DEF room
<1>2. fits \in Seq(Nat) /\ Len(fits) \in Nat /\ Len(fits) <= Len(bytes)
  <2> DEFINE m == AtMost(Len(bytes), room)
  <2>1. m \in Int /\ m <= Len(bytes)
    BY <1>0, <1>1 DEF AtMost
  <2> HIDE DEF m
  <2>2. \A i \in 1..m : bytes[i] \in Nat
    BY <1>0, <2>1
  <2>3. /\ SubSeq(bytes, 1, m) \in Seq(Nat)
        /\ Len(SubSeq(bytes, 1, m)) = IF 1 <= m THEN m - 1 + 1 ELSE 0
    BY <2>1, <2>2, SubSeqProperties
  <2> QED BY <1>0, <2>1, <2>3 DEF m
<1> HIDE DEF fits
<1>3. /\ Held(stored) /\ stored.base = s.out.base /\ stored.next = s.out.next
      /\ stored.gen = s.out.gen
  <2>1. Capacity(Limits) \in Nat
    BY LimitsTyped
  <2> QED BY <1>0, <1>2, <2>1, AppendTyped, ZenonT(60)
<1> HIDE DEF stored
<1>4. CASE s.state = "Reaped"
  <2>1. w.stream = s /\ w.taken = 0
    BY <1>4 DEF Write
  <2> HIDE DEF w
  <2> QED BY <1>0, <2>1 DEF StreamOK
<1>5. CASE s.state # "Reaped" /\ resync /\ s.out.overflowed
  <2>1. w.stream = s /\ w.taken = Len(bytes)
    BY <1>5 DEF Write
  <2> HIDE DEF w
  <2> QED BY <1>0, <2>1
<1>6. CASE /\ s.state # "Reaped" /\ ~(resync /\ s.out.overflowed)
           /\ over /\ s.overflow = "Reap"
  <2>1. w.stream = Reap(s, "DisconnectBufferOverflow") /\ w.taken = 0
    BY <1>6 DEF Write, room
  <2> HIDE DEF w
  <2>2. "DisconnectBufferOverflow" \in KillReasons
    BY DEF KillReasons
  <2>3. /\ StreamOK(t) /\ t.out = s.out /\ t.in = s.in /\ t.conn = s.conn
        /\ t.overflow = s.overflow
    BY <2>1, <2>2, ReapTyped
  <2> QED BY <1>0, <2>1, <2>3
<1>7. CASE /\ s.state # "Reaped" /\ ~(resync /\ s.out.overflowed)
           /\ ~(over /\ s.overflow = "Reap") /\ over /\ resync
  <2> DEFINE b == SetRingOverflowed(stored)
  <2>1. w.stream = [s EXCEPT !.out = b] /\ w.taken = Len(bytes)
    BY <1>7 DEF Write, room, fits, stored
  <2>2. /\ Held(b) /\ b.base = s.out.base /\ b.next = s.out.next
        /\ b.gen = s.out.gen
    BY <1>3, Zenon DEF SetRingOverflowed, Held, Buffers
  <2> HIDE DEF b, w
  <2>3. /\ StreamOK(t) /\ t.out = b /\ t.in = s.in /\ t.conn = s.conn
        /\ t.overflow = s.overflow
    BY <2>1, <2>2, OutTyped
  <2> QED BY <1>0, <2>1, <2>2, <2>3
<1>8. CASE /\ s.state # "Reaped" /\ ~(resync /\ s.out.overflowed)
           /\ ~(over /\ s.overflow = "Reap") /\ ~(over /\ resync)
  <2>1. w.stream = [s EXCEPT !.out = stored] /\ w.taken = Len(fits)
    BY <1>8, ZenonT(30) DEF Write, room, fits, stored
  <2> HIDE DEF w
  <2>2. /\ StreamOK(t) /\ t.out = stored /\ t.in = s.in /\ t.conn = s.conn
        /\ t.overflow = s.overflow
    BY <1>3, <2>1, OutTyped
  <2> QED BY <1>2, <1>3, <2>1, <2>2
<1> QED
  BY <1>4, <1>5, <1>6, <1>7, <1>8, Zenon

(* The client's Write of a byte its buffer accepts appends that byte.      *)
LEMMA TypesOne ==
    ASSUME plan \in Plans, NEW s, StreamOK(s), NEW n \in Nat,
           s.state # "Reaped", s.overflow = "Backpressure",
           s.out.overflowed = FALSE, AcceptsWrites(s, Limits)
    PROVE  LET t == Write(s, <<n>>, Limits).stream IN
           /\ t.out.log = Append(s.out.log, n) /\ t.state = s.state
           /\ t.out.overflowed = FALSE
<1> DEFINE bytes  == <<n>>
           room   == WriteRoom(s, Limits)
           fits   == SubSeq(bytes, 1, AtMost(Len(bytes), room))
           stored == Append_(s.out, fits, Capacity(Limits))
           t      == Write(s, bytes, Limits).stream
<1> SUFFICES /\ t.out.log = Append(s.out.log, n) /\ t.state = s.state
             /\ t.out.overflowed = FALSE
  OBVIOUS
<1>0. /\ Held(s.out) /\ s.out.base \in Nat /\ Len(s.out.log) \in Nat
      /\ s.out.base <= Len(s.out.log) /\ s.out.log \in Seq(Nat)
  BY DEF StreamOK, Held, Buffers
<1>1. /\ room \in Int /\ room >= 1
      /\ 1 <= Capacity(Limits) - (Len(s.out.log) - s.out.base)
  <2> DEFINE held == Size(s.out)
             left == Room(s.out, Capacity(Limits))
             top  == IF s.state = "Live" THEN Limits.resend ELSE Limits.disconnect
  <2>1. /\ held \in Int /\ left \in Int /\ top \in Int
        /\ left = Capacity(Limits) - (Len(s.out.log) - s.out.base)
    BY <1>0, LimitsTyped DEF Size, Room, End
  <2>2. held < top /\ left > 0
    BY DEF AcceptsWrites
  <2>3. room = AtMost(IF held < top THEN top - held ELSE 0, left)
    BY DEF WriteRoom
  <2> HIDE DEF held, left, top, room
  <2> QED BY <2>1, <2>2, <2>3 DEF AtMost
<1>2. fits = bytes /\ Len(bytes) = 1 /\ bytes \in Seq(Nat)
  <2> HIDE DEF room
  <2>1. Len(bytes) = 1 /\ bytes \in Seq(Nat)
    OBVIOUS
  <2>2. AtMost(Len(bytes), room) = 1
    BY <1>1, <2>1 DEF AtMost
  <2>3. fits = SubSeq(bytes, 1, Len(bytes))
    BY <2>1, <2>2
  <2> HIDE DEF bytes, fits
  <2> QED BY <2>1, <2>3
<1>3. t = [s EXCEPT !.out = stored]
  <2>1. ~(Len(bytes) > room)
    BY <1>1, <1>2
  <2> QED BY <2>1 DEF Write, room
<1> HIDE DEF room, fits
<1>4. /\ Held(stored) /\ stored.log = s.out.log \o bytes
      /\ stored.overflowed = s.out.overflowed
  <2>1. Held(s.out) /\ Capacity(Limits) \in Nat
    BY <1>0, LimitsTyped
  <2>2. Len(bytes) <= Capacity(Limits) - (Len(s.out.log) - s.out.base)
    BY <1>1, <1>2
  <2> QED BY <1>2, <2>1, <2>2, AppendTyped, ZenonT(30)
<1>5. s.out.log \o bytes = Append(s.out.log, n)
  BY <1>0
<1> HIDE DEF stored, t, bytes
<1> QED
  BY <1>3, <1>4, <1>5, OutTyped, Zenon

(* Attach: replay from where the peer is.                                  *)
LEMMA AttachTyped ==
    ASSUME NEW s, StreamOK(s), NEW n \in Nat
    PROVE  LET r == Attach(s, n)
               t == r.stream
           IN /\ StreamOK(t) /\ t.in = s.in /\ t.overflow = s.overflow
              /\ r.err \in {"ok", "SessionReaped", "AckBeyondSent", "PeerBehindBuffer"}
              /\ r.err = "ok" => /\ t.state = "Live" /\ t.out = ResetSendNext(s.out, n).buf
                                 /\ t.conn = s.conn + 1
                                 /\ s.out.base <= n /\ n <= Len(s.out.log)
              /\ /\ s.state # "Reaped" /\ s.out.base <= n /\ n <= Len(s.out.log)
                 => r.err = "ok"
<1> DEFINE r == Attach(s, n)
           o == ResetSendNext(s.out, n)
           t == r.stream
<1>0. Held(s.out)
  BY DEF StreamOK
<1>1. /\ Held(o.buf) /\ o.err \in {"ok", "AckBeyondSent", "PeerBehindBuffer"}
      /\ s.out.base <= n /\ n <= Len(s.out.log) => o.err = "ok"
      /\ o.err = "ok" => s.out.base <= n /\ n <= Len(s.out.log)
  BY <1>0, ResetTyped, Zenon
<1>2. CASE s.state = "Reaped"
  BY <1>2, Zenon DEF Attach
<1>3. CASE s.state # "Reaped" /\ o.err # "ok"
  BY <1>1, <1>3 DEF Attach
<1>4. CASE s.state # "Reaped" /\ o.err = "ok"
  <2>1. r.err = "ok" /\ t = [s EXCEPT !.out = o.buf, !.state = "Live", !.conn = @ + 1]
    BY <1>4 DEF Attach, Attached
  <2> HIDE DEF o, r
  <2> DEFINE b == o.buf
  <2>2. Held(b) /\ b \in Buffers
    BY <1>1 DEF Held
  <2>3. /\ t \in Streams /\ t.out = b /\ t.in = s.in /\ t.state = "Live"
        /\ t.overflow = s.overflow /\ t.conn = s.conn + 1
    <3> DEFINE x == s.conn + 1
    <3>1. x \in Nat /\ s \in Streams
      BY DEF StreamOK, Streams
    <3>2. t = [s EXCEPT !.out = b, !.state = "Live", !.conn = x]
      BY <2>1
    <3> HIDE DEF b, t, x
    <3>3. /\ t \in Streams /\ t.out = b /\ t.in = s.in /\ t.state = "Live"
          /\ t.overflow = s.overflow /\ t.conn = x
      BY <2>2, <3>1, <3>2, Zenon DEF Streams, States
    <3> QED BY <3>3 DEF x
  <2>4. StreamOK(t)
    BY <2>2, <2>3, Zenon DEF StreamOK
  <2> QED
    BY <1>1, <1>4, <2>1, <2>3, <2>4 DEF o, r
<1> QED
  BY <1>2, <1>3, <1>4

(* AttachPathB leaves both directions alone.                               *)
LEMMA PathBTyped ==
    ASSUME NEW s, StreamOK(s)
    PROVE  LET r == AttachPathB(s)
               t == r.stream
           IN /\ StreamOK(t) /\ t.in = s.in /\ t.overflow = s.overflow /\ t.out = s.out
              /\ r.err \in {"ok", "SessionReaped"}
              /\ r.err = "ok" => t.state = "Live" /\ t.conn = s.conn + 1
<1> DEFINE r == AttachPathB(s)
           t == r.stream
<1>2. CASE s.state = "Reaped"
  BY <1>2 DEF AttachPathB
<1>4. CASE s.state # "Reaped"
  <2>1. r.err = "ok" /\ t = [s EXCEPT !.out = s.out, !.state = "Live", !.conn = @ + 1]
    BY <1>4 DEF AttachPathB, Attached
  <2>3. /\ t \in Streams /\ t.out = s.out /\ t.in = s.in /\ t.state = "Live"
        /\ t.overflow = s.overflow /\ t.conn = s.conn + 1
    <3> DEFINE x == s.conn + 1
    <3>1. x \in Nat /\ s \in Streams
      BY DEF StreamOK, Streams
    <3>2. t = [s EXCEPT !.out = s.out, !.state = "Live", !.conn = x]
      BY <2>1
    <3> HIDE DEF t, x
    <3>3. /\ t \in Streams /\ t.out = s.out /\ t.in = s.in /\ t.state = "Live"
          /\ t.overflow = s.overflow /\ t.conn = x
      BY <3>1, <3>2, Zenon DEF Streams, States
    <3> QED BY <3>3 DEF x
  <2> QED
    BY <2>1, <2>3 DEF StreamOK
<1> QED
  BY <1>2, <1>4, Zenon

(* Detach changes the state only.                                          *)
LEMMA DetachTyped ==
    ASSUME NEW s, StreamOK(s), NEW n
    PROVE  LET t == Detach(s, n, 0) IN
           /\ StreamOK(t) /\ t.out = s.out /\ t.in = s.in /\ t.conn = s.conn
           /\ t.overflow = s.overflow /\ (t.state = "Reaped" => s.state = "Reaped")
BY Zenon DEF Detach, StreamOK, Streams, States

(* The negotiated overflow mode.                                           *)
LEMMA ModeTyped ==
    ASSUME NEW s, StreamOK(s), NEW grid \in BOOLEAN
    PROVE  LET t == SetOverflowMode(s, grid) IN
           /\ StreamOK(t) /\ t.out = s.out /\ t.in = s.in /\ t.conn = s.conn
           /\ t.state = s.state
BY DEF SetOverflowMode, StreamOK, Streams, OverflowModes

(* A new generation is an empty buffer.                                    *)
LEMMA GenerationTyped ==
    ASSUME NEW b, Held(b)
    PROVE  LET d == NewGeneration(b) IN
           Held(d) /\ d.gen = b.gen + 1 /\ d.log = <<>> /\ d.base = 0 /\ d.next = 0
<1> DEFINE x == b.gen + 1
           d == NewGeneration(b)
<1>1. x \in Nat
  BY DEF Held, Buffers
<1>2. d = [NewBuffer EXCEPT !.gen = x]
  BY DEF NewGeneration
<1> HIDE DEF x, d
<1>3. /\ NewBuffer \in Buffers /\ NewBuffer.log = <<>> /\ NewBuffer.base = 0
      /\ NewBuffer.next = 0
  BY EmptySeq DEF NewBuffer, Buffers
<1>4. d \in Buffers /\ d.gen = x /\ d.log = <<>> /\ d.base = 0 /\ d.next = 0
  BY <1>3, <1>1, <1>2 DEF Buffers
<1>5. Held(d) /\ d.gen = x /\ d.log = <<>> /\ d.base = 0 /\ d.next = 0
  BY <1>4 DEF Held
<1> QED
  BY <1>5 DEF x, d

-----------------------------------------------------------------------------
(* Cursors *)

(* Receive hands on the part of a frame that is new.                       *)
LEMMA ReceiveTyped ==
    ASSUME NEW r, CursorOK(r), NEW off \in Nat, NEW bytes \in Seq(Nat)
    PROVE  LET g == Receive(r, off, bytes)
               d == g.cur
           IN /\ CursorOK(d) /\ d.onDelivery = r.onDelivery
              /\ g.new \in Seq(Nat) /\ g.err \in {"ok", "StreamGap"}
              /\ d.recv = r.recv + Len(g.new)
              /\ d.pending = IF r.onDelivery THEN r.pending + Len(g.new)
                             ELSE r.pending
              /\ \A i \in 1..Len(g.new) : /\ r.recv - off + i \in 1..Len(bytes)
                                          /\ g.new[i] = bytes[r.recv - off + i]
              /\ g.err = "ok" => off + Len(bytes) <= d.recv
              /\ d.recv = r.recv \/ d.recv = off + Len(bytes)
              /\ off <= r.recv /\ off + Len(bytes) <= OffsetMax => g.err = "ok"
<1> DEFINE g == Receive(r, off, bytes)
           end == off + Len(bytes)
           m == r.recv - off + 1
           tail == SubSeq(bytes, m, Len(bytes))
           d == g.cur
<1> SUFFICES
       /\ CursorOK(d) /\ d.onDelivery = r.onDelivery
       /\ g.new \in Seq(Nat) /\ g.err \in {"ok", "StreamGap"}
       /\ d.recv = r.recv + Len(g.new)
       /\ d.pending = IF r.onDelivery THEN r.pending + Len(g.new) ELSE r.pending
       /\ \A i \in 1..Len(g.new) : /\ r.recv - off + i \in 1..Len(bytes)
                                   /\ g.new[i] = bytes[r.recv - off + i]
       /\ g.err = "ok" => off + Len(bytes) <= d.recv
       /\ d.recv = r.recv \/ d.recv = off + Len(bytes)
       /\ off <= r.recv /\ off + Len(bytes) <= OffsetMax => g.err = "ok"
  OBVIOUS
<1>0. /\ r.recv \in Nat /\ r.pending \in Nat /\ r.onDelivery \in BOOLEAN
      /\ r.pending <= r.recv /\ Len(bytes) \in Nat /\ end \in Nat
  BY DEF CursorOK, Cursors
<1>1. CASE end > OffsetMax \/ off > r.recv
  <2>1. g = [err |-> "StreamGap", cur |-> r, new |-> <<>>]
    BY <1>1 DEF Receive
  <2> HIDE DEF g
  <2>2. /\ ~(off <= r.recv /\ off + Len(bytes) <= OffsetMax)
        /\ r.recv = r.recv + Len(<<>>) /\ r.pending = r.pending + Len(<<>>)
    BY <1>0, <1>1, OffsetMaxAssumption
  <2> QED BY <1>0, <2>1, <2>2, EmptySeq
<1>2. CASE ~(end > OffsetMax \/ off > r.recv) /\ end <= r.recv
  <2>1. g = [err |-> "ok", cur |-> r, new |-> <<>>]
    BY <1>2 DEF Receive
  <2> HIDE DEF g
  <2>2. r.recv = r.recv + Len(<<>>) /\ r.pending = r.pending + Len(<<>>)
    BY <1>0
  <2> QED BY <1>0, <1>2, <2>1, <2>2, EmptySeq
<1>3. CASE ~(end > OffsetMax \/ off > r.recv) /\ ~(end <= r.recv)
  <2> DEFINE p == IF r.onDelivery THEN r.pending + Len(tail) ELSE r.pending
  <2>1. /\ g.err = "ok" /\ g.new = tail
        /\ g.cur = [r EXCEPT !.recv = end, !.pending = p]
    BY <1>3, Zenon DEF Receive
  <2>2. m \in Nat /\ 1 <= m /\ m <= Len(bytes)
    BY <1>0, <1>3
  <2>3. /\ tail \in Seq(Nat) /\ Len(tail) = Len(bytes) - m + 1
        /\ \A i \in 1..(Len(bytes) - m + 1) : tail[i] = bytes[m + i - 1]
    <3> HIDE DEF m
    <3>1. \A i \in m..Len(bytes) : bytes[i] \in Nat
      BY <2>2
    <3> QED BY <2>2, <3>1, SubSeqProperties, SMTT(30)
  <2>4. Len(tail) = end - r.recv /\ Len(tail) \in Nat
    BY <1>0, <1>3, <2>3, SMTT(30)
  <2>5. \A i \in 1..Len(tail) : /\ r.recv - off + i \in 1..Len(bytes)
                                /\ tail[i] = bytes[r.recv - off + i]
    <3> SUFFICES ASSUME NEW i \in 1..Len(tail)
                 PROVE  r.recv - off + i \in 1..Len(bytes)
                        /\ tail[i] = bytes[r.recv - off + i]
      BY Zenon
    <3> HIDE DEF tail
    <3>1. i \in 1..(Len(bytes) - m + 1) /\ m + i - 1 = r.recv - off + i
      BY <1>0, <2>3, <2>4
    <3>2. r.recv - off + i \in 1..Len(bytes)
      <4>1. off <= r.recv /\ i \in Nat /\ 1 <= i /\ i <= off + Len(bytes) - r.recv
        BY <1>0, <1>3, <2>4
      <4> QED BY <1>0, <4>1, SMTT(30)
    <3> QED BY <2>3, <3>1, <3>2, Zenon
  <2> HIDE DEF tail, m
  <2>6. p \in Nat /\ p <= end
    BY <1>0, <1>3, <2>4
  <2> HIDE DEF p
  <2>7. /\ CursorOK(g.cur) /\ g.cur.onDelivery = r.onDelivery
        /\ g.cur.recv = end /\ g.cur.pending = p
    <3> HIDE DEF g, end
    <3> SUFFICES CursorOK(d) /\ d.onDelivery = r.onDelivery /\ d.recv = end /\ d.pending = p
      OBVIOUS
    <3>1. d = [r EXCEPT !.recv = end, !.pending = p]
      BY <2>1
    <3> HIDE DEF d
    <3> QED BY <1>0, <2>6, <3>1, Zenon DEF CursorOK, Cursors
  <2>8. end = r.recv + Len(tail)
    BY <1>0, <2>4
  <2> HIDE DEF g
  <2>9. d.recv = end /\ d.recv = r.recv + Len(g.new) /\ g.err = "ok" /\ end <= d.recv
    BY <1>0, <2>1, <2>7, <2>8
  <2>10. d.pending = IF r.onDelivery THEN r.pending + Len(g.new) ELSE r.pending
    BY <2>1, <2>7 DEF p
  <2>11. CursorOK(d) /\ d.onDelivery = r.onDelivery /\ g.new \in Seq(Nat)
    BY <2>1, <2>3, <2>7
  <2>12. \A i \in 1..Len(g.new) : /\ r.recv - off + i \in 1..Len(bytes)
                                  /\ g.new[i] = bytes[r.recv - off + i]
    BY <2>1, <2>5
  <2> QED
    BY <2>9, <2>10, <2>11, <2>12
<1> QED
  BY <1>1, <1>2, <1>3, ZenonT(30)

(* What the pty takes is no longer pending.                                *)
LEMMA DeliveredTyped ==
    ASSUME NEW r, CursorOK(r), NEW n \in Nat, n <= r.pending
    PROVE  LET d == MarkDelivered(r, n) IN
           /\ CursorOK(d) /\ d.onDelivery = r.onDelivery /\ d.recv = r.recv
           /\ d.pending = r.pending - n
BY DEF MarkDelivered, CursorOK, Cursors

(* What the queue has no room for was not received.                        *)
LEMMA UnreceiveTyped ==
    ASSUME NEW r, CursorOK(r), NEW n \in Nat, n <= r.pending
    PROVE  LET d == Unreceive(r, n) IN
           /\ CursorOK(d) /\ d.onDelivery = r.onDelivery /\ d.recv = r.recv - n
           /\ d.pending = r.pending - n
<1> DEFINE d == Unreceive(r, n)
           x == r.pending - n
           y == r.recv - n
<1>1. x \in Nat /\ y \in Nat /\ x <= y
  BY DEF CursorOK, Cursors
<1>2. d = [r EXCEPT !.pending = x, !.recv = y]
  <2>1. ~(n > r.pending)
    BY DEF CursorOK, Cursors
  <2> QED BY <2>1 DEF Unreceive
<1> HIDE DEF d, x, y
<1>3. CursorOK(d) /\ d.onDelivery = r.onDelivery /\ d.recv = y /\ d.pending = x
  BY <1>1, <1>2, Zenon DEF CursorOK, Cursors
<1> QED
  BY <1>3 DEF d, x, y

(* The cursor of a new generation.                                         *)
LEMMA ResetCursorTyped ==
    ASSUME NEW r, CursorOK(r)
    PROVE  LET d == Reset(r, 0) IN
           CursorOK(d) /\ d.onDelivery = r.onDelivery /\ d.recv = 0 /\ d.pending = 0
<1> DEFINE d == Reset(r, 0)
<1>1. d = [r EXCEPT !.recv = 0, !.pending = 0]
  BY DEF Reset
<1> HIDE DEF d
<1>2. d \in Cursors /\ d.onDelivery = r.onDelivery /\ d.recv = 0 /\ d.pending = 0
  BY <1>1, Zenon DEF CursorOK, Cursors
<1>3. CursorOK(d)
  BY <1>2 DEF CursorOK
<1> QED
  BY <1>2, <1>3 DEF d

-----------------------------------------------------------------------------
(* Frames under way *)

(* More has been received, typed or delivered.                             *)
LEMMA ReachedLater ==
    ASSUME NEW off \in Nat, NEW m \in Nat, NEW n \in Nat, m <= n, NEW s, NEW j,
           Reached(off, m, s, j)
    PROVE  Reached(off, n, s, j)
BY DEF Reached

LEMMA NoGapLater ==
    ASSUME NEW s \in Seq(Frames), NEW m \in Nat, NEW n \in Nat, m <= n, NoGap(s, m)
    PROVE  NoGap(s, n)
<1> SUFFICES ASSUME NEW i \in 1..Len(s), s[i].type = "Data"
             PROVE  Reached(s[i].off, n, s, i - 1)
  BY DEF NoGap
<1>1. s[i].off \in Nat /\ Reached(s[i].off, m, s, i - 1)
  BY FrameFields DEF NoGap
<1> QED
  BY <1>1, ReachedLater

LEMMA ExcerptLater ==
    ASSUME NEW f \in Frames, NEW m \in Nat, NEW n \in Nat, m <= n, Excerpt(f, m)
    PROVE  Excerpt(f, n)
<1> SUFFICES ASSUME f.type = "Data" PROVE f.off + Len(f.bytes) <= n
  BY DEF Excerpt
<1>1. f.off \in Nat /\ Len(f.bytes) \in Nat
  BY FrameFields
<1> QED
  BY <1>1 DEF Excerpt

LEMMA HonoursLater ==
    ASSUME NEW f \in Frames, NEW m \in Nat, NEW n \in Nat, m <= n, Honours(f, m)
    PROVE  Honours(f, n)
<1>1. /\ f.type = "AuthOk" => f.off \in Nat
      /\ f.type \in {"Data", "Ack"} => f.ack \in Nat
  BY FrameFields
<1> QED
  BY <1>1 DEF Honours

(* A frame is added.                                                       *)
LEMMA ReachedPushed ==
    ASSUME NEW s \in Seq(Frames), NEW f \in Frames, NEW off \in Nat, NEW n \in Nat,
           \/ Reached(off, n, s, Len(s))
           \/ f.type = "Data" /\ off <= f.off + Len(f.bytes)
    PROVE  Reached(off, n, Append(s, f), Len(Append(s, f)))
<1> DEFINE t == Append(s, f)
<1>1. /\ Len(t) = Len(s) + 1 /\ Len(s) \in Nat /\ t[Len(t)] = f
      /\ \A i \in 1..Len(s) : t[i] = s[i] /\ i \in 1..Len(t)
  OBVIOUS
<1>2. Len(t) \in 1..Len(t)
  BY <1>1
<1> HIDE DEF t
<1> SUFFICES Reached(off, n, t, Len(t))
  BY Zenon DEF t
<1> QED
  BY <1>1, <1>2 DEF Reached

LEMMA NoGapPushed ==
    ASSUME NEW s \in Seq(Frames), NEW f \in Frames, NEW n \in Nat, NoGap(s, n),
           f.type = "Data" => Reached(f.off, n, s, Len(s))
    PROVE  NoGap(Append(s, f), n)
<1> DEFINE t == Append(s, f)
<1>1. /\ Len(t) = Len(s) + 1 /\ Len(s) \in Nat /\ t[Len(s) + 1] = f
      /\ \A i \in 1..Len(s) : t[i] = s[i]
  OBVIOUS
<1> HIDE DEF t
<1> SUFFICES ASSUME NEW i \in 1..Len(t), t[i].type = "Data"
             PROVE  Reached(t[i].off, n, t, i - 1)
  BY DEF NoGap, t
<1>2. i - 1 <= Len(s) /\ i - 1 \in Nat /\ \A j \in 1..(i - 1) : t[j] = s[j]
  BY <1>1
<1>3. Reached(t[i].off, n, s, i - 1)
  <2>1. CASE i = Len(s) + 1
    <3>1. i - 1 = Len(s)
      BY <1>1, <2>1
    <3> QED BY <1>1, <2>1, <3>1, Zenon
  <2>2. CASE i # Len(s) + 1
    <3>1. i \in 1..Len(s)
      BY <1>1, <2>2
    <3> QED BY <1>1, <3>1, Zenon DEF NoGap
  <2> QED BY <2>1, <2>2, Zenon
<1> QED
  BY <1>2, <1>3, Zenon DEF Reached

(* The first frame is taken, and what it holds is received.                *)
LEMMA ReachedPopped ==
    ASSUME NEW s \in Seq(Frames), s # <<>>, NEW off \in Nat, NEW n \in Nat,
           NEW m \in Nat, n <= m, NEW j \in 0..(Len(s) - 1),
           Head(s).type = "Data" => Head(s).off + Len(Head(s).bytes) <= m,
           Reached(off, n, s, j + 1)
    PROVE  Reached(off, m, Tail(s), j)
<1> DEFINE t == Tail(s)
<1>1. /\ Len(t) = Len(s) - 1 /\ Len(s) \in Nat /\ Head(s) = s[1] /\ Head(s) \in Frames
      /\ \A i \in 1..Len(t) : t[i] = s[i + 1]
  BY HeadTailProperties
<1> HIDE DEF t
<1> SUFFICES Reached(off, m, t, j)
  BY DEF t
<1>2. CASE off <= n
  BY <1>2 DEF Reached
<1>3. ASSUME NEW i \in 1..(j + 1), s[i].type = "Data", off <= s[i].off + Len(s[i].bytes)
      PROVE  Reached(off, m, t, j)
  <2>1. CASE i = 1
    <3>1. s[1].off \in Nat /\ Len(s[1].bytes) \in Nat
      BY <1>1, <1>3, <2>1, FrameFields
    <3>2. s[1].off + Len(s[1].bytes) <= m /\ off <= s[1].off + Len(s[1].bytes)
      BY <1>1, <1>3, <2>1, Zenon
    <3> QED BY <3>1, <3>2 DEF Reached
  <2>2. CASE i # 1
    <3> DEFINE h == i - 1
    <3>1. h \in 1..j /\ h \in 1..Len(t) /\ h + 1 = i
      BY <1>1, <1>3, <2>2
    <3>2. t[h] = s[i]
      BY <1>1, <3>1
    <3> HIDE DEF h
    <3> QED BY <1>3, <3>1, <3>2, Zenon DEF Reached
  <2> QED BY <2>1, <2>2, Zenon
<1> QED
  BY <1>2, <1>3, Zenon DEF Reached

LEMMA NoGapPopped ==
    ASSUME NEW s \in Seq(Frames), s # <<>>, NEW n \in Nat, NEW m \in Nat, n <= m,
           Head(s).type = "Data" => Head(s).off + Len(Head(s).bytes) <= m,
           NoGap(s, n)
    PROVE  NoGap(Tail(s), m)
<1> DEFINE t == Tail(s)
<1>1. /\ t \in Seq(Frames) /\ Len(t) = Len(s) - 1 /\ Len(s) \in Nat
      /\ \A i \in 1..Len(t) : t[i] = s[i + 1]
  BY HeadTailProperties
<1> SUFFICES ASSUME NEW i \in 1..Len(t), t[i].type = "Data"
             PROVE  Reached(t[i].off, m, t, i - 1)
  BY DEF NoGap
<1>2. /\ i + 1 \in 1..Len(s) /\ t[i] = s[i + 1] /\ i - 1 \in 0..(Len(s) - 1)
      /\ (i + 1) - 1 = (i - 1) + 1
  BY <1>1
<1>3. t[i].off \in Nat
  BY <1>1, FrameFields
<1>4. Reached(t[i].off, n, s, (i - 1) + 1)
  BY <1>2, Zenon DEF NoGap
<1> HIDE DEF t
<1> QED
  BY <1>2, <1>3, <1>4, ReachedPopped, Zenon DEF t

-----------------------------------------------------------------------------
(* What a step leaves alone *)

(* The numbers of a stream.                                                *)
LEMMA StreamNumbers ==
    ASSUME NEW s, StreamOK(s), CursorOK(s.in)
    PROVE  /\ s.in.recv \in Nat /\ s.in.pending \in Nat /\ s.in \in Cursors
           /\ AckOffset(s.in) \in Nat /\ AckOffset(s.in) <= s.in.recv
           /\ AckOffset(s.in) = s.in.recv - s.in.pending
           /\ s.out.log \in Seq(Nat) /\ Len(s.out.log) \in Nat
           /\ s.out.base \in Nat /\ s.out.next \in Nat /\ s.out.gen \in Nat
           /\ s.out.base <= s.out.next /\ s.out.next <= Len(s.out.log)
           /\ s.conn \in Nat
BY SMTT(30) DEF StreamOK, CursorOK, AckOffset, Held, Buffers, Cursors, Streams

(* A connection on which nothing moves.                                    *)
LEMMA LinkKept ==
    ASSUME NEW k \in Conns, LinkOK(k), UNCHANGED <<cConn, cLive, used>>,
           k = cConn /\ cLive = FALSE => c'.out.base = c.out.base,
           up'[k] = up[k], down'[k] = down[k],
           \/ ac'[k].stage = ac[k].stage
           \/ {ac[k].stage, ac'[k].stage} \subseteq {"snapshot", "live"}
    PROVE  LinkOK(k)'
BY Zenon DEF LinkOK, Greeting

LEMMA CarryKept ==
    ASSUME TypeInv, TypeInv', NEW k \in Conns, CarryOK(k),
           a.in.recv <= a'.in.recv, AckOffset(a.in) <= AckOffset(a'.in),
           Len(c.out.log) <= Len(c'.out.log),
           up'[k] = up[k], down'[k] = down[k],
           ac'[k].stage # "closed" => ac[k].stage # "closed",
           k = cConn' /\ cLive' = TRUE =>
               /\ k = cConn /\ cLive = TRUE
               /\ c'.out.next = c.out.next \/ c'.out.next <= a'.in.recv
    PROVE  CarryOK(k)'
<1>1. /\ a.in.recv \in Nat /\ a'.in.recv \in Nat /\ AckOffset(a.in) \in Nat
      /\ AckOffset(a'.in) \in Nat
  BY StreamNumbers, Zenon DEF TypeInv, AgentTyped
<1>2. /\ Len(c.out.log) \in Nat /\ Len(c'.out.log) \in Nat /\ c.out.next \in Nat
      /\ c'.out.next \in Nat
  BY StreamNumbers, Zenon DEF TypeInv, ClientTyped
<1>3. up[k] \in Seq(Frames) /\ down[k] \in Seq(Frames)
  BY Zenon DEF TypeInv, Links
<1>4. \A i \in 1..Len(up'[k]) : Excerpt(up'[k][i], Len(c'.out.log))
  <2> SUFFICES ASSUME NEW i \in 1..Len(up[k])
               PROVE  Excerpt(up[k][i], Len(c'.out.log))
    BY Zenon
  <2>1. up[k][i] \in Frames /\ Excerpt(up[k][i], Len(c.out.log))
    BY <1>3, Elements, Zenon DEF CarryOK
  <2> QED BY <1>2, <2>1, ExcerptLater, Zenon
<1>5. \A i \in 1..Len(down'[k]) : Honours(down'[k][i], AckOffset(a'.in))
  <2> SUFFICES ASSUME NEW i \in 1..Len(down[k])
               PROVE  Honours(down[k][i], AckOffset(a'.in))
    BY Zenon
  <2>1. down[k][i] \in Frames /\ Honours(down[k][i], AckOffset(a.in))
    BY <1>3, Elements, Zenon DEF CarryOK
  <2> QED BY <1>1, <2>1, HonoursLater, Zenon
<1>6. ac'[k].stage # "closed" => NoGap(up'[k], a'.in.recv)
  BY <1>1, <1>3, NoGapLater, Zenon DEF CarryOK
<1>7. k = cConn' /\ cLive' = TRUE /\ ac'[k].stage # "closed" =>
         Reached(c'.out.next, a'.in.recv, up'[k], Len(up'[k]))
  <2> SUFFICES ASSUME k = cConn', cLive' = TRUE, ac'[k].stage # "closed"
               PROVE  Reached(c'.out.next, a'.in.recv, up[k], Len(up[k]))
    BY Zenon
  <2>1. CASE c'.out.next <= a'.in.recv
    BY <2>1, Zenon DEF Reached
  <2>2. CASE c'.out.next = c.out.next
    <3>1. Reached(c.out.next, a.in.recv, up[k], Len(up[k]))
      BY Zenon DEF CarryOK
    <3>2. Reached(c.out.next, a'.in.recv, up[k], Len(up[k]))
      <4>1. CASE c.out.next <= a.in.recv
        <5>1. c.out.next <= a'.in.recv
          BY <1>1, <1>2, <4>1, Trans, Zenon
        <5> QED BY <5>1, Zenon DEF Reached
      <4>2. CASE ~(c.out.next <= a.in.recv)
        BY <3>1, <4>2, Zenon DEF Reached
      <4> QED BY <4>1, <4>2, Zenon
    <3> QED BY <2>2, <3>2, Zenon
  <2> QED BY <2>1, <2>2, Zenon
<1> QED
  BY <1>4, <1>5, <1>6, <1>7, Zenon DEF CarryOK

(* The keystrokes stay where they are.                                     *)
LEMMA KeyedKept ==
    ASSUME TypeInv, Keyed, UNCHANGED <<plan, ptyIn, ptyGot>>,
           a'.in.recv = a.in.recv, a'.in.pending = a.in.pending,
           c'.out.log = c.out.log,
           c'.out.base = c.out.base \/ c'.out.base <= AckOffset(a.in),
           shell' = "running" => shell = "running"
    PROVE  Keyed'
BY Zenon DEF Keyed, AckOffset

(* The client's part of the invariant, when only the agent moves.          *)
LEMMA ClientStands ==
    ASSUME InputInv, UNCHANGED <<plan, clientVars>>
    PROVE  ClientTyped' /\ GoesOn' /\ c' = c /\ UNCHANGED <<cConn, cLive, used>>
BY Zenon DEF InputInv, TypeInv, ClientTyped, GoesOn, clientVars

(* The agent's part of the invariant, when only the client moves.          *)
LEMMA AgentStands ==
    ASSUME InputInv, UNCHANGED <<plan, agentVars>>
    PROVE  AgentTyped' /\ a' = a /\ ac' = ac /\ UNCHANGED <<ptyIn, ptyGot, shell>>
BY DEF InputInv, TypeInv, AgentTyped, agentVars, ptyVars, snapVars

(* A step of the agent, one connection at a time.                          *)
LEMMA AgentMoves ==
    ASSUME InputInv, UNCHANGED <<plan, clientVars>>, AgentTyped',
           up' \in Links, down' \in Links, Keyed', Unaccused',
           \A j \in Conns : LinkOK(j)' /\ CarryOK(j)'
    PROVE  InputInv'
<1>1. ClientTyped' /\ GoesOn' /\ UNCHANGED <<cConn, cLive, used>>
  BY ClientStands
<1>2. TypeInv'
  BY <1>1, Zenon DEF InputInv, TypeInv
<1>3. Wired'
  BY <1>1, Zenon DEF InputInv, Wired
<1> QED
  BY <1>1, <1>2, <1>3, Zenon DEF InputInv

LEMMA NumbersStay ==
    ASSUME InputInv, a'.in = a.in, c' = c
    PROVE  /\ a.in.recv <= a'.in.recv /\ AckOffset(a.in) <= AckOffset(a'.in)
           /\ Len(c.out.log) <= Len(c'.out.log)
<1>1. StreamOK(a) /\ CursorOK(a.in) /\ StreamOK(c) /\ CursorOK(c.in)
  BY Zenon DEF InputInv, TypeInv, AgentTyped, ClientTyped
<1>2. a.in.recv \in Nat /\ AckOffset(a.in) \in Nat /\ Len(c.out.log) \in Nat
  BY <1>1, StreamNumbers, Zenon
<1> QED
  BY <1>2

(* The agent and its shell, away from what is typed and from the network.  *)
LEMMA AgentKeeps ==
    ASSUME InputInv, UNCHANGED <<plan, clientVars, netVars, ptyIn, ptyGot>>,
           AgentTyped', a'.in = a.in, shell' = "running" => shell = "running",
           \A j \in Conns :
              \/ ac'[j].stage = ac[j].stage
              \/ {ac[j].stage, ac'[j].stage} \subseteq {"snapshot", "live"}
    PROVE  InputInv'
<1>0. TypeInv /\ Keyed /\ Unaccused /\ \A j \in Conns : LinkOK(j) /\ CarryOK(j)
  BY Zenon DEF InputInv, Wired
<1>1. ClientTyped' /\ c' = c /\ UNCHANGED <<cConn, cLive, used>>
  BY ClientStands, Zenon
<1>2. up' = up /\ down' = down /\ errors' = errors
  BY Zenon DEF netVars
<1>3. TypeInv'
  BY <1>0, <1>1, <1>2, Zenon DEF TypeInv
<1>4. Keyed'
  BY <1>0, <1>1, KeyedKept, Zenon
<1>5. Unaccused'
  BY <1>0, <1>2, SMTT(30) DEF Unaccused
<1>6. ASSUME NEW j \in Conns PROVE LinkOK(j)' /\ CarryOK(j)'
  <2>1. LinkOK(j)'
    BY <1>0, <1>1, <1>2, LinkKept, Zenon
  <2>2. /\ a.in.recv <= a'.in.recv /\ AckOffset(a.in) <= AckOffset(a'.in)
        /\ Len(c.out.log) <= Len(c'.out.log)
    BY <1>1, NumbersStay
  <2> QED BY <1>0, <1>1, <1>2, <1>3, <2>1, <2>2, CarryKept, Zenon
<1> QED
  BY <1>2, <1>3, <1>4, <1>5, <1>6, AgentMoves, Zenon DEF TypeInv

(* The agent closes a connection.                                          *)
LEMMA DropKeeps ==
    ASSUME InputInv, NEW k \in Conns, k <= used \/ ac[k].stage # "new",
           UNCHANGED <<plan, clientVars, down, ptyIn, ptyGot, shell>>, AgentTyped',
           a'.in.recv = a.in.recv, a'.in.pending = a.in.pending,
           ac' = [ac EXCEPT ![k] = [NewAgentConn EXCEPT !.stage = "closed"]],
           up' = [up EXCEPT ![k] = <<>>], Unaccused'
    PROVE  InputInv'
<1>0. /\ TypeInv /\ Keyed /\ ac \in [Conns -> AgentConns] /\ up \in Links /\ down \in Links
      /\ \A j \in Conns : LinkOK(j) /\ CarryOK(j)
  BY DEF InputInv, Wired, TypeInv, AgentTyped
<1>1. ClientTyped' /\ c' = c /\ UNCHANGED <<cConn, cLive, used>>
  BY ClientStands
<1>2. /\ up' \in Links /\ up'[k] = <<>> /\ down' \in Links
      /\ \A j \in Conns \ {k} : up'[j] = up[j]
  BY <1>0 DEF Links
<1>3. ac'[k].stage = "closed" /\ \A j \in Conns \ {k} : ac'[j] = ac[j]
  BY <1>0 DEF NewAgentConn
<1>4. TypeInv'
  BY <1>0, <1>1, <1>2 DEF TypeInv
<1>5. Keyed'
  BY <1>0, <1>1, KeyedKept
<1>6. AckOffset(a'.in) = AckOffset(a.in)
  BY DEF AckOffset
<1>7. /\ a.in.recv <= a'.in.recv /\ AckOffset(a.in) <= AckOffset(a'.in)
      /\ Len(c.out.log) <= Len(c'.out.log) /\ used \in Nat
  <2>1. AckOffset(a.in) \in Nat /\ a.in.recv \in Nat
    BY <1>0, StreamNumbers, Zenon DEF TypeInv, AgentTyped
  <2>2. Len(c.out.log) \in Nat /\ used \in Nat
    BY <1>0, StreamNumbers DEF TypeInv, ClientTyped
  <2> QED BY <1>1, <1>6, <2>1, <2>2
<1>8. ASSUME NEW j \in Conns \ {k} PROVE LinkOK(j)' /\ CarryOK(j)'
  <2>1. LinkOK(j)'
    BY <1>0, <1>1, <1>2, <1>3, LinkKept, Zenon
  <2> QED BY <1>0, <1>1, <1>2, <1>3, <1>4, <1>7, <2>1, CarryKept, Zenon
<1>9. LinkOK(k)'
  <2>1. ~(k > used)
    BY <1>0, <1>7 DEF LinkOK, Conns
  <2>2. CASE k = cConn /\ cLive = FALSE
    <3>1. Greeting(k)'
      BY <1>0, <1>1, <1>2, <1>3, <2>2, Zenon DEF LinkOK, Greeting
    <3> QED BY <1>1, <2>1, <2>2, <3>1, Zenon DEF LinkOK
  <2>3. CASE ~(k = cConn /\ cLive = FALSE)
    BY <1>0, <1>1, <1>3, <2>1, <2>3, Zenon DEF LinkOK
  <2> QED BY <2>2, <2>3, Zenon
<1>10. CarryOK(k)'
  <2>1. \A i \in 1..Len(up'[k]) : Excerpt(up'[k][i], Len(c'.out.log))
    BY <1>2
  <2>2. \A i \in 1..Len(down'[k]) : Honours(down'[k][i], AckOffset(a'.in))
    BY <1>0, <1>6 DEF CarryOK
  <2> QED BY <1>3, <2>1, <2>2 DEF CarryOK
<1> QED
  BY <1>2, <1>5, <1>8, <1>9, <1>10, AgentMoves, Zenon

(* The agent takes a frame of a connection that has resumed.               *)
LEMMA TakeKeeps ==
    ASSUME InputInv, NEW k \in Conns,
           UNCHANGED <<plan, clientVars, down>>, AgentTyped', Keyed', Unaccused',
           up[k] # <<>>, Head(up[k]).type # "Hello", up' = Popped(up, k),
           ac[k].stage \notin {"new", "closed"}, ac'[k].stage \notin {"new", "closed"},
           \A j \in Conns \ {k} : ac'[j] = ac[j],
           a.in.recv <= a'.in.recv, AckOffset(a'.in) = AckOffset(a.in),
           Head(up[k]).type = "Data" =>
               Head(up[k]).off + Len(Head(up[k]).bytes) <= a'.in.recv
    PROVE  InputInv'
<1>0. /\ TypeInv /\ up \in Links /\ down \in Links /\ up[k] \in Seq(Frames)
      /\ \A j \in Conns : LinkOK(j) /\ CarryOK(j)
  BY Zenon DEF InputInv, Wired, TypeInv, Links
<1>1. ClientTyped' /\ c' = c /\ UNCHANGED <<cConn, cLive, used>>
  BY ClientStands, Zenon
<1>2. /\ up' \in Links /\ up'[k] = Tail(up[k]) /\ down' = down
      /\ \A j \in Conns \ {k} : up'[j] = up[j]
  BY <1>0, PoppedLink, Zenon
<1>3. TypeInv'
  BY <1>0, <1>1, <1>2, Zenon DEF TypeInv
<1>4. /\ a.in.recv \in Nat /\ a'.in.recv \in Nat /\ AckOffset(a.in) <= AckOffset(a'.in)
      /\ Len(c.out.log) <= Len(c'.out.log) /\ c.out.next \in Nat
  <2>1. AckOffset(a.in) \in Nat /\ a.in.recv \in Nat
    BY <1>0, StreamNumbers, Zenon DEF TypeInv, AgentTyped
  <2>2. a'.in.recv \in Nat
    BY StreamNumbers, Zenon DEF AgentTyped
  <2>3. Len(c.out.log) \in Nat /\ c.out.next \in Nat
    BY <1>0, StreamNumbers, Zenon DEF TypeInv, ClientTyped
  <2> QED BY <1>1, <2>1, <2>2, <2>3, SMTT(30)
<1>5. ASSUME NEW j \in Conns \ {k} PROVE LinkOK(j)' /\ CarryOK(j)'
  <2>1. LinkOK(j)'
    BY <1>0, <1>1, <1>2, <1>5, LinkKept, Zenon
  <2> QED BY <1>0, <1>1, <1>2, <1>3, <1>4, <1>5, <2>1, CarryKept, Zenon
<1>6. k = cConn => cLive = TRUE
  <2> SUFFICES ASSUME k = cConn, cLive = FALSE PROVE FALSE
    BY <1>0, Zenon DEF TypeInv, ClientTyped
  <2>1. up[k] = <<>> \/ up[k] = <<Hello>>
    BY <1>0 DEF LinkOK, Greeting
  <2> QED BY <2>1 DEF Hello
<1>7. LinkOK(k)'
  BY <1>0, <1>1, <1>2, <1>6, ZenonT(30) DEF LinkOK
<1> DEFINE s == up[k]
<1>8. CarryOK(k)'
  <2>1. /\ Tail(s) \in Seq(Frames) /\ Len(Tail(s)) = Len(s) - 1 /\ Len(s) \in Nat
        /\ \A i \in 1..Len(Tail(s)) : Tail(s)[i] = s[i + 1]
    BY <1>0, HeadTailProperties, SMTT(30)
  <2>2. \A i \in 1..Len(up'[k]) : Excerpt(up'[k][i], Len(c'.out.log))
    <3> SUFFICES ASSUME NEW i \in 1..Len(Tail(s))
                 PROVE  Excerpt(Tail(s)[i], Len(c.out.log))
      BY <1>1, <1>2, Zenon
    <3>1. i + 1 \in 1..Len(s)
      BY <2>1, SMTT(30)
    <3> QED BY <1>0, <2>1, <3>1, Zenon DEF CarryOK
  <2>3. \A i \in 1..Len(down'[k]) : Honours(down'[k][i], AckOffset(a'.in))
    BY <1>0, <1>2, Zenon DEF CarryOK
  <2>4. NoGap(up'[k], a'.in.recv)
    <3>1. NoGap(s, a.in.recv)
      BY <1>0, Zenon DEF CarryOK
    <3> QED BY <1>0, <1>2, <1>4, <3>1, NoGapPopped, ZenonT(30)
  <2>5. k = cConn' /\ cLive' = TRUE =>
           Reached(c'.out.next, a'.in.recv, up'[k], Len(up'[k]))
    <3> SUFFICES ASSUME k = cConn, cLive = TRUE
                 PROVE  Reached(c.out.next, a'.in.recv, Tail(s), Len(Tail(s)))
      BY <1>1, <1>2, Zenon
    <3>1. Reached(c.out.next, a.in.recv, s, Len(s))
      BY <1>0, Zenon DEF CarryOK
    <3>2. Len(Tail(s)) \in 0..(Len(s) - 1) /\ Len(Tail(s)) + 1 = Len(s)
      BY <2>1, SMTT(30)
    <3> QED BY <1>0, <1>4, <3>1, <3>2, ReachedPopped, ZenonT(30)
  <2> QED BY <2>2, <2>3, <2>4, <2>5, Zenon DEF CarryOK
<1> QED
  BY <1>2, <1>5, <1>7, <1>8, AgentMoves, <1>0, ZenonT(30)

(* The agent sends a frame on the connection that carries the session.     *)
LEMMA SendKeeps ==
    ASSUME InputInv, NEW k \in Conns, NEW m \in Frames, m.type # "AuthOk",
           Honours(m, AckOffset(a.in)), ac[k].stage \in {"snapshot", "live"},
           UNCHANGED <<plan, clientVars, ptyIn, ptyGot, shell, up, errors>>,
           AgentTyped', a'.in = a.in, down' = Answered(k, m),
           \A j \in Conns : ac'[j].stage = ac[j].stage
    PROVE  InputInv'
<1>0. /\ TypeInv /\ Keyed /\ Unaccused /\ up \in Links /\ down \in Links
      /\ down[k] \in Seq(Frames)
      /\ \A j \in Conns : LinkOK(j) /\ CarryOK(j)
  BY Zenon DEF InputInv, Wired, TypeInv, Links
<1>1. ClientTyped' /\ c' = c /\ UNCHANGED <<cConn, cLive, used>>
  BY ClientStands, Zenon
<1>2. /\ down' \in Links /\ \A j \in Conns \ {k} : down'[j] = down[j]
      /\ k # cConn => down' = down
      /\ k = cConn => down'[k] = Append(down[k], m)
  BY <1>0, PushedLink, Zenon DEF Answered
<1>3. TypeInv'
  BY <1>0, <1>1, <1>2, Zenon DEF TypeInv
<1>4. Keyed' /\ Unaccused'
  BY <1>0, <1>1, KeyedKept, Zenon DEF Unaccused
<1>5. /\ a.in.recv <= a'.in.recv /\ AckOffset(a.in) <= AckOffset(a'.in)
      /\ Len(c.out.log) <= Len(c'.out.log)
  BY <1>1, NumbersStay
<1>6. ASSUME NEW j \in Conns, j # k \/ k # cConn PROVE LinkOK(j)' /\ CarryOK(j)'
  <2>1. down'[j] = down[j]
    BY <1>2, <1>6, ZenonT(30)
  <2>2. LinkOK(j)'
    BY <1>0, <1>1, <2>1, LinkKept, Zenon
  <2> QED BY <1>0, <1>1, <1>3, <1>5, <2>1, <2>2, CarryKept, Zenon
<1>7. ASSUME k = cConn PROVE LinkOK(k)' /\ CarryOK(k)'
  <2>1. cLive = TRUE
    BY <1>0, <1>7, Zenon DEF LinkOK, Greeting, TypeInv, ClientTyped
  <2> DEFINE d == down[k]
             e == Append(d, m)
  <2>2. /\ Len(e) = Len(d) + 1 /\ Len(d) \in Nat /\ e[Len(d) + 1] = m
        /\ \A i \in 1..Len(d) : e[i] = d[i]
    <3>1. d \in Seq(Frames)
      BY <1>0, Zenon
    <3> HIDE DEF d
    <3>2. OneMore(d, m, e)
      BY <3>1, FramePushed, Zenon
    <3> HIDE DEF e
    <3> QED BY <3>2, Zenon DEF OneMore
  <2>3. \A i \in 1..Len(e) : e[i].type # "AuthOk" /\ Honours(e[i], AckOffset(a.in))
    <3> HIDE DEF e
    <3> SUFFICES ASSUME NEW i \in 1..Len(e)
                 PROVE  e[i].type # "AuthOk" /\ Honours(e[i], AckOffset(a.in))
      BY Zenon
    <3>1. CASE i = Len(d) + 1
      BY <2>2, <3>1, Zenon
    <3>2. CASE i # Len(d) + 1
      <4>1. i \in 1..Len(d)
        BY <2>2, <3>2, EarlierPlace, Zenon
      <4> QED BY <1>0, <1>7, <2>1, <2>2, <4>1, Zenon DEF LinkOK, CarryOK
    <3> QED BY <3>1, <3>2, Zenon
  <2>4. down'[k] = e
    BY <1>2, <1>7, Zenon
  <2> HIDE DEF e
  <2>5. LinkOK(k)'
    BY <1>0, <1>1, <1>7, <2>1, <2>3, <2>4, Zenon DEF LinkOK
  <2>6. CarryOK(k)'
    BY <1>0, <1>1, <2>3, <2>4, Zenon DEF CarryOK
  <2> QED BY <2>5, <2>6, Zenon
<1>8. \A j \in Conns : LinkOK(j)' /\ CarryOK(j)'
  BY <1>6, <1>7, Zenon
<1> QED
  BY <1>0, <1>2, <1>4, <1>8, AgentMoves, Zenon

-----------------------------------------------------------------------------
(* The shell and the pty *)

(* MovePtyOutput keeps the types and the other direction.                  *)
LEMMA MoveTyped ==
    ASSUME plan \in Plans, NEW s, StreamOK(s), NEW buf \in Seq(Nat)
    PROVE  LET m == MovePtyOutput(s, buf) IN
           StreamOK(m.stream) /\ m.stream.in = s.in /\ m.buf \in Seq(Nat)
<1> DEFINE w == Write(s, buf, Limits)
           m == MovePtyOutput(s, buf)
<1>1. CASE buf = <<>> \/ ~AcceptsWrites(s, Limits)
  BY <1>1, Zenon DEF MovePtyOutput
<1>2. CASE ~(buf = <<>> \/ ~AcceptsWrites(s, Limits))
  <2>1. m.stream = w.stream /\ m.buf = SubSeq(buf, w.taken + 1, Len(buf))
    BY <1>2, Zenon DEF MovePtyOutput
  <2>2. StreamOK(w.stream) /\ w.stream.in = s.in /\ w.taken \in Nat
    BY WriteTyped, Zenon
  <2> HIDE DEF w, m
  <2>3. m.buf \in Seq(Nat)
    <3>1. \A i \in (w.taken + 1)..Len(buf) : buf[i] \in Nat
      BY <2>2
    <3>2. w.taken + 1 \in Int /\ Len(buf) \in Int
      BY <2>2
    <3> QED BY <2>1, <3>1, <3>2, SubSeqProperties
  <2> QED BY <2>1, <2>2, <2>3 DEF m
<1> QED
  BY <1>1, <1>2, Zenon

LEMMA ShellWritesKeeps ==
    ASSUME InputInv, plan' = plan, NEW n \in 1..plan.read, ShellWrites(n)
    PROVE  InputInv'
<1> DEFINE new == [i \in 1..n |-> fed + i]
           m == MovePtyOutput(a, new)
<1>0. plan \in Plans /\ AgentTyped /\ plan.read \in Nat
  BY BoundsAssumption DEF InputInv, TypeInv
<1>1. fed' \in Nat /\ new \in Seq(Nat)
  <2>1. n \in Nat /\ fed \in Nat
    BY <1>0 DEF AgentTyped
  <2>2. fed' = fed + n
    BY DEF ShellWrites
  <2>3. new \in [1..n -> Nat]
    BY <2>1
  <2> QED BY <2>1, <2>2, <2>3
<1>2. a' = m.stream /\ ptyBuf' = m.buf /\ UNCHANGED <<ptyIn, ptyGot, shell, snapVars, ac, done>>
  BY Zenon DEF ShellWrites
<1> HIDE DEF new
<1>3. StreamOK(a') /\ a'.in = a.in /\ ptyBuf' \in Seq(Nat)
  BY <1>0, <1>1, <1>2, MoveTyped, Zenon DEF AgentTyped
<1>4. AgentTyped'
  BY <1>0, <1>1, <1>2, <1>3, Zenon DEF AgentTyped, snapVars
<1> QED
  BY <1>2, <1>3, <1>4, AgentKeeps, Zenon DEF ShellWrites

LEMMA PtyOutputMovesKeeps ==
    ASSUME InputInv, plan' = plan, PtyOutputMoves
    PROVE  InputInv'
<1> DEFINE m == MovePtyOutput(a, ptyBuf)
<1>0. plan \in Plans /\ AgentTyped
  BY DEF InputInv, TypeInv
<1>2. /\ a' = m.stream /\ ptyBuf' = m.buf
      /\ UNCHANGED <<fed, ptyIn, ptyGot, shell, snapVars, ac, done>>
  BY Zenon DEF PtyOutputMoves
<1>3. StreamOK(a') /\ a'.in = a.in /\ ptyBuf' \in Seq(Nat)
  BY <1>0, <1>2, MoveTyped, Zenon DEF AgentTyped
<1>4. AgentTyped'
  BY <1>0, <1>2, <1>3, Zenon DEF AgentTyped, snapVars
<1> QED
  BY <1>2, <1>3, <1>4, AgentKeeps, Zenon DEF PtyOutputMoves

LEMMA ShellEndsKeeps ==
    ASSUME InputInv, plan' = plan, ShellExits \/ SessionEnds
    PROVE  InputInv'
<1>1. /\ UNCHANGED <<a, fed, ptyBuf, ptyIn, ptyGot, snapVars, ac, done, clientVars, netVars>>
      /\ shell' \in {"exited", "ended"}
  BY Zenon DEF ShellExits, SessionEnds
<1>2. AgentTyped'
  BY <1>1 DEF InputInv, TypeInv, AgentTyped, snapVars
<1> QED
  BY <1>1, <1>2, AgentKeeps, Zenon

(* Keystrokes leave the queue: only more can be acknowledged.              *)
LEMMA DeliverKeeps ==
    ASSUME InputInv, UNCHANGED <<plan, clientVars, netVars, fed, ptyBuf, shell, snapVars,
                                 ac, done>>,
           NEW n \in Nat, n <= a.in.pending,
           a' = [a EXCEPT !.in = MarkDelivered(@, n)],
           ptyIn' \in Seq(Nat), ptyGot' \in Seq(Nat), Len(ptyIn') = Len(ptyIn) - n,
           \A i \in 1..Len(ptyIn') : ptyIn'[i] = ptyIn[i + n],
           \A i \in 1..Len(ptyGot') : ptyGot'[i] = i,
           Len(ptyGot') <= AckOffset(a.in) + n,
           shell = "running" => Len(ptyGot') = AckOffset(a.in) + n
    PROVE  InputInv'
<1>0. /\ TypeInv /\ AgentTyped /\ Keyed /\ Unaccused
      /\ \A j \in Conns : LinkOK(j) /\ CarryOK(j)
  BY DEF InputInv, Wired, TypeInv
<1>1. ClientTyped' /\ c' = c /\ UNCHANGED <<cConn, cLive, used>>
  BY ClientStands
<1> DEFINE r == MarkDelivered(a.in, n)
<1>2. /\ CursorOK(r) /\ r.onDelivery = a.in.onDelivery /\ r.recv = a.in.recv
      /\ r.pending = a.in.pending - n /\ r \in Cursors
  BY <1>0, DeliveredTyped, Zenon DEF AgentTyped, CursorOK
<1>3. a' = [a EXCEPT !.in = r]
  OBVIOUS
<1> HIDE DEF r
<1>4. StreamOK(a') /\ a'.in = r
  <2>1. StreamOK(a)
    BY <1>0 DEF AgentTyped
  <2>2. a' \in Streams /\ a'.in = r /\ a'.out = a.out
    BY <1>2, <1>3, <2>1, Zenon DEF StreamOK, Streams
  <2> QED BY <2>1, <2>2 DEF StreamOK
<1>5. AgentTyped'
  BY <1>0, <1>2, <1>4, Zenon DEF AgentTyped, snapVars
<1>6. up' = up /\ down' = down /\ errors' = errors
  BY DEF netVars
<1>7. TypeInv'
  BY <1>0, <1>1, <1>5, <1>6, Zenon DEF TypeInv
<1>8. /\ AckOffset(a'.in) = AckOffset(a.in) + n /\ a'.in.recv = a.in.recv
      /\ AckOffset(a.in) \in Nat /\ a.in.recv \in Nat /\ a'.in.pending = a.in.pending - n
      /\ a.in.pending \in Nat
  <2>1. /\ a.in.recv \in Nat /\ a.in.pending \in Nat /\ AckOffset(a.in) \in Nat
        /\ AckOffset(a.in) = a.in.recv - a.in.pending
    BY <1>0, StreamNumbers DEF AgentTyped
  <2>2. AckOffset(a'.in) = a'.in.recv - a'.in.pending
    BY DEF AckOffset
  <2>3. a'.in.recv = a.in.recv /\ a'.in.pending = a.in.pending - n
    BY <1>2, <1>4, Zenon
  <2>4. a.in.recv - (a.in.pending - n) = (a.in.recv - a.in.pending) + n
    BY <2>1, Offsets, Zenon
  <2> QED BY <2>1, <2>2, <2>3, <2>4, Zenon
<1>9. Keyed'
  <2>1. c.out.base \in Nat /\ Len(ptyIn) \in Nat /\ Len(ptyIn') \in Nat
    BY <1>0, StreamNumbers DEF TypeInv, ClientTyped, AgentTyped
  <2>2. a'.in.pending = Len(ptyIn') /\ a'.in.recv <= Len(c'.out.log)
    BY <1>0, <1>1, <1>8, Zenon DEF Keyed
  <2>3. ASSUME NEW i \in 1..Len(ptyIn') PROVE ptyIn'[i] = AckOffset(a'.in) + i
    <3>1. i + n \in 1..Len(ptyIn) /\ i \in Nat
      BY <2>1
    <3>2. ptyIn'[i] = AckOffset(a.in) + (i + n)
      BY <1>0, <3>1, Zenon DEF Keyed
    <3> QED BY <1>8, <3>1, <3>2
  <2>4. Len(ptyGot') <= AckOffset(a'.in) /\ (shell' = "running" => Len(ptyGot') = AckOffset(a'.in))
    BY <1>8
  <2>5. c'.out.base <= AckOffset(a'.in)
    BY <1>0, <1>1, <1>8, <2>1 DEF Keyed
  <2>6. Len(c'.out.log) <= plan'.in /\ \A i \in 1..Len(c'.out.log) : c'.out.log[i] = i
    BY <1>0, <1>1 DEF Keyed
  <2> QED BY <2>2, <2>3, <2>4, <2>5, <2>6 DEF Keyed
<1>10. ASSUME NEW j \in Conns PROVE LinkOK(j)' /\ CarryOK(j)'
  <2>1. LinkOK(j)'
    BY <1>0, <1>1, <1>6, LinkKept, Zenon
  <2>2. /\ a.in.recv <= a'.in.recv /\ AckOffset(a.in) <= AckOffset(a'.in)
        /\ Len(c.out.log) <= Len(c'.out.log)
    <3>1. Len(c.out.log) \in Nat
      BY <1>0, StreamNumbers DEF TypeInv, ClientTyped
    <3> QED BY <1>1, <1>8, <3>1
  <2> QED BY <1>0, <1>1, <1>6, <1>7, <2>1, <2>2, CarryKept, Zenon
<1>11. Unaccused'
  BY <1>0, <1>6 DEF Unaccused
<1> QED
  BY <1>5, <1>7, <1>9, <1>10, <1>11, AgentMoves, Zenon DEF TypeInv

LEMMA PtyTakesInputKeeps ==
    ASSUME InputInv, plan' = plan, PtyTakesInput
    PROVE  InputInv'
<1>0. AgentTyped /\ Keyed /\ a.in.pending \in Nat /\ AckOffset(a.in) \in Nat
  BY StreamNumbers DEF InputInv, TypeInv, AgentTyped
<1>1. /\ ptyIn \in Seq(Nat) /\ ptyIn # <<>> /\ ptyGot \in Seq(Nat)
      /\ ptyIn' = Tail(ptyIn) /\ ptyGot' = Append(ptyGot, Head(ptyIn))
      /\ shell = "running"
  BY <1>0 DEF PtyTakesInput, AgentTyped
<1>2. /\ Tail(ptyIn) \in Seq(Nat) /\ Len(Tail(ptyIn)) = Len(ptyIn) - 1
      /\ \A i \in 1..Len(Tail(ptyIn)) : Tail(ptyIn)[i] = ptyIn[i + 1]
      /\ Head(ptyIn) = ptyIn[1] /\ Head(ptyIn) \in Nat /\ Len(ptyIn) >= 1
  BY <1>1, HeadTailProperties, SMTT(30)
<1>3. Head(ptyIn) = Len(ptyGot) + 1 /\ Len(ptyGot) = AckOffset(a.in) /\ Len(ptyGot) \in Nat
  <2>1. ptyIn[1] = AckOffset(a.in) + 1
    <3>1. 1 \in 1..Len(ptyIn)
      BY <1>1, HeadPlace, Zenon
    <3> QED BY <1>0, <3>1, Zenon DEF Keyed
  <2> QED BY <1>0, <1>1, <1>2, <2>1, Zenon DEF Keyed
<1>4. /\ ptyGot' \in Seq(Nat) /\ Len(ptyGot') = AckOffset(a.in) + 1
      /\ \A i \in 1..Len(ptyGot') : ptyGot'[i] = i
  <2>1. /\ ptyGot' \in Seq(Nat) /\ Len(ptyGot') = Len(ptyGot) + 1
        /\ ptyGot'[Len(ptyGot) + 1] = Head(ptyIn)
        /\ \A i \in 1..Len(ptyGot) : ptyGot'[i] = ptyGot[i]
    BY <1>1, <1>2
  <2>2. ASSUME NEW i \in 1..Len(ptyGot') PROVE ptyGot'[i] = i
    <3>1. CASE i = Len(ptyGot) + 1
      BY <1>3, <2>1, <3>1
    <3>2. CASE i # Len(ptyGot) + 1
      <4>1. i \in 1..Len(ptyGot)
        BY <1>3, <2>1, <3>2
      <4> QED BY <1>0, <2>1, <4>1, Zenon DEF Keyed
    <3> QED BY <3>1, <3>2
  <2> QED BY <1>3, <2>1, <2>2, Zenon
<1>5. 1 <= a.in.pending /\ a.in.pending = Len(ptyIn)
  BY <1>0, <1>2 DEF Keyed
<1>6. /\ a' = [a EXCEPT !.in = MarkDelivered(@, 1)]
      /\ UNCHANGED <<clientVars, netVars, fed, ptyBuf, shell, snapVars, ac, done>>
  BY DEF PtyTakesInput
<1>7. /\ ptyIn' \in Seq(Nat) /\ Len(ptyIn') = Len(ptyIn) - 1
      /\ \A i \in 1..Len(ptyIn') : ptyIn'[i] = ptyIn[i + 1]
  BY <1>1, <1>2, Zenon
<1>8. 1 \in Nat /\ Len(ptyGot') <= AckOffset(a.in) + 1
  BY <1>0, <1>4
<1> QED
  BY <1>4, <1>5, <1>6, <1>7, <1>8, DeliverKeeps, Zenon

LEMMA PtyInputDiscardedKeeps ==
    ASSUME InputInv, plan' = plan, PtyInputDiscarded
    PROVE  InputInv'
<1> DEFINE n == Len(ptyIn)
<1>0. /\ AgentTyped /\ Keyed /\ a.in.pending \in Nat /\ AckOffset(a.in) \in Nat
      /\ n \in Nat /\ n = a.in.pending
  BY StreamNumbers, Zenon DEF InputInv, TypeInv, AgentTyped, Keyed
<1>1. ptyIn' = <<>> /\ ptyGot' = ptyGot /\ shell # "running"
  BY Zenon DEF PtyInputDiscarded
<1>2. /\ ptyIn' \in Seq(Nat) /\ Len(ptyIn') = Len(ptyIn) - n
      /\ \A i \in 1..Len(ptyIn') : ptyIn'[i] = ptyIn[i + n]
  BY <1>0, <1>1, EmptySeq
<1>3. /\ ptyGot' \in Seq(Nat) /\ Len(ptyGot') <= AckOffset(a.in) + n
      /\ \A i \in 1..Len(ptyGot') : ptyGot'[i] = i
  BY <1>0, <1>1, SMTT(30) DEF Keyed, AgentTyped
<1>4. /\ a' = [a EXCEPT !.in = MarkDelivered(@, n)]
      /\ UNCHANGED <<clientVars, netVars, fed, ptyBuf, shell, snapVars, ac, done>>
  BY DEF PtyInputDiscarded
<1> HIDE DEF n
<1>5. n <= a.in.pending
  BY <1>0
<1> QED
  BY <1>0, <1>1, <1>2, <1>3, <1>4, <1>5, DeliverKeeps, Zenon

-----------------------------------------------------------------------------
(* The agent *)

(* A connection the agent drops.                                           *)
LEMMA DropTyped ==
    ASSUME AgentTyped, NEW k \in Conns, NEW s, StreamOK(s), CursorOK(s.in),
           s.in.onDelivery = TRUE, AgentDrops(k, s), done' \in BOOLEAN,
           UNCHANGED <<fed, ptyBuf, ptyIn, ptyGot, shell, snapVars>>
    PROVE  AgentTyped' /\ a'.in = s.in
<1>1. StreamOK(a') /\ a'.in = s.in
  BY DetachTyped, Zenon DEF AgentDrops
<1>2. ac' \in [Conns -> AgentConns]
  <2> DEFINE x == [NewAgentConn EXCEPT !.stage = "closed"]
  <2>1. x \in AgentConns
    BY Zenon DEF NewAgentConn, AgentConns
  <2>2. ac' = [ac EXCEPT ![k] = x] /\ ac \in [Conns -> AgentConns]
    BY DEF AgentDrops, AgentTyped
  <2> HIDE DEF x
  <2> QED BY <2>1, <2>2
<1> QED
  BY <1>1, <1>2 DEF AgentTyped, snapVars

(* An error the agent may find.                                            *)
LEMMA AgentAccuses ==
    ASSUME Unaccused, NEW err, err # "StreamGap",
           errors' = errors \cup {<<"agent", err>>}
    PROVE  Unaccused'
<1>1. <<"agent", err>> # <<"agent", "StreamGap">>
  OBVIOUS
<1>2. \A e : <<"agent", err>> # <<"client", e>>
  BY Zenon
<1>3. <<"agent", err>> \notin InputErrors
  BY <1>1, <1>2 DEF InputErrors
<1> QED
  BY <1>3 DEF Unaccused

LEMMA DropsKeeps ==
    ASSUME InputInv, plan' = plan, NEW k \in Conns, NEW s, StreamOK(s), CursorOK(s.in),
           s.in.onDelivery = TRUE, s.in.recv = a.in.recv, s.in.pending = a.in.pending,
           AgentDrops(k, s), done' \in BOOLEAN, k <= used \/ ac[k].stage # "new",
           UNCHANGED <<fed, ptyBuf, ptyIn, ptyGot, shell, snapVars, clientVars, down>>,
           \/ errors' = errors
           \/ \E err : err # "StreamGap" /\ errors' = errors \cup {<<"agent", err>>}
    PROVE  InputInv'
<1>1. AgentTyped' /\ a'.in = s.in
  BY DropTyped, ZenonT(30) DEF InputInv, TypeInv
<1>2. Unaccused'
  <2>1. CASE errors' = errors
    BY <2>1, Zenon DEF InputInv, Unaccused
  <2>2. ASSUME NEW err, err # "StreamGap", errors' = errors \cup {<<"agent", err>>}
        PROVE  Unaccused'
    BY <2>2, AgentAccuses, Zenon DEF InputInv
  <2> QED BY <2>1, <2>2, Zenon
<1>3. /\ ac' = [ac EXCEPT ![k] = [NewAgentConn EXCEPT !.stage = "closed"]]
      /\ up' = [up EXCEPT ![k] = <<>>]
  BY Zenon DEF AgentDrops
<1> QED
  BY <1>1, <1>2, <1>3, DropKeeps, Zenon

(* What the agent's stream is worth.                                       *)
LEMMA AgentStream ==
    ASSUME InputInv
    PROVE  StreamOK(a) /\ CursorOK(a.in) /\ a.in.onDelivery = TRUE
           /\ ac \in [Conns -> AgentConns] /\ done \in BOOLEAN
BY DEF InputInv, TypeInv, AgentTyped

LEMMA AgentClosesKeeps ==
    ASSUME InputInv, plan' = plan, NEW k \in Conns,
           AgentCloses(k) \/ AgentSuperseded(k) \/ AgentSeesClose(k)
    PROVE  InputInv'
<1>1. AgentDrops(k, a) /\ (k <= used \/ ac[k].stage # "new")
  BY Zenon DEF AgentCloses, AgentSuperseded, AgentSeesClose
<1>2. UNCHANGED <<fed, ptyBuf, ptyIn, ptyGot, shell, snapVars, clientVars, down, errors>>
  BY Zenon DEF AgentCloses, AgentSuperseded, AgentSeesClose, ptyVars
<1>3. done' \in BOOLEAN
  <2>1. CASE done' = done
    BY <2>1, AgentStream, Zenon
  <2>2. CASE done' = (ac[k].stage = "live" /\ ac[k].endSent)
    BY <2>2, Zenon
  <2> QED BY <2>1, <2>2, Zenon DEF AgentCloses, AgentSuperseded, AgentSeesClose
<1> QED
  BY <1>1, <1>2, <1>3, AgentStream, DropsKeeps, Zenon

(* The first frame of a connection.                                        *)
LEMMA HeadTyped ==
    ASSUME InputInv, NEW k \in Conns, up[k] # <<>>
    PROVE  /\ Head(up[k]) \in Frames /\ Head(up[k]) = up[k][1] /\ 1 \in 1..Len(up[k])
           /\ LinkOK(k) /\ CarryOK(k) /\ up[k] \in Seq(Frames)
<1>1. up[k] \in Seq(Frames) /\ LinkOK(k) /\ CarryOK(k)
  BY Zenon DEF InputInv, TypeInv, Links, Wired
<1> QED
  BY <1>1

(* A frame that leaves the keystrokes alone.                               *)
LEMMA TakesKeeps ==
    ASSUME InputInv, NEW k \in Conns,
           UNCHANGED <<plan, clientVars, down, ptyIn, ptyGot, shell, errors>>,
           AgentTyped', a'.in = a.in, up[k] # <<>>,
           Head(up[k]).type \notin {"Hello", "Data"}, up' = Popped(up, k),
           ac[k].stage \notin {"new", "closed"}, ac'[k].stage \notin {"new", "closed"},
           \A j \in Conns \ {k} : ac'[j] = ac[j]
    PROVE  InputInv'
<1>1. c' = c
  BY ClientStands, Zenon
<1>2. Keyed' /\ Unaccused'
  BY <1>1, KeyedKept, Zenon DEF InputInv, Unaccused
<1>3. a.in.recv <= a'.in.recv /\ AckOffset(a'.in) = AckOffset(a.in)
  <2>1. a.in.recv \in Nat
    BY AgentStream, StreamNumbers, Zenon
  <2> QED BY <2>1, SMTT(30)
<1> QED
  BY <1>2, <1>3, TakeKeeps, Zenon

LEMMA AgentResumesKeeps ==
    ASSUME InputInv, plan' = plan, NEW k \in Conns, AgentResumes(k)
    PROVE  InputInv'
<1> DEFINE m     == Head(up[k])
           snap  == UsesSnapshot(m)
           r     == IF snap THEN AttachPathB(a) ELSE Attach(a, m.off)
           err   == IF m.gen > a.out.gen THEN "MalformedField" ELSE r.err
           stage == IF snap THEN "snapshot" ELSE "live"
<1>1. /\ up[k] # <<>> /\ m.type = "Resume" /\ ac[k].stage = "resume"
      /\ UNCHANGED <<fed, ptyBuf, ptyIn, ptyGot, shell, snapVars, done, clientVars, down>>
  BY Zenon DEF AgentResumes, Arrived, ptyVars
<1>2. m \in Frames /\ m.off \in Nat
  BY <1>1, HeadTyped, FrameFields, Zenon
<1>3. /\ StreamOK(r.stream) /\ r.stream.in = a.in
      /\ r.err \in {"ok", "SessionReaped", "AckBeyondSent", "PeerBehindBuffer"}
  <2>1. CASE snap
    <3>1. r = AttachPathB(a)
      BY <2>1
    <3> HIDE DEF r
    <3> QED BY <3>1, AgentStream, PathBTyped, Zenon
  <2>2. CASE ~snap
    <3>1. r = Attach(a, m.off)
      BY <2>2
    <3> HIDE DEF r, m
    <3> QED BY <1>2, <3>1, AgentStream, AttachTyped, Zenon
  <2> QED BY <2>1, <2>2, Zenon
<1>4. CASE err = "ok"
  <2>1. /\ a' = r.stream /\ ac' = [ac EXCEPT ![k] = AgentChannel(stage, r.stream)]
        /\ up' = Popped(up, k) /\ errors' = errors
    BY <1>4, Zenon DEF AgentResumes
  <2> DEFINE x == AgentChannel(stage, r.stream)
  <2>2. x \in AgentConns /\ x.stage \in {"snapshot", "live"}
    <3> DEFINE h == r.stream.conn
               l == AckOffset(r.stream.in)
               q == (stage = "snapshot")
    <3>1. h \in Nat /\ l \in Nat
      BY <1>3, AgentStream, StreamNumbers, Zenon
    <3>2. x = [NewAgentConn EXCEPT !.stage = stage, !.handle = h, !.lastAcked = l,
                                   !.suppress = q]
      BY DEF AgentChannel
    <3>3. q \in BOOLEAN /\ stage \in {"snapshot", "live"}
      BY Zenon
    <3> HIDE DEF x, h, l, q, stage
    <3> QED BY <3>1, <3>2, <3>3, Zenon DEF NewAgentConn, AgentConns
  <2> HIDE DEF x
  <2>3. ac' \in [Conns -> AgentConns] /\ ac'[k] = x /\ \A j \in Conns \ {k} : ac'[j] = ac[j]
    BY <2>1, <2>2, AgentStream, Zenon DEF x
  <2>4. AgentTyped'
    BY <1>1, <1>3, <2>1, <2>3, AgentStream, Zenon DEF InputInv, TypeInv, AgentTyped, snapVars
  <2>5. a'.in = a.in
    BY <1>3, <2>1, Zenon
  <2> QED
    BY <1>1, <2>1, <2>2, <2>3, <2>4, <2>5, TakesKeeps, Zenon
<1>5. CASE err # "ok"
  <2> DEFINE s == IF err \in KillReasons THEN Reap(a, err) ELSE a
  <2>1. AgentDrops(k, s) /\ errors' = errors \cup {<<"agent", err>>}
    BY <1>5, Zenon DEF AgentResumes, AgentFails
  <2>2. err # "StreamGap"
    BY <1>3, Zenon
  <2> HIDE DEF err
  <2>3. StreamOK(s) /\ s.in = a.in
    BY AgentStream, ReapTyped, Zenon
  <2> HIDE DEF s
  <2>4. done' \in BOOLEAN
    BY <1>1, AgentStream, Zenon
  <2> QED
    BY <1>1, <2>1, <2>2, <2>3, <2>4, AgentStream, DropsKeeps, ZenonT(30)
<1> QED
  BY <1>4, <1>5, Zenon

(* Auth is verified: the answer names what has been delivered.             *)
LEMMA AgentRoutesKeeps ==
    ASSUME InputInv, plan' = plan, NEW k \in Conns, AgentRoutes(k)
    PROVE  InputInv'
<1> DEFINE m == AuthOk(AckOffset(a.in))
<1>0. /\ TypeInv /\ AgentTyped /\ Keyed /\ Unaccused /\ up \in Links /\ down \in Links
      /\ plan.grid \in BOOLEAN /\ \A j \in Conns : LinkOK(j) /\ CarryOK(j)
  BY BoundsAssumption DEF InputInv, Wired, TypeInv
<1>1. /\ up[k] # <<>> /\ Head(up[k]).type = "Hello" /\ ac[k].stage = "new"
      /\ ac' = [ac EXCEPT ![k].stage = "resume"] /\ a' = SetOverflowMode(a, plan.grid)
      /\ up' = Popped(up, k) /\ down' = Answered(k, m)
      /\ UNCHANGED <<fed, ptyBuf, ptyIn, ptyGot, shell, snapVars, done, clientVars, errors>>
  BY DEF AgentRoutes, Arrived, ptyVars
<1>2. ClientTyped' /\ c' = c /\ UNCHANGED <<cConn, cLive, used>>
  BY <1>1, ClientStands
<1>3. StreamOK(a') /\ a'.in = a.in
  BY <1>0, <1>1, AgentStream, ModeTyped, Zenon
<1>4. /\ ac' \in [Conns -> AgentConns] /\ ac'[k].stage = "resume"
      /\ \A j \in Conns \ {k} : ac'[j] = ac[j]
  <2> DEFINE x == [ac[k] EXCEPT !.stage = "resume"]
  <2>1. x \in AgentConns /\ x.stage = "resume"
    BY AgentStream DEF AgentConns
  <2>2. ac' = [ac EXCEPT ![k] = x] /\ ac \in [Conns -> AgentConns]
    BY <1>1, AgentStream, Zenon
  <2> HIDE DEF x
  <2> QED BY <2>1, <2>2
<1>5. AgentTyped'
  BY <1>0, <1>1, <1>3, <1>4, Zenon DEF AgentTyped, snapVars
<1>6. /\ AckOffset(a.in) \in Nat /\ a.in.recv \in Nat /\ Len(c.out.log) \in Nat
      /\ c.out.base <= AckOffset(a.in) /\ c.out.base \in Nat /\ c.out.next \in Nat
  BY <1>0, StreamNumbers, Zenon DEF TypeInv, AgentTyped, ClientTyped, Keyed
<1>7. /\ m \in Frames /\ m.type = "AuthOk" /\ m.off = AckOffset(a.in)
  BY <1>6, FramesBuilt DEF AuthOk
<1> HIDE DEF m
<1>8. /\ up' \in Links /\ up'[k] = Tail(up[k]) /\ \A j \in Conns \ {k} : up'[j] = up[j]
  BY <1>0, <1>1, PoppedLink, Zenon
<1>9. /\ down' \in Links /\ \A j \in Conns \ {k} : down'[j] = down[j]
      /\ k # cConn => down' = down
      /\ k = cConn => down'[k] = Append(down[k], m)
  BY <1>0, <1>1, <1>7, PushedLink, Zenon DEF Answered
<1>10. TypeInv'
  BY <1>0, <1>2, <1>5, <1>8, <1>9, Zenon DEF TypeInv
<1>11. Keyed' /\ Unaccused'
  BY <1>0, <1>1, <1>2, <1>3, KeyedKept, Zenon DEF Unaccused
<1>12. /\ a.in.recv <= a'.in.recv /\ AckOffset(a.in) <= AckOffset(a'.in)
       /\ Len(c.out.log) <= Len(c'.out.log)
  BY <1>2, <1>3, <1>6, SMTT(30)
<1>13. ASSUME NEW j \in Conns \ {k} PROVE LinkOK(j)' /\ CarryOK(j)'
  <2>1. LinkOK(j)'
    BY <1>0, <1>2, <1>4, <1>8, <1>9, LinkKept, Zenon
  <2> QED BY <1>0, <1>2, <1>4, <1>8, <1>9, <1>10, <1>12, <2>1, CarryKept, Zenon
<1>14. k = cConn => cLive = FALSE
  BY <1>0, <1>1, Zenon DEF LinkOK, TypeInv, ClientTyped
<1>15. k = cConn => up'[k] = <<>> /\ down'[k] = <<m>>
  <2> SUFFICES ASSUME k = cConn PROVE up'[k] = <<>> /\ down'[k] = <<m>>
    OBVIOUS
  <2>1. up[k] = <<Hello>> /\ down[k] = <<>>
    BY <1>0, <1>1, <1>14, Zenon DEF LinkOK, Greeting
  <2>2. Tail(<<Hello>>) = <<>> /\ Append(<<>>, m) = <<m>>
    OBVIOUS
  <2> QED BY <1>8, <1>9, <2>1, <2>2, Zenon
<1>16. LinkOK(k)'
  <2>1. ~(k > used)
    BY <1>0, <1>1, Zenon DEF LinkOK
  <2>2. k # cConn => down'[k] = <<>>
    BY <1>0, <1>9, Zenon DEF LinkOK
  <2>3. k = cConn => Greeting(k)'
    <3> SUFFICES ASSUME k = cConn PROVE Greeting(k)'
      OBVIOUS
    <3>1. Len(<<m>>) = 1 /\ <<m>>[1] = m
      OBVIOUS
    <3>2. Len(down'[k]) = 1 /\ down'[k][1] = m /\ up'[k] = <<>>
      BY <1>15, <3>1, Zenon
    <3>3. c'.out.base <= down'[k][1].off /\ down'[k][1].type = "AuthOk"
      BY <1>2, <1>6, <1>7, <3>2, Zenon
    <3> QED BY <1>4, <3>2, <3>3, Zenon DEF Greeting
  <2> QED BY <1>2, <1>14, <2>1, <2>2, <2>3, Zenon DEF LinkOK
<1>17. CarryOK(k)'
  <2>1. CASE k = cConn
    <3>1. Len(<<m>>) = 1 /\ <<m>>[1] = m /\ Len(<<>>) = 0
      BY Zenon
    <3>2. Honours(m, AckOffset(a'.in))
      BY <1>3, <1>6, <1>7, SMTT(30) DEF Honours
    <3>3. \A i \in 1..Len(down'[k]) : Honours(down'[k][i], AckOffset(a'.in))
      BY <1>15, <2>1, <3>1, <3>2, SMTT(30)
    <3>4. /\ \A i \in 1..Len(up'[k]) : Excerpt(up'[k][i], Len(c'.out.log))
          /\ NoGap(up'[k], a'.in.recv)
      BY <1>15, <2>1, NoElements, Zenon DEF NoGap
    <3>5. ~(cLive' = TRUE)
      BY <1>2, <1>14, <2>1, Zenon
    <3> QED BY <3>3, <3>4, <3>5, Zenon DEF CarryOK
  <2>2. CASE k # cConn
    <3>1. down'[k] = <<>> /\ Len(<<>>) = 0
      BY <1>0, <1>9, <2>2, Zenon DEF LinkOK
    <3> DEFINE s == up[k]
    <3>2. /\ Tail(s) \in Seq(Frames) /\ Len(Tail(s)) = Len(s) - 1 /\ Len(s) \in Nat
          /\ \A i \in 1..Len(Tail(s)) : Tail(s)[i] = s[i + 1]
      BY <1>1, HeadTailProperties, HeadTyped
    <3>3. \A i \in 1..Len(up'[k]) : Excerpt(up'[k][i], Len(c'.out.log))
      <4> SUFFICES ASSUME NEW i \in 1..Len(Tail(s))
                   PROVE  Excerpt(Tail(s)[i], Len(c.out.log))
        BY <1>2, <1>8, Zenon
      <4>1. i + 1 \in 1..Len(s)
        BY <3>2, SMTT(30)
      <4> QED BY <1>0, <3>2, <4>1, Zenon DEF CarryOK
    <3>4. NoGap(up'[k], a'.in.recv)
      <4>1. NoGap(s, a.in.recv) /\ s \in Seq(Frames) /\ s # <<>> /\ Head(s).type # "Data"
        BY <1>0, <1>1, HeadTyped, ZenonT(30) DEF CarryOK
      <4>2. a.in.recv <= a.in.recv
        BY <1>6
      <4> QED BY <1>3, <1>6, <1>8, <4>1, <4>2, NoGapPopped, Zenon
    <3>5. \A i \in 1..Len(down'[k]) : Honours(down'[k][i], AckOffset(a'.in))
      BY <3>1
    <3> QED BY <1>2, <2>2, <3>3, <3>4, <3>5, Zenon DEF CarryOK
  <2> QED BY <2>1, <2>2, Zenon
<1>18. \A j \in Conns : LinkOK(j)' /\ CarryOK(j)'
  BY <1>13, <1>16, <1>17, Zenon
<1> QED
  BY <1>1, <1>5, <1>8, <1>9, <1>11, <1>18, AgentMoves, Zenon

(* A frame on the connection that carries the session.                     *)
LEMMA ReadsTyped ==
    ASSUME InputInv, NEW k \in Conns, NEW type, AgentReads(k, type)
    PROVE  /\ up[k] # <<>> /\ Head(up[k]).type = type
           /\ Head(up[k]) \in Frames /\ ac[k].stage \in {"snapshot", "live"}
           /\ AgentTyped /\ ac[k] \in AgentConns
<1>1. up[k] # <<>> /\ Head(up[k]).type = type /\ ac[k].stage \in {"snapshot", "live"}
  BY Zenon DEF AgentReads, Current, Arrived
<1>2. Head(up[k]) \in Frames
  BY <1>1, HeadTyped, Zenon
<1>3. AgentTyped /\ ac[k] \in AgentConns
  <2>1. ac \in [Conns -> AgentConns]
    BY AgentStream
  <2>2. AgentTyped
    BY Zenon DEF InputInv, TypeInv
  <2> QED BY <2>1, <2>2, Zenon
<1> QED
  BY <1>1, <1>2, <1>3, Zenon

LEMMA AckedTyped ==
    ASSUME InputInv, NEW k \in Conns, NEW n \in Nat
    PROVE  /\ Held(AckedOutput(k, n).buf)
           /\ AckedOutput(k, n).err \in {"ok", "AckBeyondSent"}
<1>1. Held(a.out)
  BY AgentStream, Zenon DEF StreamOK
<1>2. CASE ac[k].awaiting
  <2>1. AckedOutput(k, n).buf = a.out /\ AckedOutput(k, n).err = "ok"
    BY <1>2, Zenon DEF AckedOutput, Outcome
  <2> QED BY <1>1, <2>1, Zenon
<1>3. CASE ~ac[k].awaiting
  <2>1. AckedOutput(k, n) = Acknowledge(a.out, n)
    BY <1>3, Zenon DEF AckedOutput
  <2> QED BY <1>1, <2>1, AckTyped, Zenon
<1> QED
  BY <1>2, <1>3, Zenon

(* Keystrokes arrive: each is in its place, and none leaves a gap.         *)
LEMMA AgentReceivesDataKeeps ==
    ASSUME InputInv, plan' = plan, NEW k \in Conns, AgentReceivesData(k)
    PROVE  InputInv'
<1> DEFINE m     == Head(up[k])
           acked == AckedOutput(k, m.ack)
           got   == Receive(a.in, m.off, m.bytes)
           s     == [a EXCEPT !.out = acked.buf, !.in = got.cur]
           err   == IF acked.err # "ok" THEN acked.err ELSE got.err
           fits  == Len(ptyIn) + Len(got.new) <= PtyQueueMax
           n     == Len(got.new)
<1>0. /\ up[k] # <<>> /\ m.type = "Data" /\ m \in Frames
      /\ ac[k].stage \in {"snapshot", "live"} /\ AgentTyped
  BY ReadsTyped, ZenonT(30) DEF AgentReceivesData
<1>1. m.ack \in Nat /\ m.off \in Nat /\ m.bytes \in Seq(Nat)
  BY <1>0, FrameFields, Zenon
<1>2. UNCHANGED <<fed, ptyBuf, ptyGot, shell, snapVars, done, clientVars, down>>
  BY ZenonT(30) DEF AgentReceivesData
<1>3. /\ StreamOK(a) /\ Held(a.out) /\ CursorOK(a.in) /\ a.in.onDelivery = TRUE
      /\ a \in Streams /\ Keyed /\ plan \in Plans
  BY AgentStream, Zenon DEF StreamOK, InputInv, TypeInv
<1>4. Held(acked.buf) /\ acked.buf \in Buffers /\ acked.err \in {"ok", "AckBeyondSent"}
  BY <1>1, AckedTyped, Zenon DEF Held
<1>5. /\ a.in.recv \in Nat /\ a.in.pending \in Nat /\ Len(c.out.log) \in Nat
      /\ AckOffset(a.in) = a.in.recv - a.in.pending /\ AckOffset(a.in) \in Nat
  BY StreamNumbers, Zenon DEF InputInv, TypeInv, AgentTyped, ClientTyped
<1>6. m.off <= a.in.recv
  <2>1. CarryOK(k) /\ m = up[k][1] /\ 1 \in 1..Len(up[k])
    BY <1>0, HeadTyped
  <2>2. Reached(m.off, a.in.recv, up[k], 1 - 1)
    BY <1>0, <2>1, Zenon DEF CarryOK, NoGap
  <2> QED BY <2>2, SMTT(30) DEF Reached
<1>7. /\ m.off + Len(m.bytes) <= Len(c.out.log)
      /\ \A i \in 1..Len(m.bytes) : m.bytes[i] = m.off + i
  <2>1. CarryOK(k) /\ m = up[k][1] /\ 1 \in 1..Len(up[k])
    BY <1>0, HeadTyped
  <2>2. Excerpt(m, Len(c.out.log))
    BY <2>1, Zenon DEF CarryOK
  <2> QED BY <1>0, <2>2, Zenon DEF Excerpt
<1>8. m.off + Len(m.bytes) <= OffsetMax
  <2>1. plan.in \in Nat /\ plan.in <= OffsetMax
    BY <1>3, BoundsAssumption, OffsetMaxAssumption
  <2>2. Len(c.out.log) <= plan.in /\ Len(m.bytes) \in Nat
    BY <1>1, <1>3, LenNat, Zenon DEF Keyed
  <2> HIDE DEF m
  <2> QED BY <1>1, <1>5, <1>7, <2>1, <2>2, OffsetMaxAssumption
<1> HIDE DEF m
<1>9. /\ CursorOK(got.cur) /\ got.cur.onDelivery = TRUE /\ got.new \in Seq(Nat)
      /\ got.err = "ok" /\ got.cur.recv = a.in.recv + n
      /\ got.cur.pending = a.in.pending + n
      /\ \A i \in 1..n : /\ a.in.recv - m.off + i \in 1..Len(m.bytes)
                         /\ got.new[i] = m.bytes[a.in.recv - m.off + i]
      /\ m.off + Len(m.bytes) <= got.cur.recv
      /\ got.cur.recv = a.in.recv \/ got.cur.recv = m.off + Len(m.bytes)
  <2> DEFINE d == got.cur
  <2> SUFFICES
         /\ CursorOK(d) /\ d.onDelivery = TRUE /\ got.new \in Seq(Nat)
         /\ got.err = "ok" /\ d.recv = a.in.recv + n /\ d.pending = a.in.pending + n
         /\ \A i \in 1..n : /\ a.in.recv - m.off + i \in 1..Len(m.bytes)
                            /\ got.new[i] = m.bytes[a.in.recv - m.off + i]
         /\ m.off + Len(m.bytes) <= d.recv
         /\ d.recv = a.in.recv \/ d.recv = m.off + Len(m.bytes)
    BY Zenon
  <2>1. /\ CursorOK(d) /\ d.onDelivery = a.in.onDelivery
        /\ got.new \in Seq(Nat) /\ got.err \in {"ok", "StreamGap"}
        /\ d.recv = a.in.recv + Len(got.new)
        /\ d.pending = IF a.in.onDelivery THEN a.in.pending + Len(got.new)
                       ELSE a.in.pending
        /\ \A i \in 1..Len(got.new) :
              /\ a.in.recv - m.off + i \in 1..Len(m.bytes)
              /\ got.new[i] = m.bytes[a.in.recv - m.off + i]
        /\ got.err = "ok" => m.off + Len(m.bytes) <= d.recv
        /\ d.recv = a.in.recv \/ d.recv = m.off + Len(m.bytes)
        /\ m.off <= a.in.recv /\ m.off + Len(m.bytes) <= OffsetMax => got.err = "ok"
    BY <1>1, <1>3, ReceiveTyped, ZenonT(30)
  <2> HIDE DEF got
  <2>2. got.err = "ok"
    BY <1>6, <1>8, <2>1, Zenon
  <2> QED BY <1>3, <2>1, <2>2, Zenon
<1>10. n \in Nat
  BY <1>9, LenNat, Zenon
<1>11. StreamOK(s) /\ s.out = acked.buf /\ s.in = got.cur
  <2> DEFINE b == acked.buf
             r == got.cur
  <2> HIDE DEF acked, got
  <2>1. r \in Cursors
    BY <1>9 DEF CursorOK
  <2>2. s \in Streams /\ s.out = b /\ s.in = r
    <3> HIDE DEF b, r
    <3>1. s = [a EXCEPT !.out = b, !.in = r]
      BY DEF b, r
    <3> HIDE DEF s
    <3> QED BY <1>3, <1>4, <2>1, <3>1, Zenon DEF Streams, b
  <2> QED BY <1>4, <2>2, Zenon DEF StreamOK
<1>12. err # "ok" => err # "StreamGap"
  BY <1>4, <1>9, Zenon
<1>13. CASE err # "ok"
  <2> DEFINE t == [a EXCEPT !.out = acked.buf]
  <2>1. /\ AgentDrops(k, t) /\ errors' = errors \cup {<<"agent", err>>}
        /\ ptyIn' = ptyIn
    BY <1>13 DEF AgentReceivesData, AgentFails, m
  <2>2. StreamOK(t) /\ t.in = a.in
    <3> DEFINE b == acked.buf
    <3> HIDE DEF acked
    <3>1. t \in Streams /\ t.out = b /\ t.in = a.in
      BY <1>3, <1>4, Zenon DEF Streams
    <3> QED BY <1>4, <3>1, Zenon DEF StreamOK
  <2> HIDE DEF t, err
  <2>3. done' \in BOOLEAN /\ ac[k].stage # "new"
    BY <1>0, <1>2, AgentStream, Zenon
  <2> QED
    BY <1>2, <1>3, <1>12, <1>13, <2>1, <2>2, <2>3, DropsKeeps, Zenon
<1>14. CASE err = "ok" /\ ~fits
  <2> DEFINE r == Unreceive(s.in, n)
             t == [s EXCEPT !.in = r]
  <2>1. AgentDrops(k, t) /\ errors' = errors /\ ptyIn' = ptyIn
    BY <1>14, Zenon DEF AgentReceivesData, m
  <2>2. /\ CursorOK(r) /\ r.onDelivery = TRUE /\ r.recv = a.in.recv
        /\ r.pending = a.in.pending /\ r \in Cursors
    <3> DEFINE d == s.in
    <3>1. CursorOK(d) /\ d.recv = a.in.recv + n /\ d.pending = a.in.pending + n
          /\ d.onDelivery = TRUE
      BY <1>9, <1>11, Zenon
    <3> HIDE DEF d, n
    <3>2. n <= d.pending
      BY <1>5, <1>10, <3>1, SMTT(30)
    <3>3. /\ CursorOK(Unreceive(d, n)) /\ Unreceive(d, n).onDelivery = d.onDelivery
          /\ Unreceive(d, n).recv = d.recv - n
          /\ Unreceive(d, n).pending = d.pending - n
      BY <1>10, <3>1, <3>2, UnreceiveTyped, Zenon
    <3> QED BY <1>5, <1>10, <3>1, <3>3 DEF CursorOK, d
  <2> HIDE DEF r, s
  <2>3. StreamOK(t) /\ t.in = r
    <3>1. t \in Streams /\ t.in = r /\ t.out = s.out
      BY <1>11, <2>2, Zenon DEF StreamOK, Streams
    <3> QED BY <1>11, <3>1, Zenon DEF StreamOK
  <2> HIDE DEF t
  <2>4. done' \in BOOLEAN /\ ac[k].stage # "new"
    BY <1>0, <1>2, AgentStream, Zenon
  <2> QED
    BY <1>2, <2>1, <2>2, <2>3, <2>4, DropsKeeps, Zenon
<1>15. CASE err = "ok" /\ fits
  <2>1. /\ a' = s /\ ptyIn' = ptyIn \o got.new /\ up' = Popped(up, k)
        /\ ac' = ac /\ errors' = errors
    BY <1>15, ZenonT(30) DEF AgentReceivesData, m
  <2> HIDE DEF s, got, n
  <2>2. /\ ptyIn \in Seq(Nat) /\ Len(ptyIn) \in Nat /\ a.in.pending = Len(ptyIn)
    BY <1>0, <1>3, LenNat, Zenon DEF AgentTyped, Keyed
  <2>3. /\ ptyIn' \in Seq(Nat) /\ Len(ptyIn') = Len(ptyIn) + n
        /\ \A i \in 1..Len(ptyIn') : ptyIn'[i] = IF i <= Len(ptyIn) THEN ptyIn[i]
                                                ELSE got.new[i - Len(ptyIn)]
    <3>1. got.new \in Seq(Nat)
      BY <1>9, Zenon
    <3>2. /\ ptyIn \o got.new \in Seq(Nat)
          /\ Len(ptyIn \o got.new) = Len(ptyIn) + Len(got.new)
          /\ \A i \in 1..(Len(ptyIn) + Len(got.new)) :
                (ptyIn \o got.new)[i] = IF i <= Len(ptyIn) THEN ptyIn[i]
                                        ELSE got.new[i - Len(ptyIn)]
      BY <2>2, <3>1, ConcatProperties, Zenon
    <3> QED BY <2>1, <3>2, Zenon DEF n
  <2>4. AgentTyped'
    BY <1>0, <1>2, <1>9, <1>11, <2>1, <2>3, Zenon DEF AgentTyped, snapVars
  <2>5. /\ AckOffset(a'.in) = AckOffset(a.in) /\ a'.in.recv = a.in.recv + n
        /\ a'.in.pending = Len(ptyIn')
    <3>1. a'.in.recv = a.in.recv + n /\ a'.in.pending = a.in.pending + n
      BY <1>9, <1>11, <2>1, Zenon
    <3>2. (a.in.recv + n) - (a.in.pending + n) = a.in.recv - a.in.pending
      BY <1>5, <1>10, OffsetsMove, Zenon
    <3>3. AckOffset(a'.in) = a'.in.recv - a'.in.pending
      BY DEF AckOffset
    <3>4. a'.in.pending = Len(ptyIn')
      BY <2>2, <2>3, <3>1, Zenon
    <3> QED BY <1>5, <3>1, <3>2, <3>3, <3>4, Zenon
  <2>6. c' = c
    BY <1>2, ClientStands, Zenon
  <2>7. ASSUME NEW i \in 1..Len(ptyIn') PROVE ptyIn'[i] = AckOffset(a'.in) + i
    <3>1. CASE i <= Len(ptyIn)
      <4>1. i \in 1..Len(ptyIn)
        BY <2>2, <2>3, <3>1
      <4> QED BY <1>3, <2>3, <2>5, <3>1, <4>1, Zenon DEF Keyed
    <3>2. CASE ~(i <= Len(ptyIn))
      <4> DEFINE h == i - Len(ptyIn)
      <4>1. h \in 1..n /\ h \in Nat /\ i \in Nat
        BY <1>10, <2>2, <2>3, <3>2
      <4>2. ptyIn'[i] = got.new[h]
        BY <2>3, <3>2, Zenon
      <4>3. /\ a.in.recv - m.off + h \in 1..Len(m.bytes)
            /\ got.new[h] = m.bytes[a.in.recv - m.off + h]
        BY <1>9, <4>1, Zenon
      <4>4. got.new[h] = m.off + (a.in.recv - m.off + h)
        BY <1>7, <4>3, Zenon DEF m
      <4>5. AckOffset(a'.in) + i = a.in.recv + h
        <5>1. (a.in.recv - Len(ptyIn)) + i = a.in.recv + (i - Len(ptyIn))
          <6>1. i \in Nat /\ Len(ptyIn) \in Nat /\ a.in.recv \in Nat
            BY <1>5, <2>2, <4>1, Zenon
          <6> QED BY <6>1, OffsetsSwap, Zenon
        <5>2. AckOffset(a'.in) = a.in.recv - Len(ptyIn)
          BY <1>5, <2>2, <2>5, Zenon
        <5> QED BY <5>1, <5>2, Zenon
      <4> HIDE DEF h
      <4> QED BY <1>1, <1>5, <4>1, <4>2, <4>4, <4>5, SMTT(30)
    <3> QED BY <3>1, <3>2, Zenon
  <2>8. a'.in.recv <= Len(c'.out.log)
    <3>1. a'.in.recv = got.cur.recv
      BY <1>11, <2>1, Zenon
    <3> QED BY <1>3, <1>7, <1>9, <2>6, <3>1, Zenon DEF Keyed
  <2>9. Keyed'
    BY <1>2, <1>3, <2>5, <2>6, <2>7, <2>8, Zenon DEF Keyed
  <2>10. Unaccused'
    BY <2>1, Zenon DEF InputInv, Unaccused
  <2>11. a.in.recv <= a'.in.recv /\ m.off + Len(m.bytes) <= a'.in.recv
    <3>1. a.in.recv <= a.in.recv + n
      BY <1>5, <1>10, Offsets, Zenon
    <3>2. a'.in = got.cur
      BY <1>11, <2>1, Zenon
    <3> QED BY <1>9, <2>5, <3>1, <3>2, Zenon
  <2> QED
    BY <1>0, <1>2, <2>1, <2>4, <2>5, <2>9, <2>10, <2>11, TakeKeeps, Zenon DEF m
<1> QED
  BY <1>13, <1>14, <1>15, Zenon

(* A change of one field of the agent's end of a connection.               *)
LEMMA ConnTyped ==
    ASSUME InputInv, NEW k \in Conns, NEW x \in AgentConns, x.stage = ac[k].stage,
           ac' = [ac EXCEPT ![k] = x]
    PROVE  /\ ac' \in [Conns -> AgentConns] /\ ac'[k] = x
           /\ \A j \in Conns \ {k} : ac'[j] = ac[j]
           /\ \A j \in Conns : ac'[j].stage = ac[j].stage
BY AgentStream, Zenon

LEMMA AgentReceivesAckKeeps ==
    ASSUME InputInv, plan' = plan, NEW k \in Conns, AgentReceivesAck(k)
    PROVE  InputInv'
<1> DEFINE m     == Head(up[k])
           acked == AckedOutput(k, m.ack)
<1>0. /\ up[k] # <<>> /\ m.type = "Ack" /\ m \in Frames
      /\ ac[k].stage \in {"snapshot", "live"} /\ AgentTyped
  BY ReadsTyped, Zenon DEF AgentReceivesAck
<1>1. m.ack \in Nat
  BY <1>0, FrameFields, Zenon
<1>2. UNCHANGED <<fed, ptyBuf, ptyIn, ptyGot, shell, snapVars, done, clientVars, down>>
  BY Zenon DEF AgentReceivesAck, ptyVars
<1>3. Held(acked.buf) /\ acked.buf \in Buffers /\ acked.err \in {"ok", "AckBeyondSent"}
  BY <1>1, AckedTyped, Zenon DEF Held
<1>4. StreamOK(a) /\ a \in Streams /\ CursorOK(a.in) /\ a.in.onDelivery = TRUE
  BY AgentStream, Zenon DEF StreamOK
<1>5. CASE acked.err = "ok"
  <2>1. a' = [a EXCEPT !.out = acked.buf] /\ up' = Popped(up, k) /\ ac' = ac /\ errors' = errors
    BY <1>5 DEF AgentReceivesAck
  <2> HIDE DEF acked
  <2>2. a' \in Streams /\ a'.out = acked.buf /\ a'.in = a.in
    BY <1>3, <1>4, <2>1, Zenon DEF Streams
  <2>3. AgentTyped'
    BY <1>0, <1>2, <1>3, <2>1, <2>2, Zenon DEF AgentTyped, StreamOK, snapVars
  <2> QED
    BY <1>0, <1>2, <2>1, <2>2, <2>3, TakesKeeps, Zenon
<1>6. CASE acked.err # "ok"
  <2>1. AgentDrops(k, a) /\ errors' = errors \cup {<<"agent", "AckBeyondSent">>}
    BY <1>3, <1>6, Zenon DEF AgentReceivesAck, AgentFails
  <2>2. done' \in BOOLEAN /\ ac[k].stage # "new"
    BY <1>0, <1>2, AgentStream, Zenon
  <2> QED
    BY <1>2, <1>4, <2>1, <2>2, DropsKeeps, Zenon
<1> QED
  BY <1>5, <1>6, Zenon

LEMMA AgentReceivesResizeKeeps ==
    ASSUME InputInv, plan' = plan, NEW k \in Conns, AgentReceivesResize(k)
    PROVE  InputInv'
<1> DEFINE m == Head(up[k])
           x == [ac[k] EXCEPT !.asked = FALSE]
<1>0. /\ up[k] # <<>> /\ m.type = "Resize" /\ m \in Frames /\ ac[k] \in AgentConns
      /\ ac[k].stage \in {"snapshot", "live"} /\ AgentTyped
  BY ReadsTyped, Zenon DEF AgentReceivesResize
<1>1. m.size \in Sizes
  BY <1>0, FrameFields, Zenon
<1>2. /\ UNCHANGED <<a, fed, ptyBuf, ptyIn, ptyGot, shell, snapWait, done, clientVars,
                     down, errors>>
      /\ size' = m.size /\ up' = Popped(up, k)
  BY DEF AgentReceivesResize, ptyVars
<1>3. x \in AgentConns /\ x.stage = ac[k].stage /\ ac' = [ac EXCEPT ![k] = x]
  BY <1>0, Zenon DEF AgentReceivesResize, AgentConns
<1> HIDE DEF x
<1>4. /\ ac' \in [Conns -> AgentConns] /\ ac'[k] = x
      /\ \A j \in Conns \ {k} : ac'[j] = ac[j]
  BY <1>3, ConnTyped, Zenon
<1>5. AgentTyped'
  BY <1>0, <1>1, <1>2, <1>4, Zenon DEF AgentTyped
<1> QED
  BY <1>0, <1>2, <1>3, <1>4, <1>5, TakesKeeps, Zenon

LEMMA AgentReceivesGridAppliedKeeps ==
    ASSUME InputInv, plan' = plan, NEW k \in Conns, AgentReceivesGridApplied(k)
    PROVE  InputInv'
<1> DEFINE m == Head(up[k])
           x == [ac[k] EXCEPT !.awaiting = FALSE]
           err == IF ~ac[k].awaiting \/ ac[k].emit # "none"
                  THEN "UnexpectedMessage"
                  ELSE IF m.gen # ac[k].gen THEN "MalformedField" ELSE "ok"
<1>0. /\ up[k] # <<>> /\ m.type = "GridApplied" /\ m \in Frames /\ ac[k] \in AgentConns
      /\ ac[k].stage \in {"snapshot", "live"} /\ AgentTyped
  BY ReadsTyped DEF AgentReceivesGridApplied
<1>1. UNCHANGED <<fed, ptyBuf, ptyIn, ptyGot, shell, snapVars, done, clientVars, down>>
  BY Zenon DEF AgentReceivesGridApplied, ptyVars
<1>2. CASE err = "ok"
  <2>1. a' = a /\ errors' = errors /\ up' = Popped(up, k)
    BY <1>2 DEF AgentReceivesGridApplied
  <2>2. x \in AgentConns /\ x.stage = ac[k].stage /\ ac' = [ac EXCEPT ![k] = x]
    BY <1>0, <1>2, Zenon DEF AgentReceivesGridApplied, AgentConns
  <2> HIDE DEF x
  <2>3. /\ ac' \in [Conns -> AgentConns] /\ ac'[k] = x
        /\ \A j \in Conns \ {k} : ac'[j] = ac[j]
    BY <2>2, ConnTyped, Zenon
  <2>4. AgentTyped'
    BY <1>0, <1>1, <2>1, <2>3, Zenon DEF AgentTyped, snapVars
  <2> QED
    BY <1>0, <1>1, <2>1, <2>2, <2>3, <2>4, TakesKeeps, Zenon
<1>3. CASE err # "ok"
  <2>1. AgentDrops(k, a) /\ errors' = errors \cup {<<"agent", err>>} /\ err # "StreamGap"
    BY <1>3, Zenon DEF AgentReceivesGridApplied, AgentFails
  <2>2. done' \in BOOLEAN /\ ac[k].stage # "new"
    BY <1>0, <1>1, AgentStream, Zenon
  <2> HIDE DEF err
  <2> QED
    BY <1>1, <2>1, <2>2, AgentStream, DropsKeeps, ZenonT(30)
<1> QED
  BY <1>2, <1>3, Zenon

(* Frames the agent sends.                                                 *)
LEMMA AgentSendsKeeps ==
    ASSUME InputInv, plan' = plan, NEW k \in Conns, NEW m \in Frames,
           NEW x \in AgentConns, x.stage = ac[k].stage, AgentSends(k),
           ac' = [ac EXCEPT ![k] = x], down' = Answered(k, m), m.type # "AuthOk",
           Honours(m, AckOffset(a.in)), StreamOK(a'), a'.in = a.in,
           UNCHANGED <<ptyVars, snapVars, done, clientVars, up, errors>>
    PROVE  InputInv'
<1>1. ac[k].stage \in {"snapshot", "live"}
  BY Zenon DEF AgentSends, Current
<1>2. ac' \in [Conns -> AgentConns] /\ \A j \in Conns : ac'[j].stage = ac[j].stage
  BY ConnTyped, Zenon
<1>3. AgentTyped'
  BY <1>2, Zenon DEF InputInv, TypeInv, AgentTyped, ptyVars, snapVars
<1>4. UNCHANGED <<plan, clientVars, ptyIn, ptyGot, shell, up, errors>>
  BY Zenon DEF ptyVars
<1> QED
  BY <1>1, <1>2, <1>3, <1>4, SendKeeps, Zenon

LEMMA AgentSendsGridKeeps ==
    ASSUME InputInv, plan' = plan, NEW k \in Conns, AgentSendsGrid(k)
    PROVE  InputInv'
<1>0. ac[k] \in AgentConns /\ StreamOK(a) /\ ac[k].gen \in Nat /\ ac[k].snap \in Nat
  BY AgentStream DEF AgentConns
<1>1. ASSUME NEW m \in Frames, m.type \in {"GridBegin", "GridChunk", "GridEnd"},
             NEW e \in {"chunk", "end", "none"}, down' = Answered(k, m),
             ac' = [ac EXCEPT ![k].emit = e]
      PROVE  InputInv'
  <2> DEFINE x == [ac[k] EXCEPT !.emit = e]
  <2>1. x \in AgentConns /\ x.stage = ac[k].stage /\ ac' = [ac EXCEPT ![k] = x]
    BY <1>0, <1>1 DEF AgentConns
  <2>2. Honours(m, AckOffset(a.in)) /\ m.type # "AuthOk"
    BY <1>1 DEF Honours
  <2>3. /\ AgentSends(k) /\ a' = a
        /\ UNCHANGED <<ptyVars, snapVars, done, clientVars, up, errors>>
    BY DEF AgentSendsGrid
  <2> HIDE DEF x
  <2> QED BY <1>0, <1>1, <2>1, <2>2, <2>3, AgentSendsKeeps, Zenon
<1>2. /\ GridBegin(ac[k].gen) \in Frames /\ GridBegin(ac[k].gen).type = "GridBegin"
      /\ GridChunk(ac[k].snap) \in Frames /\ GridChunk(ac[k].snap).type = "GridChunk"
      /\ GridEnd \in Frames /\ GridEnd.type = "GridEnd"
  BY <1>0, FramesBuilt, Zenon DEF GridBegin, GridChunk, GridEnd
<1> QED
  BY <1>1, <1>2, Zenon DEF AgentSendsGrid

LEMMA AgentSendsDataKeeps ==
    ASSUME InputInv, plan' = plan, NEW k \in Conns, AgentSendsData(k)
    PROVE  InputInv'
<1> DEFINE want  == AtMost(plan.payload, Unsent(a.out))
           bytes == CopyOut(a.out, a.out.next, want)
           ack   == AckOffset(a.in)
           m     == Data(ack, a.out.next, bytes)
           x     == [ac[k] EXCEPT !.lastAcked = ack]
           b     == AdvanceSendNext(a.out, Len(bytes))
<1>0. /\ ac[k] \in AgentConns /\ StreamOK(a) /\ a \in Streams /\ Held(a.out)
      /\ plan.payload \in Nat /\ ack \in Nat /\ a.out.next \in Nat
      /\ Len(a.out.log) \in Nat /\ a.out.next <= Len(a.out.log)
  BY AgentStream, StreamNumbers, BoundsAssumption, Zenon DEF StreamOK, InputInv, TypeInv
<1>1. want \in Nat
  BY <1>0 DEF AtMost, Unsent, End
<1> HIDE DEF want, ack
<1>2. bytes \in Seq(Nat) /\ Len(bytes) \in Nat
  <2>1. bytes \in Seq(Nat)
    BY <1>0, <1>1, CopyTyped, ZenonT(30)
  <2> QED BY <2>1
<1>3. /\ AgentSends(k) /\ down' = Answered(k, m)
      /\ a' = [a EXCEPT !.out = AdvanceSendNext(@, Len(bytes))]
      /\ ac' = [ac EXCEPT ![k].lastAcked = ack]
      /\ UNCHANGED <<ptyVars, snapVars, done, clientVars, up, errors>>
  BY Zenon DEF AgentSendsData, want, ack
<1> HIDE DEF bytes
<1>4. Held(b) /\ b \in Buffers
  BY <1>0, <1>2, AdvanceTyped, Zenon DEF Held
<1>5. a' = [a EXCEPT !.out = b]
  BY <1>3, Zenon
<1> HIDE DEF b
<1>6. StreamOK(a') /\ a'.in = a.in
  <2>1. a' \in Streams /\ a'.out = b /\ a'.in = a.in
    BY <1>0, <1>4, <1>5, Zenon DEF Streams
  <2> QED BY <1>4, <2>1, Zenon DEF StreamOK
<1>7. x \in AgentConns /\ x.stage = ac[k].stage /\ ac' = [ac EXCEPT ![k] = x]
  BY <1>0, <1>3, Zenon DEF AgentConns
<1>8. m \in Frames /\ m.type = "Data" /\ m.ack = ack
  BY <1>0, <1>2, DataBuilt, Zenon DEF Data
<1> HIDE DEF m, x
<1>9. Honours(m, AckOffset(a.in))
  BY <1>0, <1>8 DEF Honours, ack
<1> QED
  BY <1>3, <1>6, <1>7, <1>8, <1>9, AgentSendsKeeps, ZenonT(30)

LEMMA AgentSendsEndKeeps ==
    ASSUME InputInv, plan' = plan, NEW k \in Conns, AgentSendsEnd(k)
    PROVE  InputInv'
<1> DEFINE m == SessionEnd
           x == [ac[k] EXCEPT !.endSent = TRUE]
<1>0. ac[k] \in AgentConns /\ StreamOK(a)
  BY AgentStream, Zenon
<1>1. /\ AgentSends(k) /\ down' = Answered(k, m) /\ a' = a
      /\ UNCHANGED <<ptyVars, snapVars, done, clientVars, up, errors>>
  BY DEF AgentSendsEnd
<1>2. x \in AgentConns /\ x.stage = ac[k].stage /\ ac' = [ac EXCEPT ![k] = x]
  BY <1>0, ZenonT(30) DEF AgentConns, AgentSendsEnd
<1>3. m \in Frames /\ m.type = "SessionEnd"
  BY FramesBuilt, Zenon DEF SessionEnd
<1> HIDE DEF m, x
<1>4. Honours(m, AckOffset(a.in))
  BY <1>3 DEF Honours
<1> QED
  BY <1>0, <1>1, <1>2, <1>3, <1>4, AgentSendsKeeps, Zenon

LEMMA AgentSendsAckKeeps ==
    ASSUME InputInv, plan' = plan, NEW k \in Conns, AgentSendsAck(k)
    PROVE  InputInv'
<1> DEFINE ack == AckOffset(a.in)
           m == Ack(ack)
           x == [ac[k] EXCEPT !.lastAcked = ack]
<1>0. ac[k] \in AgentConns /\ StreamOK(a) /\ ack \in Nat
  BY AgentStream, StreamNumbers, Zenon
<1>1. /\ AgentSends(k) /\ down' = Answered(k, m) /\ a' = a
      /\ UNCHANGED <<ptyVars, snapVars, done, clientVars, up, errors>>
  BY DEF AgentSendsAck
<1>2. ac' = [ac EXCEPT ![k].lastAcked = ack]
  BY DEF AgentSendsAck
<1> HIDE DEF ack
<1>3. x \in AgentConns /\ x.stage = ac[k].stage /\ ac' = [ac EXCEPT ![k] = x]
  BY <1>0, <1>2, Zenon DEF AgentConns
<1>4. m \in Frames /\ m.type = "Ack" /\ m.ack = ack
  BY <1>0, FramesBuilt, Zenon DEF Ack
<1> HIDE DEF m, x
<1>5. Honours(m, AckOffset(a.in))
  BY <1>0, <1>4 DEF Honours, ack
<1> QED
  BY <1>0, <1>1, <1>3, <1>4, <1>5, AgentSendsKeeps, Zenon

(* A snapshot: the output starts a new generation.                         *)
LEMMA SuppliedTyped ==
    ASSUME InputInv, NEW k \in Conns, ac[k].stage = "snapshot", SnapshotSupplied(k)
    PROVE  /\ StreamOK(a') /\ a'.in = a.in /\ ptyBuf' \in Seq(Nat)
           /\ ac' \in [Conns -> AgentConns]
           /\ \A j \in Conns :
                 \/ ac'[j].stage = ac[j].stage
                 \/ {ac[j].stage, ac'[j].stage} \subseteq {"snapshot", "live"}
<1>0. /\ StreamOK(a) /\ a \in Streams /\ Held(a.out) /\ a.out.gen + 1 \in Nat /\ fed \in Nat
      /\ ac \in [Conns -> AgentConns]
  <2>1. StreamOK(a) /\ CursorOK(a.in) /\ fed \in Nat /\ ac \in [Conns -> AgentConns]
    BY AgentStream, Zenon DEF InputInv, TypeInv, AgentTyped
  <2>2. a.out.gen \in Nat
    BY <2>1, StreamNumbers, Zenon
  <2>3. a.out.gen + 1 \in Nat
    BY <2>2
  <2> QED BY <2>1, <2>3, Zenon DEF StreamOK
<1>1. ptyBuf' \in Seq(Nat)
  BY EmptySeq, Zenon DEF SnapshotSupplied
<1>2. CASE Current(k)
  <2> DEFINE g == a.out.gen + 1
             b == NewGeneration(a.out)
             x == [ac[k] EXCEPT !.stage = "live", !.suppress = FALSE,
                                !.awaiting = TRUE, !.emit = "begin",
                                !.gen = g, !.snap = fed]
  <2>1. a' = [a EXCEPT !.out = NewGeneration(@)] /\ ac' = [ac EXCEPT ![k] = x]
    BY <1>2, Zenon DEF SnapshotSupplied
  <2>2. Held(b) /\ b \in Buffers
    BY <1>0, GenerationTyped, Zenon DEF Held
  <2>3. a' = [a EXCEPT !.out = b]
    BY <2>1
  <2> HIDE DEF b, g
  <2>4. a' \in Streams /\ a'.out = b /\ a'.in = a.in
    BY <1>0, <2>2, <2>3, Zenon DEF Streams
  <2>5. StreamOK(a')
    BY <2>2, <2>4, Zenon DEF StreamOK
  <2>6. x \in AgentConns /\ x.stage = "live"
    <3>1. ac[k] \in AgentConns /\ g \in Nat
      BY <1>0 DEF g
    <3> QED BY <1>0, <3>1, Zenon DEF AgentConns
  <2> HIDE DEF x
  <2>7. ac' \in [Conns -> AgentConns] /\ ac'[k] = x /\ \A j \in Conns \ {k} : ac'[j] = ac[j]
    BY <1>0, <2>1, <2>6, Zenon
  <2> QED BY <1>1, <2>4, <2>5, <2>6, <2>7, Zenon
<1>3. CASE ~Current(k)
  BY <1>0, <1>1, <1>3, Zenon DEF SnapshotSupplied
<1> QED
  BY <1>2, <1>3, Zenon

LEMMA AgentNeedsSnapshotKeeps ==
    ASSUME InputInv, plan' = plan, NEW k \in Conns, AgentNeedsSnapshot(k)
    PROVE  InputInv'
<1>0. UNCHANGED <<fed, ptyIn, ptyGot, shell, size, done, clientVars, netVars>>
  BY DEF AgentNeedsSnapshot
<1>1. ac[k].stage = "snapshot" /\ ac[k] \in AgentConns
  BY AgentStream, Zenon DEF AgentNeedsSnapshot
<1>2. CASE SnapshotSupplied(k) /\ snapWait' = NoConn
  <2>1. /\ StreamOK(a') /\ a'.in = a.in /\ ptyBuf' \in Seq(Nat)
        /\ ac' \in [Conns -> AgentConns]
        /\ \A j \in Conns :
                 \/ ac'[j].stage = ac[j].stage
                 \/ {ac[j].stage, ac'[j].stage} \subseteq {"snapshot", "live"}
    BY <1>1, <1>2, SuppliedTyped, Zenon
  <2>2. AgentTyped'
    BY <1>0, <1>2, <2>1, Zenon DEF InputInv, TypeInv, AgentTyped
  <2> QED BY <1>0, <2>1, <2>2, AgentKeeps, Zenon
<1>3. CASE ac' = [ac EXCEPT ![k].asked = TRUE] /\ snapWait' = k /\ UNCHANGED <<a, ptyBuf>>
  <2> DEFINE x == [ac[k] EXCEPT !.asked = TRUE]
  <2>1. x \in AgentConns /\ x.stage = ac[k].stage /\ ac' = [ac EXCEPT ![k] = x]
    BY <1>1, <1>3, Zenon DEF AgentConns
  <2> HIDE DEF x
  <2>2. ac' \in [Conns -> AgentConns] /\ \A j \in Conns : ac'[j].stage = ac[j].stage
    BY <2>1, ConnTyped, ZenonT(30)
  <2>3. AgentTyped'
    BY <1>0, <1>3, <2>2, Zenon DEF InputInv, TypeInv, AgentTyped
  <2> QED BY <1>0, <1>3, <2>2, <2>3, AgentKeeps, Zenon
<1> QED
  BY <1>2, <1>3, Zenon DEF AgentNeedsSnapshot

LEMMA TrySupplySnapshotKeeps ==
    ASSUME InputInv, plan' = plan, TrySupplySnapshot
    PROVE  InputInv'
<1>0. /\ UNCHANGED <<fed, ptyIn, ptyGot, shell, size, done, clientVars, netVars>>
      /\ snapWait' = NoConn
  BY Zenon DEF TrySupplySnapshot
<1>1. snapWait \in Conns
  BY Zenon DEF TrySupplySnapshot, InputInv, TypeInv, AgentTyped
<1>2. /\ StreamOK(a') /\ a'.in = a.in /\ ptyBuf' \in Seq(Nat)
      /\ ac' \in [Conns -> AgentConns]
      /\ \A j \in Conns :
               \/ ac'[j].stage = ac[j].stage
               \/ {ac[j].stage, ac'[j].stage} \subseteq {"snapshot", "live"}
  <2>1. CASE ac[snapWait].stage = "snapshot"
    <3>1. SnapshotSupplied(snapWait)
      BY <2>1, Zenon DEF TrySupplySnapshot
    <3> QED BY <1>1, <2>1, <3>1, SuppliedTyped, Zenon
  <2>2. CASE ac[snapWait].stage # "snapshot"
    <3>1. UNCHANGED <<a, ptyBuf, ac>>
      BY <2>2, Zenon DEF TrySupplySnapshot
    <3> QED BY <3>1, Zenon DEF InputInv, TypeInv, AgentTyped
  <2> QED BY <2>1, <2>2, Zenon
<1>3. AgentTyped'
  BY <1>0, <1>2 DEF InputInv, TypeInv, AgentTyped
<1> QED
  BY <1>0, <1>2, <1>3, AgentKeeps, Zenon
===============================================================================
