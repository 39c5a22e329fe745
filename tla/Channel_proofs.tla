--------------------------- MODULE Channel_proofs ---------------------------
(***************************************************************************)
(* Proofs about a connection, for every value of the limits and bounds.    *)
(***************************************************************************)
EXTENDS Channel, TLAPS

(* What passes between two channels, and the values of their fields.       *)
Messages ==
    [type : {"Ping", "Pong"}] \cup [type : {"Ack"}, ack : Nat]
    \cup [type : {"Data"}, ack : Nat, off : Nat, bytes : Seq(Nat)]

SealedFrames == [epoch : Nat, key : Seq(Nat), nonce : Nat, plain : Messages]

Sealers == [key : Seq(Nat), epoch : Nat, counter : Nat, bytes : Nat]

Openers == [key : Seq(Nat), epoch : Nat, counter : Nat, ready : BOOLEAN,
            nextKey : Seq(Nat), nextCounter : Nat]

OutStreams == [log : Seq(Nat), base : Nat, next : Nat, gen : Nat,
               overflowed : BOOLEAN]

InStreams == [recv : Nat, pending : Nat, onDelivery : BOOLEAN]

(* A connection is up, or has ended as it may.                             *)
Reasons == {"up", "PeerSilent", "PeerClosed", "EpochsExhausted"}

Channels ==
    [why : Reasons, sealer : Sealers, opener : Openers, out : OutStreams,
     in : InStreams, acked : Nat, heard : Nat, sent : Nat, epoch : Nat,
     ack : Nat \cup {Never}, pong : BOOLEAN, reading : BOOLEAN, awake : BOOLEAN]

(* The key of an epoch.                                                    *)
Subkeys(n) == [i \in 1..n |-> i]

(* A sealer counts from zero in every epoch, an opener prepares the next   *)
(* key only to use it at once.                                             *)
SealerOK(s) ==
    /\ s \in Sealers
    /\ s.epoch <= LastEpoch /\ s.key = Subkeys(s.epoch)
    /\ s.counter <= FrameLimit /\ (s.counter = 0 => s.bytes = 0)

OpenerOK(o) ==
    /\ o \in Openers
    /\ o.epoch <= LastEpoch /\ o.key = Subkeys(o.epoch) /\ ~o.ready

FrameOK(f) ==
    /\ f \in SealedFrames
    /\ f.epoch <= LastEpoch /\ f.key = Subkeys(f.epoch) /\ f.nonce < FrameLimit

(* Each end by itself: the window of its buffer, and what it acknowledged. *)
ChannelOK(c) ==
    /\ c \in Channels
    /\ SealerOK(c.sealer) /\ OpenerOK(c.opener)
    /\ c.out.base <= c.out.next /\ c.out.next <= Len(c.out.log)
    /\ c.in.pending <= c.in.recv
    /\ c.acked <= AckOffset(c.in) /\ (c.ack # Never => AckOwed(c))

(* A frame an opener at this epoch and counter opens.                      *)
Follows(epoch, counter, f) ==
    \/ f.epoch = epoch /\ f.nonce = counter
    \/ f.epoch = epoch + 1 /\ f.nonce = 0

IsData(m) == m.type = "Data"

HasAck(m) == m.type \in {"Data", "Ack"}

(* The frames on their way open one after the other.                       *)
Chain(o, w) ==
    \A i \in 1..Len(w) :
        Follows(IF i = 1 THEN o.epoch ELSE w[i - 1].epoch,
                IF i = 1 THEN o.counter ELSE w[i - 1].nonce + 1, w[i])

(* The sealer stands where they end, or at the beginning of the epoch      *)
(* after it.                                                               *)
EndsAt(o, w, s) ==
    LET epoch == IF w = <<>> THEN o.epoch ELSE w[Len(w)].epoch
        counter == IF w = <<>> THEN o.counter ELSE w[Len(w)].nonce + 1
    IN \/ s.epoch = epoch /\ s.counter = counter
       \/ s.epoch = epoch + 1 /\ s.counter = 0

(* What an end at `recv' misses below offset n is in one of the frames     *)
(* 1 .. k.                                                                 *)
Covered(recv, w, k, n) ==
    \A v \in recv..(n - 1) :
        \E j \in 1..k : IsData(w[j].plain) /\ w[j].plain.off = v

(* The direction from a channel d to a channel c, over the wire w: while d  *)
(* is up, c misses nothing that d has sent and that is not under way.      *)
Inbound(w, c, d) ==
    /\ \A i \in 1..Len(w) :
          /\ FrameOK(w[i])
          /\ HasAck(w[i].plain) => w[i].plain.ack <= c.out.next
          /\ IsData(w[i].plain) =>
               /\ Len(w[i].plain.bytes) = 1 /\ w[i].plain.off + 1 <= OffsetMax
               /\ Covered(c.in.recv, w, i - 1, w[i].plain.off)
               /\ d.why = "up" => w[i].plain.off + 1 <= d.out.next
    /\ Chain(c.opener, w)
    /\ d.why = "up" =>
         /\ EndsAt(c.opener, w, d.sealer)
         /\ Covered(c.in.recv, w, Len(w), d.out.next) /\ c.in.recv <= d.out.next

ChanTypeOK ==
    /\ ch \in [Ends -> Channels] /\ \A e \in Ends : ChannelOK(ch[e])
    /\ wire \in [Ends -> Seq(SealedFrames)] /\ old \in [Ends -> Nat]
    /\ cut \in BOOLEAN /\ load \in [agent : Nat, client : Nat, stalls : Nat]
    /\ \A e \in Ends :
          old[e] <= Len(wire[e]) /\ Len(ch[e].out.log) + load[e] <= OffsetMax

(* An epoch without a frame is short: its keepalive comes before its end.  *)
Fresh(c) ==
    c.sealer.counter = 0 => c.epoch <= c.sent /\ c.sent <= Keepalive

KeysFresh(e) ==
    Up(e) => Fresh(ch[e]) /\ (ch[e].sealer.counter = 0 => SendGate(e))

EndsWell(e) == ~cut => ch[e].why # "PeerSilent"

StreamAgrees(e) == Up(e) /\ ~cut => Inbound(wire[e], ch[e], ch[Other(e)])

(* What an end has heard is no older than what its peer has sent, up to    *)
(* the tick a frame may be under way.                                      *)
HeardInTime(e) ==
    Up(e) /\ ch[e].reading =>
        /\ ch[e].heard <= Silence
        /\ ~cut => /\ ch[e].heard <= Keepalive + 1
                   /\ old[e] = 0 => ch[e].heard <= Keepalive
                   /\ wire[e] = <<>> /\ Up(Other(e)) => ch[e].heard <= ch[Other(e)].sent

(* A loop sleeps with room to send only when nothing is to be sent.        *)
Rested(c) ==
    /\ Unsent(c.out) = 0 /\ ~c.pong
    /\ c.sent <= Keepalive /\ c.ack <= AckDelay
    /\ AckOwed(c) => c.ack # Never

RestsIdle(e) == AtRest(e) => Rested(ch[e])

(* What an end has acknowledged has arrived or is on its way.              *)
UnderWay(a, base, w) ==
    \/ a <= base
    \/ \E i \in 1..Len(w) : HasAck(w[i].plain) /\ a <= w[i].plain.ack

AcksArrive(e) ==
    Up(e) /\ Up(Other(e)) => UnderWay(ch[e].acked, ch[Other(e)].out.base, wire[Other(e)])

EndInv(e) ==
    /\ EndsWell(e) /\ KeysFresh(e) /\ StreamAgrees(e)
    /\ HeardInTime(e) /\ RestsIdle(e) /\ AcksArrive(e)

ChanInv == ChanTypeOK /\ \A e \in Ends : EndInv(e)
-------------------------------------------------------------------------------
(* Sequences *)

(* The empty sequence is the one without a length.                         *)
LEMMA EmptySeq ==
    ASSUME NEW S
    PROVE  <<>> \in Seq(S) /\ \A s \in Seq(S) : s = <<>> <=> Len(s) = 0
OBVIOUS

(* A sequence with one more element.                                       *)
LEMMA AppendProperties ==
    ASSUME NEW S, NEW s \in Seq(S), NEW x \in S
    PROVE  /\ Append(s, x) \in Seq(S) /\ Append(s, x) # <<>>
           /\ Len(Append(s, x)) = Len(s) + 1 /\ Len(s) \in Nat
OBVIOUS

(* One element of a sequence, by itself.                                   *)
LEMMA OneByte ==
    ASSUME NEW S, NEW s \in Seq(S), NEW n \in 1..Len(s)
    PROVE  SubSeq(s, n, n) \in Seq(S) /\ Len(SubSeq(s, n, n)) = 1
<1>1. n \in Nat /\ s[n] \in S /\ n - n + 1 = 1
  OBVIOUS
<1> QED BY <1>1

(* A sequence without its first element.                                   *)
LEMMA TailProperties ==
    ASSUME NEW S, NEW s \in Seq(S), s # <<>>
    PROVE  Tail(s) \in Seq(S) /\ Len(Tail(s)) = Len(s) - 1
OBVIOUS

(* What is in a sequence.                                                  *)
LEMMA ElementOf ==
    ASSUME NEW S, NEW s \in Seq(S)
    PROVE  Len(s) \in Nat /\ \A i \in 1..Len(s) : s[i] \in S /\ i \in DOMAIN s
OBVIOUS

(* The places of a sequence with one more element.                         *)
LEMMA Places ==
    ASSUME NEW n \in Nat
    PROVE  /\ (n + 1) - 1 = n
           /\ \A i \in 1..(n + 1) :
                 \/ i <= n /\ i \in 1..n /\ i - 1 \in Nat /\ i - 1 <= n
                 \/ ~(i <= n) /\ i = n + 1
OBVIOUS

(* Comparisons of numbers.                                                 *)
LEMMA Order ==
    /\ \A x \in Nat : x <= x /\ 0 <= x
    /\ \A x, y \in Nat : x < y => x <= y
    /\ \A x, y, z \in Nat : x + y <= z => 0 + y <= z /\ x <= z
OBVIOUS

LEMMA Refl ==
    ASSUME NEW n \in Nat
    PROVE  n <= n
OBVIOUS

LEMMA NotZero ==
    ASSUME NEW n \in Nat
    PROVE  n + 1 # 0
OBVIOUS

LEMMA Succ ==
    ASSUME NEW n \in Nat
    PROVE  /\ n + 1 \in Nat /\ n <= n + 1 /\ n + 1 <= n + 1
           /\ \A x \in Nat : x <= n => x + 1 <= n + 1 /\ x <= n + 1
OBVIOUS

LEMMA SuccLess ==
    ASSUME NEW x \in Nat, NEW y \in Nat, NEW z \in Nat, x <= y, y < z
    PROVE  x + 1 <= z
OBVIOUS

LEMMA Pred ==
    ASSUME NEW n \in Nat
    PROVE  (IF n > 0 THEN n - 1 ELSE 0) \in Nat
OBVIOUS

LEMMA Trans ==
    ASSUME NEW x \in Nat, NEW y \in Nat, NEW z \in Nat, x <= y, y <= z
    PROVE  x <= z
OBVIOUS

(* The byte to send next.                                                  *)
LEMMA NextIn ==
    ASSUME NEW base \in Nat, NEW next \in Nat, NEW len \in Nat, base <= next, next < len
    PROVE  AtMost(next + 1, len) = next + 1 /\ ~(next < base \/ next >= len)
  BY DEF AtMost

(* A timer that has time left, and the Ack timer.                          *)
LEMMA AgedIn ==
    ASSUME NEW n \in Nat, NEW limit \in Nat, n < limit
    PROVE  Aged(n, limit) = n + 1 /\ Aged(n, limit) <= limit
  BY DEF Aged

LEMMA AckTimes ==
    ASSUME NEW limit \in Nat
    PROVE  /\ Never <= limit /\ 0 <= limit /\ 0 # Never
           /\ \A n \in Nat : n # Never /\ (n < limit => n <= limit)
  BY DEF Never

-------------------------------------------------------------------------------
(* The keys *)

(***************************************************************************)
(* The next key extends the one before by the number of its epoch.         *)
(***************************************************************************)
LEMMA NextSubkey ==
    ASSUME NEW n \in Nat
    PROVE  /\ DeriveSubkey(Subkeys(n), n + 1) = Subkeys(n + 1)
           /\ Subkeys(n) \in Seq(Nat) /\ Len(Subkeys(n)) = n
  <1>1. Subkeys(n) \in Seq(Nat) /\ Len(Subkeys(n)) = n
    BY DEF Subkeys
  <1>2. /\ Append(Subkeys(n), n + 1) \in Seq(Nat) /\ Subkeys(n + 1) \in Seq(Nat)
        /\ Len(Append(Subkeys(n), n + 1)) = n + 1 /\ Len(Subkeys(n + 1)) = n + 1
    BY <1>1 DEF Subkeys
  <1>3. \A i \in 1..(n + 1) : Append(Subkeys(n), n + 1)[i] = Subkeys(n + 1)[i]
    BY <1>1 DEF Subkeys
  <1> QED BY <1>1, <1>2, <1>3 DEF DeriveSubkey

(***************************************************************************)
(* The epoch byte after this one: the next, or zero after the last.        *)
(***************************************************************************)
LEMMA NextEpoch ==
    ASSUME NEW n \in Nat, n <= LastEpoch
    PROVE  (n + 1) % (LastEpoch + 1) = IF n = LastEpoch THEN 0 ELSE n + 1
  BY KeyLimitsAssumption

(***************************************************************************)
(* FrameOpener::Open takes every frame that follows, of this epoch or the  *)
(* next, and stands behind it.                                             *)
(***************************************************************************)
LEMMA OpenFollows ==
    ASSUME NEW o, OpenerOK(o), NEW f, FrameOK(f), Follows(o.epoch, o.counter, f)
    PROVE  /\ Open(o, f).err = "ok" /\ OpenerOK(Open(o, f).opener)
           /\ Open(o, f).opener.epoch = f.epoch
           /\ Open(o, f).opener.counter = f.nonce + 1
  <1>0. o \in Openers
    BY DEF OpenerOK
  <1>1. /\ o.epoch \in Nat /\ o.counter \in Nat /\ o.epoch <= LastEpoch
        /\ o.key = Subkeys(o.epoch) /\ ~o.ready
    BY DEF OpenerOK, Openers
  <1>2. /\ f.epoch \in Nat /\ f.nonce \in Nat /\ f.epoch <= LastEpoch
        /\ f.key = Subkeys(f.epoch) /\ f.nonce < FrameLimit
    BY DEF FrameOK, SealedFrames
  <1>3. LastEpoch \in Nat \ {0} /\ FrameLimit \in Nat \ {0}
    BY KeyLimitsAssumption
  <1>6. (o.epoch + 1) % (LastEpoch + 1) = IF o.epoch = LastEpoch THEN 0 ELSE o.epoch + 1
    BY <1>1, NextEpoch
  <1>4. CASE f.epoch = o.epoch /\ f.nonce = o.counter
    <2>1. f.epoch # (o.epoch + 1) % (LastEpoch + 1)
      BY <1>1, <1>3, <1>4, <1>6
    <2>2. OpenCurrent(o, f) = [err |-> "ok", opener |-> [o EXCEPT !.counter = @ + 1]]
      BY <1>1, <1>2, <1>3, <1>4 DEF OpenCurrent
    <2>3. Open(o, f) = [err |-> "ok", opener |-> [o EXCEPT !.counter = @ + 1]]
      BY <1>4, <2>1, <2>2 DEF Open
    <2> DEFINE n == o.counter + 1
               q == [o EXCEPT !.counter = n]
    <2>8. n \in Nat
      BY <1>1
    <2> HIDE DEF n
    <2>4. q \in Openers
      BY <1>0, <2>8, Zenon DEF Openers
    <2>5. q.epoch = o.epoch /\ q.key = o.key /\ q.counter = o.counter + 1
      BY <1>0 DEF Openers, n
    <2>6. q.ready = o.ready
      BY <1>0 DEF Openers
    <2> HIDE DEF q
    <2>7. Open(o, f).err = "ok" /\ Open(o, f).opener = q
      BY <2>3 DEF q, n
    <2> QED BY <1>1, <1>4, <2>4, <2>5, <2>6, <2>7 DEF OpenerOK
  <1>5. CASE f.epoch = o.epoch + 1 /\ f.nonce = 0
    <2> DEFINE p == PrepareNext(o)
               q == [key |-> f.key, epoch |-> f.epoch, counter |-> 1, ready |-> FALSE,
                     nextKey |-> NoKey, nextCounter |-> 0]
    <2>1. f.epoch = (o.epoch + 1) % (LastEpoch + 1) /\ o.epoch # LastEpoch
      BY <1>1, <1>2, <1>3, <1>5, <1>6
    <2>2. DeriveSubkey(o.key, o.epoch + 1) = f.key /\ f.key \in Seq(Nat)
      BY <1>1, <1>2, <1>5, NextSubkey, Zenon
    <2>3. /\ p.nextKey = f.key /\ p.nextCounter = 0 /\ p.epoch = o.epoch
      BY <1>0, <1>1, <2>1, <2>2 DEF PrepareNext, Openers
    <2> HIDE DEF p
    <2>4. Confirmed(p) = q
      BY <1>5, <2>3 DEF Confirmed
    <2>5. OpenNext(o, f) = [err |-> "ok", opener |-> q]
      BY <1>3, <1>5, <2>3, <2>4 DEF OpenNext, p
    <2>6. Open(o, f) = [err |-> "ok", opener |-> q]
      BY <2>1, <2>5 DEF Open
    <2>7. OpenerOK(q)
      BY <1>2, <2>2 DEF OpenerOK, Openers, NoKey
    <2> QED BY <1>5, <2>6, <2>7
  <1> QED BY <1>4, <1>5 DEF Follows

(* The outcome r of sealing the message m.                                 *)
Sealed(s, m, r) ==
    /\ r.err = "ok" /\ SealerOK(r.sealer) /\ r.sealer.epoch = s.epoch
    /\ r.sealer.counter = s.counter + 1 /\ FrameOK(r.frame)
    /\ r.frame.epoch = s.epoch /\ r.frame.nonce = s.counter /\ r.frame.plain = m

(***************************************************************************)
(* FrameSealer::Seal under a limit that is not reached, and Rekey before   *)
(* the last epoch.                                                         *)
(***************************************************************************)
LEMMA SealCounts ==
    ASSUME NEW s, SealerOK(s), s.counter < FrameLimit, NEW m \in Messages,
           NEW size \in Nat
    PROVE  Sealed(s, m, Seal(s, m, size))
  <1> DEFINE n == s.counter + 1
             b == s.bytes + size
             t == [s EXCEPT !.counter = n, !.bytes = b]
             f == [epoch |-> s.epoch, key |-> s.key, nonce |-> s.counter, plain |-> m]
  <1>0. s \in Sealers
    BY DEF SealerOK
  <1>1. /\ s.key \in Seq(Nat) /\ s.epoch \in Nat /\ s.counter \in Nat
        /\ s.bytes \in Nat /\ s.epoch <= LastEpoch /\ s.key = Subkeys(s.epoch)
    BY DEF SealerOK, Sealers
  <1>2. FrameLimit \in Nat
    BY KeyLimitsAssumption
  <1>3. Seal(s, m, size) = [err |-> "ok", frame |-> f, sealer |-> t]
    BY <1>1, <1>2 DEF Seal, Frame
  <1>9. n \in Nat /\ b \in Nat
    BY <1>1
  <1> HIDE DEF n, b
  <1>4. t \in Sealers
    BY <1>0, <1>9, Zenon DEF Sealers
  <1>8. t.counter = s.counter + 1 /\ t.epoch = s.epoch /\ t.key = s.key
    BY <1>0 DEF Sealers, n
  <1>5. FrameOK(f)
    BY <1>1 DEF FrameOK, SealedFrames
  <1> HIDE DEF t, f
  <1>6. SealerOK(t)
    BY <1>1, <1>2, <1>4, <1>8 DEF SealerOK
  <1>7. f.epoch = s.epoch /\ f.nonce = s.counter /\ f.plain = m
    BY DEF f
  <1> DEFINE r == Seal(s, m, size)
  <1>10. r.err = "ok" /\ r.sealer = t /\ r.frame = f
    BY <1>3
  <1> HIDE DEF r
  <1>11. Sealed(s, m, r)
    BY <1>5, <1>6, <1>7, <1>8, <1>10, Zenon DEF Sealed
  <1> QED BY <1>11, Zenon DEF r

LEMMA RekeyCounts ==
    ASSUME NEW s, SealerOK(s), s.epoch # LastEpoch
    PROVE  /\ Rekey(s).err = "ok" /\ SealerOK(Rekey(s).sealer)
           /\ Rekey(s).sealer.epoch = s.epoch + 1 /\ Rekey(s).sealer.counter = 0
  <1> DEFINE t == [key |-> DeriveSubkey(s.key, s.epoch + 1), epoch |-> s.epoch + 1,
                   counter |-> 0, bytes |-> 0]
  <1>1. s.epoch \in Nat /\ s.epoch <= LastEpoch /\ s.key = Subkeys(s.epoch)
    BY DEF SealerOK, Sealers
  <1>2. Rekey(s) = [err |-> "ok", sealer |-> t]
    BY DEF Rekey
  <1>3. t.key = Subkeys(s.epoch + 1) /\ t.key \in Seq(Nat)
    <2>1. s.epoch + 1 \in Nat /\ t.key = DeriveSubkey(Subkeys(s.epoch), s.epoch + 1)
      BY <1>1
    <2>2. DeriveSubkey(Subkeys(s.epoch), s.epoch + 1) = Subkeys(s.epoch + 1)
      BY <1>1, NextSubkey
    <2>3. Subkeys(s.epoch + 1) \in Seq(Nat)
      BY <2>1, NextSubkey
    <2> QED BY <2>1, <2>2, <2>3
  <1>4. SealerOK(t)
    BY <1>1, <1>3, KeyLimitsAssumption DEF SealerOK, Sealers
  <1> QED BY <1>2, <1>4
-------------------------------------------------------------------------------
(* The chain of frames under way *)

(***************************************************************************)
(* An opener behind the first frame has the rest before it.                *)
(***************************************************************************)
LEMMA ChainPops ==
    ASSUME NEW w \in Seq(SealedFrames), w # <<>>, NEW o, NEW q, Chain(o, w),
           q.epoch = w[1].epoch, q.counter = w[1].nonce + 1
    PROVE  /\ Chain(q, Tail(w))
           /\ \A s : EndsAt(o, w, s) => EndsAt(q, Tail(w), s)
  <1> DEFINE v == Tail(w)
  <1>1. Len(w) \in Nat /\ Len(w) >= 1 /\ Len(v) = Len(w) - 1
        /\ \A i \in 1..Len(v) : v[i] = w[i + 1]
    OBVIOUS
  <1>4. v \in Seq(SealedFrames)
    OBVIOUS
  <1> HIDE DEF v
  <1>2. ASSUME NEW i \in 1..Len(v)
        PROVE  Follows(IF i = 1 THEN q.epoch ELSE v[i - 1].epoch,
                       IF i = 1 THEN q.counter ELSE v[i - 1].nonce + 1, v[i])
    <2>1. i + 1 \in 1..Len(w) /\ i + 1 # 1 /\ (i + 1) - 1 = i
      BY <1>1
    <2>2. Follows(w[i].epoch, w[i].nonce + 1, w[i + 1])
      BY <2>1 DEF Chain
    <2>3. CASE i = 1
      BY <1>1, <2>2, <2>3
    <2>4. CASE i # 1
      <3>1. i - 1 \in 1..Len(v) /\ (i - 1) + 1 = i
        BY <2>4
      <3>2. v[i - 1] = w[i]
        BY <1>1, <3>1
      <3> QED BY <1>1, <2>2, <2>4, <3>2
    <2> QED BY <2>3, <2>4
  <1>3. ASSUME NEW s, EndsAt(o, w, s) PROVE EndsAt(q, v, s)
    <2>1. CASE Len(w) = 1
      <3>1. v = <<>>
        BY <1>1, <1>4, <2>1
      <3> QED BY <1>3, <2>1, <3>1 DEF EndsAt
    <2>2. CASE Len(w) # 1
      <3>2. Len(v) \in 1..Len(v) /\ Len(v) + 1 = Len(w)
        BY <1>1, <2>2
      <3>3. v # <<>>
        BY <1>4, <3>2
      <3>1. v[Len(v)] = w[Len(w)]
        BY <1>1, <3>2
      <3> QED BY <1>3, <3>1, <3>3 DEF EndsAt
    <2> QED BY <2>1, <2>2
  <1> QED BY <1>2, <1>3, Zenon DEF Chain, v

(***************************************************************************)
(* The sealer's next frame continues the chain.                            *)
(***************************************************************************)
LEMMA ChainPushes ==
    ASSUME NEW w \in Seq(SealedFrames), NEW o, NEW s, Chain(o, w), EndsAt(o, w, s),
           NEW f \in SealedFrames, f.epoch = s.epoch, f.nonce = s.counter,
           NEW t, t.epoch = s.epoch, t.counter = s.counter + 1
    PROVE  Chain(o, Append(w, f)) /\ EndsAt(o, Append(w, f), t)
  <1> DEFINE v == Append(w, f)
  <1>1. Len(w) \in Nat /\ Len(v) = Len(w) + 1 /\ v[Len(v)] = f /\ v # <<>>
        /\ \A i \in 1..Len(w) : v[i] = w[i]
    OBVIOUS
  <1>0. w = <<>> <=> Len(w) = 0
    OBVIOUS
  <1> HIDE DEF v
  <1>2. ASSUME NEW i \in 1..Len(v)
        PROVE  Follows(IF i = 1 THEN o.epoch ELSE v[i - 1].epoch,
                       IF i = 1 THEN o.counter ELSE v[i - 1].nonce + 1, v[i])
    <2>1. CASE i <= Len(w)
      <3>1. i \in 1..Len(w) /\ v[i] = w[i] /\ (i # 1 => v[i - 1] = w[i - 1])
        BY <1>1, <2>1
      <3>2. Follows(IF i = 1 THEN o.epoch ELSE w[i - 1].epoch,
                    IF i = 1 THEN o.counter ELSE w[i - 1].nonce + 1, w[i])
        BY <3>1 DEF Chain
      <3> QED BY <3>1, <3>2
    <2>2. CASE i = Len(w) + 1
      <3>1. CASE Len(w) = 0
        BY <1>0, <1>1, <2>2, <3>1 DEF EndsAt, Follows
      <3>2. CASE Len(w) # 0
        <4>1. v[i - 1] = w[Len(w)] /\ i # 1 /\ w # <<>> /\ v[i] = f
          BY <1>0, <1>1, <2>2, <3>2
        <4> QED BY <4>1 DEF EndsAt, Follows
      <3> QED BY <3>1, <3>2
    <2> QED BY <1>1, <2>1, <2>2
  <1>3. EndsAt(o, v, t)
    BY <1>1 DEF EndsAt
  <1> QED BY <1>2, <1>3 DEF Chain, v
-------------------------------------------------------------------------------
(* Receive *)

(* What taking the frame f makes of a channel.                             *)
Taken(c, f, d) ==
    /\ ChannelOK(d)
    /\ d.why = c.why /\ d.sealer = c.sealer /\ d.epoch = c.epoch
    /\ d.opener.epoch = f.epoch /\ d.opener.counter = f.nonce + 1
    /\ d.out.log = c.out.log /\ d.out.next = c.out.next /\ c.out.base <= d.out.base
    /\ HasAck(f.plain) => f.plain.ack <= d.out.base
    /\ d.in.recv = IF IsData(f.plain) /\ f.plain.off = c.in.recv THEN c.in.recv + 1
                   ELSE c.in.recv
    /\ d.acked = c.acked /\ d.heard = 0 /\ d.sent = c.sent

(***************************************************************************)
(* A field by field view of what is known of a channel.                    *)
(***************************************************************************)
LEMMA ChannelFields ==
    ASSUME NEW c, ChannelOK(c)
    PROVE  /\ c \in Channels /\ c.out \in OutStreams /\ c.in \in InStreams
           /\ c.out.log \in Seq(Nat) /\ c.out.base \in Nat /\ c.out.next \in Nat
           /\ c.in.recv \in Nat /\ c.in.pending \in Nat /\ c.acked \in Nat
           /\ c.heard \in Nat /\ c.sent \in Nat /\ c.epoch \in Nat
           /\ c.ack \in Nat \cup {Never}
           /\ c.sealer \in Sealers /\ c.opener \in Openers
           /\ AckOffset(c.in) \in Nat /\ AckOffset(c.in) <= c.in.recv
  BY DEF ChannelOK, Channels, OutStreams, InStreams, AckOffset

(* Every message has a size.                                               *)
LEMMA SizeNat ==
    ASSUME NEW m \in Messages
    PROVE  SizeOf(m) \in Nat
  BY DEF Messages, SizeOf

(* An end whose Ack timer does not run has acknowledged all it has taken.  *)
LEMMA NothingOwed ==
    ASSUME NEW c, ChannelOK(c), c.ack <= AckDelay, ~(c.ack \in 0..AckDelay),
           AckOwed(c) => c.ack # Never
    PROVE  c.acked = AckOffset(c.in)
  <1>1. /\ c.acked \in Nat /\ c.ack \in Nat \cup {Never} /\ AckOffset(c.in) \in Nat
        /\ AckDelay \in Nat
    BY ChannelFields, TimesAssumption, Zenon
  <1>2. ~AckOwed(c) /\ c.acked <= AckOffset(c.in)
    BY <1>1 DEF ChannelOK
  <1> QED BY <1>1, <1>2 DEF AckOwed

(***************************************************************************)
(* SendBuffer::Acknowledge of what has been sent moves only the base.      *)
(***************************************************************************)
LEMMA AcknowledgeSent ==
    ASSUME NEW b \in OutStreams, b.base <= b.next, b.next <= Len(b.log),
           NEW ack \in Nat, ack <= b.next
    PROVE  /\ Acknowledge(b, ack).err = "ok" /\ Acknowledge(b, ack).buf \in OutStreams
           /\ Acknowledge(b, ack).buf.log = b.log /\ Acknowledge(b, ack).buf.next = b.next
           /\ b.base <= Acknowledge(b, ack).buf.base
           /\ ack <= Acknowledge(b, ack).buf.base
           /\ Acknowledge(b, ack).buf.base <= b.next
  <1>1. b.base \in Nat /\ b.next \in Nat /\ b.log \in Seq(Nat) /\ Len(b.log) \in Nat
    BY DEF OutStreams
  <1>2. CASE ack <= b.base
    BY <1>1, <1>2 DEF Acknowledge, Outcome
  <1>3. CASE ~(ack <= b.base)
    <2> DEFINE a == [b EXCEPT !.base = ack, !.next = IF @ < ack THEN ack ELSE @]
    <2>1. Acknowledge(b, ack) = [err |-> "ok", buf |-> a]
      BY <1>1, <1>3 DEF Acknowledge, Outcome, End
    <2>2. a \in OutStreams /\ a.base = ack /\ a.log = b.log
          /\ a.next = IF b.next < ack THEN ack ELSE b.next
      BY <1>1, Zenon DEF OutStreams
    <2> HIDE DEF a
    <2>3. a.next = b.next
      BY <1>1, <2>2
    <2>4. Acknowledge(b, ack).err = "ok" /\ Acknowledge(b, ack).buf = a
      BY <2>1
    <2> QED BY <1>1, <1>3, <2>2, <2>3, <2>4
  <1> QED BY <1>2, <1>3

(***************************************************************************)
(* ReceiveCursor::Receive of one byte at or below the cursor.              *)
(***************************************************************************)
LEMMA ReceiveByte ==
    ASSUME NEW r \in InStreams, r.pending <= r.recv, NEW off \in Nat, off <= r.recv,
           off + 1 <= OffsetMax, NEW bytes \in Seq(Nat), Len(bytes) = 1
    PROVE  /\ Receive(r, off, bytes).err = "ok" /\ Receive(r, off, bytes).cur \in InStreams
           /\ Receive(r, off, bytes).cur.recv = IF off = r.recv THEN r.recv + 1 ELSE r.recv
           /\ Receive(r, off, bytes).cur.pending <= Receive(r, off, bytes).cur.recv
           /\ AckOffset(r) <= AckOffset(Receive(r, off, bytes).cur)
  <1>1. r.recv \in Nat /\ r.pending \in Nat /\ OffsetMax \in Nat
    BY OffsetMaxAssumption DEF InStreams
  <1>2. CASE off < r.recv
    <2>1. off + Len(bytes) <= r.recv /\ ~(off + Len(bytes) > OffsetMax \/ off > r.recv)
      BY <1>1, <1>2
    <2>2. Receive(r, off, bytes) = [err |-> "ok", cur |-> r, new |-> <<>>]
      BY <2>1 DEF Receive
    <2> QED BY <1>1, <1>2, <2>2 DEF AckOffset
  <1>3. CASE off = r.recv
    <2> DEFINE tail == SubSeq(bytes, r.recv - off + 1, Len(bytes))
               m == off + Len(bytes)
               n == IF r.onDelivery THEN r.pending + Len(tail) ELSE r.pending
               d == [r EXCEPT !.recv = m,
                              !.pending = IF r.onDelivery THEN @ + Len(tail) ELSE @]
    <2>1. /\ ~(off + Len(bytes) > OffsetMax \/ off > r.recv)
          /\ ~(off + Len(bytes) <= r.recv)
      BY <1>1, <1>3
    <2>2. Receive(r, off, bytes) = [err |-> "ok", new |-> tail, cur |-> d]
      BY <2>1, Zenon DEF Receive
    <2>3. Len(tail) = 1
      <3>1. r.recv - off + 1 = 1
        BY <1>1, <1>3
      <3> QED BY <3>1
    <2> HIDE DEF tail
    <2>6. m = off + 1 /\ m \in Nat /\ n \in {r.pending, r.pending + 1} /\ n \in Nat
      BY <1>1, <2>3
    <2>7. d = [r EXCEPT !.recv = m, !.pending = n]
      OBVIOUS
    <2> HIDE DEF m, n, d
    <2>4. d \in InStreams /\ d.recv = m /\ d.pending = n
      BY <2>6, <2>7, Zenon DEF InStreams
    <2>5. Receive(r, off, bytes).err = "ok" /\ Receive(r, off, bytes).cur = d
      BY <2>2
    <2> QED BY <1>1, <1>3, <2>4, <2>5, <2>6 DEF AckOffset
  <1> QED BY <1>1, <1>2, <1>3

(***************************************************************************)
(* The fields of a message, and what each kind is understood as.           *)
(***************************************************************************)
LEMMA MessageFields ==
    ASSUME NEW m \in Messages
    PROVE  /\ m.type \in {"Ping", "Pong", "Ack", "Data"}
           /\ HasAck(m) => m.ack \in Nat
           /\ IsData(m) => m.off \in Nat /\ m.bytes \in Seq(Nat)
  BY DEF Messages, HasAck, IsData

LEMMA UnderstoodAs ==
    ASSUME NEW c, NEW m
    PROVE  /\ m.type = "Data" => Understood(c, m) = OnData(c, m)
           /\ m.type = "Ack" => Understood(c, m) = OnAck(c, m.ack)
           /\ m.type = "Ping" => Understood(c, m) = Becomes([c EXCEPT !.pong = TRUE])
           /\ m.type = "Pong" => Understood(c, m) = Becomes(c)
  BY DEF Understood

(***************************************************************************)
(* Channel::Receive takes every frame of a peer that follows the protocol. *)
(***************************************************************************)
LEMMA TakeOK ==
    ASSUME NEW c, ChannelOK(c), NEW f, FrameOK(f),
           Follows(c.opener.epoch, c.opener.counter, f),
           HasAck(f.plain) => f.plain.ack <= c.out.next,
           IsData(f.plain) => /\ Len(f.plain.bytes) = 1 /\ f.plain.off <= c.in.recv
                              /\ f.plain.off + 1 <= OffsetMax
    PROVE  /\ Take(c, f).err = "ok" /\ Taken(c, f, Take(c, f).chan)
           /\ Take(c, f).chan.reading = c.reading
  <1> DEFINE m == f.plain
             o == Open(c.opener, f).opener
             b == [c EXCEPT !.opener = o, !.heard = 0]
  <1>1. m \in Messages /\ f.epoch \in Nat /\ f.nonce \in Nat
    BY DEF FrameOK, SealedFrames
  <1>2. Open(c.opener, f).err = "ok" /\ OpenerOK(o) /\ o.epoch = f.epoch
        /\ o.counter = f.nonce + 1
    BY OpenFollows DEF ChannelOK
  <1>3. Take(c, f) = Understood(b, m)
    BY <1>2 DEF Take
  <1> HIDE DEF o
  <1>4. o \in Openers
    BY <1>2 DEF OpenerOK
  <1>5. b \in Channels
    BY <1>4, Zenon DEF Channels, ChannelOK
  <1>6. /\ b.why = c.why /\ b.sealer = c.sealer /\ b.epoch = c.epoch /\ b.opener = o
        /\ b.out = c.out /\ b.in = c.in /\ b.acked = c.acked /\ b.heard = 0
        /\ b.sent = c.sent /\ b.ack = c.ack
    BY DEF Channels, ChannelOK
  <1>7. b.reading = c.reading
    BY DEF Channels, ChannelOK
  <1> HIDE DEF b, m
  <1>f. /\ c.out \in OutStreams /\ c.in \in InStreams /\ c.out.base <= c.out.next
        /\ c.out.next <= Len(c.out.log) /\ c.in.pending <= c.in.recv
        /\ c.out.base \in Nat /\ c.out.next \in Nat /\ c.in.recv \in Nat
        /\ c.acked \in Nat /\ c.acked <= AckOffset(c.in) /\ AckOffset(c.in) \in Nat
    BY ChannelFields, Zenon DEF ChannelOK
  <1>8. ASSUME NEW d \in Channels,
               d.why = b.why, d.sealer = b.sealer, d.epoch = b.epoch, d.opener = o,
               d.acked = b.acked, d.heard = b.heard, d.sent = b.sent, d.ack = b.ack,
               d.out.log = c.out.log, d.out.next = c.out.next, c.out.base <= d.out.base,
               d.out.base <= d.out.next, HasAck(m) => m.ack <= d.out.base,
               d.in.recv = IF IsData(m) /\ m.off = c.in.recv THEN c.in.recv + 1
                           ELSE c.in.recv,
               d.in.pending <= d.in.recv, AckOffset(c.in) <= AckOffset(d.in)
        PROVE  Taken(c, f, d)
    <2>1. d.in \in InStreams /\ AckOffset(d.in) \in Int
      BY DEF Channels, InStreams, AckOffset
    <2>2. d.acked <= AckOffset(d.in) /\ (d.ack # Never => AckOwed(d))
      BY <1>6, <1>8, <1>f, <2>1 DEF ChannelOK, AckOwed
    <2>3. ChannelOK(d)
      BY <1>2, <1>6, <1>8, <1>f, <2>2 DEF ChannelOK
    <2> QED BY <1>2, <1>6, <1>8, <2>3, Zenon DEF Taken, m
  <1>9. CASE m.type = "Ping"
    <2> DEFINE d == [b EXCEPT !.pong = TRUE]
    <2>1. Take(c, f) = [err |-> "ok", chan |-> d]
      BY <1>3, <1>9, UnderstoodAs DEF Becomes
    <2>2. d \in Channels
      BY <1>5, Zenon DEF Channels
    <2>3. /\ d.why = b.why /\ d.sealer = b.sealer /\ d.epoch = b.epoch
          /\ d.opener = b.opener /\ d.acked = b.acked /\ d.heard = b.heard
          /\ d.sent = b.sent /\ d.ack = b.ack /\ d.out = b.out /\ d.in = b.in
      BY <1>5 DEF Channels
    <2>4. d.reading = b.reading
      BY <1>5 DEF Channels
    <2> HIDE DEF d
    <2>5. ~HasAck(m) /\ ~IsData(m)
      BY <1>9, Zenon DEF HasAck, IsData
    <2>6. Taken(c, f, d)
      BY <1>6, <1>8, <1>f, <2>2, <2>3, <2>5
    <2> QED BY <1>7, <2>1, <2>4, <2>6
  <1>10. CASE m.type = "Pong"
    <2>1. Take(c, f) = [err |-> "ok", chan |-> b]
      BY <1>3, <1>10, UnderstoodAs DEF Becomes
    <2>5. ~HasAck(m) /\ ~IsData(m)
      BY <1>10, Zenon DEF HasAck, IsData
    <2>6. Taken(c, f, b)
      BY <1>5, <1>6, <1>8, <1>f, <2>5
    <2> QED BY <1>7, <2>1, <2>6
  <1>11. ASSUME HasAck(m)
         PROVE  /\ m.ack \in Nat /\ OnAck(b, m.ack).err = "ok"
                /\ OnAck(b, m.ack) = Becomes([b EXCEPT !.out = Acknowledge(c.out, m.ack).buf])
                /\ Acknowledge(c.out, m.ack).buf \in OutStreams
                /\ Acknowledge(c.out, m.ack).buf.log = c.out.log
                /\ Acknowledge(c.out, m.ack).buf.next = c.out.next
                /\ c.out.base <= Acknowledge(c.out, m.ack).buf.base
                /\ m.ack <= Acknowledge(c.out, m.ack).buf.base
                /\ Acknowledge(c.out, m.ack).buf.base <= c.out.next
    <2>1. m.ack \in Nat /\ m.ack <= c.out.next
      BY <1>1, <1>11, MessageFields DEF m
    <2> QED BY <1>6, <1>f, <2>1, AcknowledgeSent DEF OnAck, Becomes
  <1>12. CASE m.type = "Ack"
    <2> DEFINE u == Acknowledge(c.out, m.ack).buf
               d == [b EXCEPT !.out = u]
    <2>1. HasAck(m) /\ ~IsData(m)
      BY <1>12 DEF HasAck, IsData
    <2>2. Take(c, f) = [err |-> "ok", chan |-> d]
      BY <1>3, <1>11, <1>12, <2>1, UnderstoodAs DEF Becomes
    <2>3. /\ u \in OutStreams /\ u.log = c.out.log /\ u.next = c.out.next
          /\ c.out.base <= u.base /\ m.ack <= u.base /\ u.base <= c.out.next
      BY <1>11, <2>1
    <2> HIDE DEF u
    <2>4. d \in Channels
      BY <1>5, <2>3 DEF Channels
    <2>5. /\ d.why = b.why /\ d.sealer = b.sealer /\ d.epoch = b.epoch
          /\ d.opener = b.opener /\ d.acked = b.acked /\ d.heard = b.heard
          /\ d.sent = b.sent /\ d.ack = b.ack /\ d.out = u /\ d.in = b.in
      BY <1>5 DEF Channels
    <2>6. d.reading = b.reading
      BY <1>5, Zenon DEF Channels
    <2> HIDE DEF d
    <2>7. Taken(c, f, d)
      BY <1>6, <1>8, <1>f, <2>1, <2>3, <2>4, <2>5
    <2> QED BY <1>7, <2>2, <2>6, <2>7
  <1>13. CASE m.type = "Data"
    <2> DEFINE u == Acknowledge(c.out, m.ack).buf
               v == Receive(c.in, m.off, m.bytes).cur
               a == [b EXCEPT !.out = u]
               d == [a EXCEPT !.in = v]
    <2>1. HasAck(m) /\ IsData(m)
      BY <1>13 DEF HasAck, IsData
    <2>2. m.off \in Nat /\ m.bytes \in Seq(Nat) /\ Len(m.bytes) = 1 /\ m.off <= c.in.recv
          /\ m.off + 1 <= OffsetMax
      BY <1>1, <2>1, MessageFields DEF m
    <2>3. /\ Receive(c.in, m.off, m.bytes).err = "ok" /\ v \in InStreams
          /\ v.recv = IF m.off = c.in.recv THEN c.in.recv + 1 ELSE c.in.recv
          /\ v.pending <= v.recv /\ AckOffset(c.in) <= AckOffset(v)
      BY <1>f, <2>2, ReceiveByte, Zenon
    <2>4. Take(c, f) = [err |-> "ok", chan |-> d]
      <3>1. OnAck(b, m.ack).err = "ok" /\ OnAck(b, m.ack).chan = a
        BY <1>11, <2>1 DEF Becomes
      <3>2. OnData(b, m) = [err |-> "ok", chan |-> d]
        BY <1>6, <2>3, <3>1 DEF OnData, Becomes
      <3> QED BY <1>3, <1>13, <3>2, UnderstoodAs, Zenon
    <2>5. /\ u \in OutStreams /\ u.log = c.out.log /\ u.next = c.out.next
          /\ c.out.base <= u.base /\ m.ack <= u.base /\ u.base <= c.out.next
      BY <1>11, <2>1
    <2> HIDE DEF u, v
    <2>6. d \in Channels
      BY <1>5, <2>3, <2>5, Zenon DEF Channels
    <2>7. /\ d.why = b.why /\ d.sealer = b.sealer /\ d.epoch = b.epoch
          /\ d.opener = b.opener /\ d.acked = b.acked /\ d.heard = b.heard
          /\ d.sent = b.sent /\ d.ack = b.ack /\ d.out = u /\ d.in = v
      BY <1>5 DEF Channels
    <2>8. d.reading = b.reading
      BY <1>5, Zenon DEF Channels
    <2> HIDE DEF d
    <2>9. Taken(c, f, d)
      BY <1>6, <1>8, <1>f, <2>1, <2>3, <2>5, <2>6, <2>7, Zenon
    <2> QED BY <1>7, <2>4, <2>8, <2>9
  <1> QED BY <1>1, <1>9, <1>10, <1>12, <1>13, MessageFields DEF m
-------------------------------------------------------------------------------
(* Poll *)

(* What a rekey, if one is due, makes of a channel: the same but for the   *)
(* keys, whose epoch held a frame.                                         *)
Rekeyed(c, d) ==
    /\ ChannelOK(d) /\ d.sealer.counter < FrameLimit
    /\ d.why = c.why /\ d.opener = c.opener /\ d.out = c.out /\ d.in = c.in
    /\ d.acked = c.acked /\ d.heard = c.heard /\ d.sent = c.sent /\ d.ack = c.ack
    /\ \/ d.sealer = c.sealer /\ d.epoch = c.epoch
       \/ /\ c.sealer.counter # 0 /\ d.sealer.epoch = c.sealer.epoch + 1
          /\ d.sealer.counter = 0 /\ d.epoch = 0

LEMMA RekeyOK ==
    ASSUME NEW c, ChannelOK(c), Fresh(c)
    PROVE  /\ RekeyIfNeeded(c).err \in {"ok", "EpochsExhausted"}
           /\ RekeyIfNeeded(c).err = "ok" => Rekeyed(c, RekeyIfNeeded(c).chan)
           /\ RekeyIfNeeded(c).chan.reading = c.reading
  <1>1. c \in Channels /\ SealerOK(c.sealer) /\ c.sealer.counter \in Nat
        /\ c.sealer.bytes \in Nat /\ c.epoch \in Nat /\ c.sent \in Nat
    BY DEF ChannelOK, Channels, SealerOK, Sealers
  <1>2. FrameLimit \in Nat \ {0} /\ ByteLimit \in Nat \ {0} /\ Keepalive \in Nat
        /\ RekeyInterval \in Nat /\ Keepalive < RekeyInterval
    BY KeyLimitsAssumption, TimesAssumption
  <1>3. CASE ~RekeyDue(c)
    <2>1. RekeyIfNeeded(c) = [err |-> "ok", chan |-> c]
      BY <1>3 DEF RekeyIfNeeded, Becomes
    <2>2. c.sealer.counter < FrameLimit
      BY <1>1, <1>2, <1>3 DEF RekeyDue, NeedsRekey
    <2> QED BY <2>1, <2>2 DEF Rekeyed
  <1>4. CASE RekeyDue(c) /\ c.sealer.epoch = LastEpoch
    <2>1. RekeyIfNeeded(c) = [err |-> "EpochsExhausted", chan |-> c]
      BY <1>4 DEF RekeyIfNeeded, Fails, Rekey
    <2> QED BY <2>1
  <1>5. CASE RekeyDue(c) /\ c.sealer.epoch # LastEpoch
    <2> DEFINE t == Rekey(c.sealer).sealer
               d == [c EXCEPT !.sealer = t, !.epoch = 0]
    <2>1. Rekey(c.sealer).err = "ok" /\ SealerOK(t) /\ t.epoch = c.sealer.epoch + 1
          /\ t.counter = 0
      BY <1>1, <1>5, RekeyCounts
    <2>2. RekeyIfNeeded(c) = [err |-> "ok", chan |-> d]
      BY <1>5, <2>1 DEF RekeyIfNeeded, Becomes
    <2>3. c.sealer.counter # 0
      BY <1>1, <1>2, <1>5 DEF Fresh, RekeyDue, NeedsRekey, SealerOK
    <2> HIDE DEF t
    <2>4. d \in Channels
      BY <1>1, <2>1, Zenon DEF Channels, SealerOK
    <2>5. /\ d.why = c.why /\ d.opener = c.opener /\ d.out = c.out /\ d.in = c.in
          /\ d.acked = c.acked /\ d.heard = c.heard /\ d.sent = c.sent /\ d.ack = c.ack
          /\ d.sealer = t /\ d.epoch = 0
      BY <1>1 DEF Channels
    <2>6. d.reading = c.reading
      BY <1>1 DEF Channels
    <2> HIDE DEF d
    <2>7. ChannelOK(d)
      BY <2>1, <2>4, <2>5 DEF ChannelOK, AckOwed
    <2>8. Rekeyed(c, d)
      BY <1>2, <2>1, <2>3, <2>5, <2>7 DEF Rekeyed
    <2> QED BY <2>2, <2>6, <2>8
  <1> QED BY <1>3, <1>4, <1>5

(* What PollOnce picks: a message that fits the channel, or nothing because *)
(* nothing is due.                                                         *)
Fits(c, m) ==
    /\ m \in Messages
    /\ HasAck(m) => m.ack = AckOffset(c.in)
    /\ IsData(m) => /\ m.off = c.out.next /\ Len(m.bytes) = 1
                    /\ c.out.next < Len(c.out.log)

NothingDue(c) ==
    /\ Unsent(c.out) = 0 /\ ~c.pong /\ c.sent < Keepalive
    /\ AckOwed(c) => c.ack < AckDelay

LEMMA ChosenFits ==
    ASSUME NEW c, ChannelOK(c)
    PROVE  \/ Chosen(c) = <<>> /\ NothingDue(c)
           \/ Chosen(c) # <<>> /\ Fits(c, Chosen(c)[1]) /\ Chosen(c)[1] \in Messages
  <1>1. /\ c.out.log \in Seq(Nat) /\ Len(c.out.log) \in Nat /\ c.out.next \in Nat
        /\ c.out.base \in Nat /\ c.out.base <= c.out.next
        /\ c.out.next <= Len(c.out.log) /\ c.sent \in Nat /\ c.ack \in Nat \cup {Never}
        /\ AckOffset(c.in) \in Nat
    BY ChannelFields DEF ChannelOK
  <1>2. Keepalive \in Nat /\ AckDelay \in Nat /\ Never \in Int
    BY TimesAssumption DEF Never
  <1>3. CASE c.pong
    <2>1. Chosen(c) = <<Pong>>
      BY <1>3 DEF Chosen
    <2>2. Fits(c, Pong)
      BY DEF Fits, Pong, Messages, HasAck, IsData
    <2> QED BY <2>1, <2>2 DEF Fits
  <1>4. CASE ~c.pong /\ Unsent(c.out) > 0
    <2> DEFINE b == CopyOut(c.out, c.out.next, 1)
               m == Data(AckOffset(c.in), c.out.next, b)
    <2>1. Chosen(c) = <<m>>
      BY <1>4 DEF Chosen
    <2>2. c.out.next < Len(c.out.log)
      BY <1>1, <1>4 DEF Unsent, End
    <2>3. b \in Seq(Nat) /\ Len(b) = 1
      <3> DEFINE n == c.out.next + 1
      <3>1. n \in Int /\ n \in 1..Len(c.out.log)
        BY <1>1, <2>2
      <3>2. /\ AtMost(c.out.next + 1, Len(c.out.log)) = n
            /\ ~(c.out.next < c.out.base \/ c.out.next >= Len(c.out.log))
        BY <1>1, <2>2, NextIn, Zenon
      <3>3. b = SubSeq(c.out.log, n, n)
        BY <3>2, Zenon DEF CopyOut, End
      <3> HIDE DEF b, n
      <3> QED BY <1>1, <3>1, <3>3, OneByte, Zenon
    <2> HIDE DEF b
    <2>4. m \in Messages
      BY <1>1, <2>3 DEF Messages, Data
    <2>5. m.ack = AckOffset(c.in) /\ m.off = c.out.next /\ m.bytes = b
      BY DEF Data
    <2> HIDE DEF m
    <2> QED BY <2>1, <2>2, <2>3, <2>4, <2>5 DEF Fits
  <1>5. CASE ~c.pong /\ ~(Unsent(c.out) > 0) /\ AckDue(c)
    <2>1. Chosen(c) = <<Ack(AckOffset(c.in))>>
      BY <1>5 DEF Chosen
    <2>2. Fits(c, Ack(AckOffset(c.in)))
      BY <1>1 DEF Fits, Ack, Messages, HasAck, IsData
    <2> QED BY <2>1, <2>2 DEF Fits
  <1>6. CASE ~c.pong /\ ~(Unsent(c.out) > 0) /\ ~AckDue(c) /\ c.sent >= Keepalive
    <2>1. Chosen(c) = <<Ping>>
      BY <1>6 DEF Chosen
    <2>2. Fits(c, Ping)
      BY DEF Fits, Ping, Messages, HasAck, IsData
    <2> QED BY <2>1, <2>2 DEF Fits
  <1>7. CASE ~c.pong /\ ~(Unsent(c.out) > 0) /\ ~AckDue(c) /\ ~(c.sent >= Keepalive)
    <2>1. Chosen(c) = <<>>
      BY <1>7 DEF Chosen
    <2>2. Unsent(c.out) = 0
      BY <1>1, <1>7 DEF Unsent, End
    <2>3. AckOwed(c) => c.ack < AckDelay
      BY <1>1, <1>2, <1>7 DEF AckDue
    <2> QED BY <1>1, <1>2, <1>7, <2>1, <2>2, <2>3 DEF NothingDue
  <1> QED BY <1>3, <1>4, <1>5, <1>6, <1>7, Zenon

(* What an idle poll makes of a channel, and what sealing a message does.  *)
Idled(c, d) ==
    /\ ChannelOK(d)
    /\ d.why = c.why /\ d.sealer = c.sealer /\ d.opener = c.opener /\ d.out = c.out
    /\ d.in = c.in /\ d.acked = c.acked /\ d.heard = c.heard /\ d.sent = c.sent
    /\ d.epoch = c.epoch
    /\ d.ack = IF AckOwed(c) /\ c.ack = Never THEN 0 ELSE c.ack

LEMMA IdleOK ==
    ASSUME NEW c, ChannelOK(c)
    PROVE  /\ Idled(c, Idle(c)) /\ Idle(c).reading = c.reading
           /\ Idle(c).pong = c.pong /\ ~Idle(c).awake
  <1> DEFINE n == IF AckOwed(c) /\ c.ack = Never THEN 0 ELSE c.ack
             d == [c EXCEPT !.ack = n, !.awake = FALSE]
  <1>1. Idle(c) = d
    BY DEF Idle
  <1>2. n \in Nat \cup {Never} /\ (n # Never => AckOwed(c))
    BY ChannelFields DEF ChannelOK
  <1>3. n = IF AckOwed(c) /\ c.ack = Never THEN 0 ELSE c.ack
    OBVIOUS
  <1> HIDE DEF n
  <1>4. d \in Channels
    BY <1>2, Zenon DEF Channels, ChannelOK
  <1>5. /\ d.why = c.why /\ d.sealer = c.sealer /\ d.opener = c.opener /\ d.out = c.out
        /\ d.in = c.in /\ d.acked = c.acked /\ d.heard = c.heard /\ d.sent = c.sent
        /\ d.epoch = c.epoch /\ d.ack = n
    BY DEF Channels, ChannelOK
  <1>6. d.reading = c.reading
    BY DEF Channels, ChannelOK
  <1>7. d.pong = c.pong
    BY DEF Channels, ChannelOK
  <1>8. ~d.awake
    BY DEF Channels, ChannelOK
  <1> HIDE DEF d
  <1>9. ChannelOK(d)
    BY <1>2, <1>4, <1>5 DEF ChannelOK, AckOwed
  <1>10. Idled(c, d)
    BY <1>3, <1>5, <1>9 DEF Idled
  <1> QED BY <1>1, <1>6, <1>7, <1>8, <1>10

Spoke(c, m, t, d) ==
    /\ ChannelOK(d)
    /\ d.why = c.why /\ d.sealer = t /\ d.opener = c.opener /\ d.in = c.in
    /\ d.out.log = c.out.log /\ d.out.base = c.out.base
    /\ d.out.next = IF IsData(m) THEN c.out.next + 1 ELSE c.out.next
    /\ d.acked = IF HasAck(m) THEN m.ack ELSE c.acked
    /\ d.heard = c.heard /\ d.sent = 0 /\ d.epoch = c.epoch

Said(c, m, t) == [Sent(c, m) EXCEPT !.sealer = t, !.awake = TRUE]

LEMMA SentOK ==
    ASSUME NEW c, ChannelOK(c), NEW m, Fits(c, m), NEW t, SealerOK(t)
    PROVE  /\ Spoke(c, m, t, Said(c, m, t))
           /\ Said(c, m, t).reading = c.reading /\ Said(c, m, t).awake
  <1> DEFINE u == IF m.type = "Data" THEN AdvanceSendNext(c.out, Len(m.bytes)) ELSE c.out
             a == IF m.type \in {"Data", "Ack"} THEN m.ack ELSE c.acked
             k == IF m.type \in {"Data", "Ack"} THEN Never ELSE c.ack
             p == c.pong /\ m.type # "Pong"
             b == [c EXCEPT !.sent = 0, !.pong = p, !.out = u, !.acked = a, !.ack = k]
             d == [b EXCEPT !.sealer = t, !.awake = TRUE]
  <1>1. Said(c, m, t) = d
    BY Zenon DEF Sent, Said
  <1>2. /\ c.out \in OutStreams /\ c.out.base <= c.out.next /\ c.out.next \in Nat
        /\ c.out.base \in Nat /\ c.out.next <= Len(c.out.log) /\ Len(c.out.log) \in Nat
        /\ c.acked \in Nat /\ c.ack \in Nat \cup {Never} /\ c.in \in InStreams
        /\ AckOffset(c.in) \in Nat /\ c.acked <= AckOffset(c.in)
        /\ c.in.pending <= c.in.recv
    BY ChannelFields DEF ChannelOK
  <1>3. /\ u \in OutStreams /\ u.log = c.out.log /\ u.base = c.out.base
        /\ u.next = IF IsData(m) THEN c.out.next + 1 ELSE c.out.next
        /\ u.base <= u.next /\ u.next <= Len(u.log)
    <2>1. CASE m.type = "Data"
      <3> DEFINE n == AtMost(c.out.next + Len(m.bytes), Len(c.out.log))
                 v == [c.out EXCEPT !.next = n]
      <3>5. IsData(m) /\ Len(m.bytes) = 1 /\ c.out.next < Len(c.out.log)
        BY <2>1, Zenon DEF Fits, IsData
      <3>1. n = c.out.next + 1 /\ n \in Nat /\ n <= Len(c.out.log)
        BY <1>2, <3>5 DEF AtMost
      <3>2. u = v
        BY <2>1 DEF AdvanceSendNext, End
      <3> HIDE DEF n, u
      <3>3. v \in OutStreams
        BY <1>2, <3>1, Zenon DEF OutStreams
      <3>4. v.log = c.out.log /\ v.base = c.out.base /\ v.next = n
        BY <1>2 DEF OutStreams
      <3> HIDE DEF v
      <3> QED BY <1>2, <3>1, <3>2, <3>3, <3>4, <3>5
    <2>2. CASE m.type # "Data"
      BY <1>2, <2>2 DEF IsData
    <2> QED BY <2>1, <2>2, Zenon
  <1>4. /\ a \in Nat /\ a <= AckOffset(c.in) /\ a = IF HasAck(m) THEN m.ack ELSE c.acked
        /\ k \in Nat \cup {Never} /\ (k # Never => k = c.ack /\ a = c.acked)
    BY <1>2 DEF Fits, HasAck
  <1>5. p \in BOOLEAN
    OBVIOUS
  <1> HIDE DEF u, a, k, p
  <1>6. b \in Channels
    BY <1>3, <1>4, <1>5, Zenon DEF Channels, ChannelOK
  <1>7. /\ b.why = c.why /\ b.opener = c.opener /\ b.in = c.in /\ b.out = u
        /\ b.acked = a /\ b.heard = c.heard /\ b.sent = 0 /\ b.epoch = c.epoch /\ b.ack = k
    BY DEF Channels, ChannelOK
  <1>8. b.reading = c.reading
    BY DEF Channels, ChannelOK
  <1> HIDE DEF b
  <1>9. d \in Channels
    BY <1>6, Zenon DEF Channels, SealerOK
  <1>10. /\ d.why = b.why /\ d.opener = b.opener /\ d.in = b.in /\ d.out = b.out
         /\ d.acked = b.acked /\ d.heard = b.heard /\ d.sent = b.sent /\ d.epoch = b.epoch
         /\ d.ack = b.ack /\ d.sealer = t
    BY <1>6 DEF Channels
  <1>11. d.reading = b.reading
    BY <1>6 DEF Channels
  <1>12. d.awake
    BY <1>6 DEF Channels
  <1> HIDE DEF d
  <1>13. d.acked <= AckOffset(d.in) /\ (d.ack # Never => AckOwed(d))
    BY <1>4, <1>7, <1>10, Zenon DEF ChannelOK, AckOwed
  <1>14. ChannelOK(d)
    BY <1>2, <1>3, <1>7, <1>9, <1>10, <1>13, Zenon DEF ChannelOK
  <1>15. Spoke(c, m, t, d)
    BY <1>3, <1>4, <1>7, <1>10, <1>14, Zenon DEF Spoke
  <1> QED BY <1>1, <1>8, <1>11, <1>12, <1>15
-------------------------------------------------------------------------------
(* The streams *)

(***************************************************************************)
(* A direction as seen through other channels that agree on the keys and   *)
(* the offsets, or whose sender is gone.                                   *)
(***************************************************************************)
LEMMA InboundSame ==
    ASSUME NEW w \in Seq(SealedFrames), NEW c, NEW d, Inbound(w, c, d),
           NEW c2, c2.opener = c.opener, c2.in.recv = c.in.recv,
           c.out.next \in Nat, c2.out.next \in Nat, c.out.next <= c2.out.next,
           NEW d2, d2.why = "up" => /\ d.why = "up" /\ d2.sealer = d.sealer
                                    /\ d2.out.next = d.out.next
    PROVE  Inbound(w, c2, d2)
  <1>1. ASSUME NEW i \in 1..Len(w)
        PROVE  /\ FrameOK(w[i])
               /\ HasAck(w[i].plain) => w[i].plain.ack <= c2.out.next
               /\ IsData(w[i].plain) =>
                    /\ Len(w[i].plain.bytes) = 1 /\ w[i].plain.off + 1 <= OffsetMax
                    /\ Covered(c2.in.recv, w, i - 1, w[i].plain.off)
                    /\ d2.why = "up" => w[i].plain.off + 1 <= d2.out.next
    <2>1. FrameOK(w[i]) /\ (HasAck(w[i].plain) => w[i].plain.ack <= c.out.next)
      BY Zenon DEF Inbound
    <2>2. HasAck(w[i].plain) => w[i].plain.ack \in Nat
      BY <2>1, MessageFields, Zenon DEF FrameOK, SealedFrames
    <2> QED BY <2>1, <2>2 DEF Inbound
  <1> QED BY <1>1, Zenon DEF Inbound

(* The keys of a sender stay, or go on to the next epoch after a frame.    *)
KeysMove(s, t) ==
    \/ t = s
    \/ s.counter # 0 /\ t.epoch = s.epoch + 1 /\ t.counter = 0

LEMMA InboundRekeys ==
    ASSUME NEW w \in Seq(SealedFrames), NEW c, NEW d, Inbound(w, c, d), d.why = "up",
           NEW e, e.why = "up", KeysMove(d.sealer, e.sealer), e.out.next = d.out.next
    PROVE  Inbound(w, c, e)
  <1>1. EndsAt(c.opener, w, d.sealer)
    BY DEF Inbound
  <1>2. EndsAt(c.opener, w, e.sealer)
    BY <1>1 DEF EndsAt, KeysMove
  <1> QED BY <1>2, Zenon DEF Inbound

(***************************************************************************)
(* Frames ahead of the missing bytes stay ahead of them.                   *)
(***************************************************************************)
LEMMA CoveredPops ==
    ASSUME NEW w \in Seq(SealedFrames), w # <<>>, NEW recv \in Nat, NEW to \in Nat,
           IsData(w[1].plain) => w[1].plain.off \in Nat /\ w[1].plain.off <= recv,
           to = IF IsData(w[1].plain) /\ w[1].plain.off = recv THEN recv + 1 ELSE recv,
           NEW k \in 1..Len(w), NEW n \in Nat, Covered(recv, w, k, n)
    PROVE  Covered(to, Tail(w), k - 1, n)
  <1> DEFINE v == Tail(w)
  <1>1. Len(w) \in Nat /\ Len(v) = Len(w) - 1 /\ \A i \in 1..Len(v) : v[i] = w[i + 1]
    OBVIOUS
  <1> HIDE DEF v
  <1>2. ASSUME NEW x \in to..(n - 1)
        PROVE  \E j \in 1..(k - 1) : IsData(v[j].plain) /\ v[j].plain.off = x
    <2>1. x \in recv..(n - 1)
      OBVIOUS
    <2>2. PICK j \in 1..k : IsData(w[j].plain) /\ w[j].plain.off = x
      BY <2>1 DEF Covered
    <2>3. j # 1
      BY <2>2
    <2>4. j - 1 \in 1..(k - 1) /\ j - 1 \in 1..Len(v) /\ (j - 1) + 1 = j
      BY <1>1, <2>3
    <2>5. v[j - 1] = w[j]
      BY <1>1, <2>4, Zenon
    <2> QED BY <2>2, <2>4, <2>5
  <1> QED BY <1>2, Zenon DEF Covered, v

(***************************************************************************)
(* The first frame can always be taken, and the rest comes next.           *)
(***************************************************************************)
LEMMA InboundFirst ==
    ASSUME NEW w \in Seq(SealedFrames), w # <<>>, NEW c, ChannelOK(c), NEW d,
           Inbound(w, c, d)
    PROVE  /\ FrameOK(w[1]) /\ Follows(c.opener.epoch, c.opener.counter, w[1])
           /\ HasAck(w[1].plain) => w[1].plain.ack <= c.out.next
           /\ IsData(w[1].plain) => /\ Len(w[1].plain.bytes) = 1
                                    /\ w[1].plain.off <= c.in.recv
                                    /\ w[1].plain.off + 1 <= OffsetMax
                                    /\ w[1].plain.off \in Nat
                                    /\ d.why = "up" => w[1].plain.off + 1 <= d.out.next
  <1>1. 1 \in 1..Len(w)
    OBVIOUS
  <1>2. FrameOK(w[1]) /\ Follows(c.opener.epoch, c.opener.counter, w[1])
    BY <1>1, Zenon DEF Inbound, Chain
  <1>3. HasAck(w[1].plain) => w[1].plain.ack <= c.out.next
    BY <1>1, Zenon DEF Inbound
  <1>4. ASSUME IsData(w[1].plain)
        PROVE  /\ Len(w[1].plain.bytes) = 1 /\ w[1].plain.off <= c.in.recv
               /\ w[1].plain.off + 1 <= OffsetMax /\ w[1].plain.off \in Nat
               /\ d.why = "up" => w[1].plain.off + 1 <= d.out.next
    <2>1. /\ Len(w[1].plain.bytes) = 1 /\ w[1].plain.off + 1 <= OffsetMax
          /\ Covered(c.in.recv, w, 0, w[1].plain.off)
          /\ d.why = "up" => w[1].plain.off + 1 <= d.out.next
      BY <1>1, <1>4 DEF Inbound
    <2>2. w[1].plain.off \in Nat /\ c.in.recv \in Nat
      BY <1>2, <1>4, MessageFields, ChannelFields DEF FrameOK, SealedFrames
    <2>3. \A v \in c.in.recv..(w[1].plain.off - 1) : FALSE
      BY <2>1 DEF Covered
    <2>4. w[1].plain.off <= c.in.recv
      <3> SUFFICES ASSUME ~(w[1].plain.off <= c.in.recv) PROVE FALSE
        OBVIOUS
      <3>1. c.in.recv \in c.in.recv..(w[1].plain.off - 1)
        BY <2>2
      <3> QED BY <2>3, <3>1
    <2> QED BY <2>1, <2>2, <2>4, Zenon
  <1> QED BY <1>2, <1>3, <1>4

LEMMA InboundPops ==
    ASSUME NEW w \in Seq(SealedFrames), w # <<>>, NEW c, ChannelOK(c),
           NEW d, ChannelOK(d), Inbound(w, c, d), NEW e, Taken(c, w[1], e)
    PROVE  Inbound(Tail(w), e, d)
  <1> DEFINE v == Tail(w)
  <1>1. Len(w) \in Nat /\ Len(w) >= 1 /\ Len(v) = Len(w) - 1
        /\ \A i \in 1..Len(v) : v[i] = w[i + 1]
    OBVIOUS
  <1>2. /\ c.in.recv \in Nat /\ d.out.next \in Nat
        /\ IsData(w[1].plain) => w[1].plain.off \in Nat /\ w[1].plain.off <= c.in.recv
        /\ e.in.recv = IF IsData(w[1].plain) /\ w[1].plain.off = c.in.recv
                       THEN c.in.recv + 1 ELSE c.in.recv
        /\ e.opener.epoch = w[1].epoch /\ e.opener.counter = w[1].nonce + 1
        /\ e.out.next = c.out.next
    BY InboundFirst, ChannelFields, Zenon DEF Taken
  <1>3. e.in.recv \in Nat
    BY <1>2
  <1>4. ASSUME NEW k \in 1..Len(w), NEW n \in Nat, Covered(c.in.recv, w, k, n)
        PROVE  Covered(e.in.recv, v, k - 1, n)
    BY <1>2, <1>3, <1>4, CoveredPops, Zenon
  <1>5. Chain(e.opener, v) /\ \A s : EndsAt(c.opener, w, s) => EndsAt(e.opener, v, s)
    BY <1>2, ChainPops DEF Inbound
  <1> HIDE DEF v
  <1>6. ASSUME NEW i \in 1..Len(v)
        PROVE  /\ FrameOK(v[i])
               /\ HasAck(v[i].plain) => v[i].plain.ack <= e.out.next
               /\ IsData(v[i].plain) =>
                    /\ Len(v[i].plain.bytes) = 1 /\ v[i].plain.off + 1 <= OffsetMax
                    /\ Covered(e.in.recv, v, i - 1, v[i].plain.off)
                    /\ d.why = "up" => v[i].plain.off + 1 <= d.out.next
    <2>1. i + 1 \in 1..Len(w) /\ i \in 1..Len(w) /\ (i + 1) - 1 = i /\ v[i] = w[i + 1]
      BY <1>1
    <2>2. /\ FrameOK(v[i])
          /\ HasAck(v[i].plain) => v[i].plain.ack <= e.out.next
          /\ IsData(v[i].plain) =>
               /\ Len(v[i].plain.bytes) = 1 /\ v[i].plain.off + 1 <= OffsetMax
               /\ Covered(c.in.recv, w, i, v[i].plain.off)
               /\ d.why = "up" => v[i].plain.off + 1 <= d.out.next
      BY <1>2, <2>1, Zenon DEF Inbound
    <2>3. IsData(v[i].plain) => v[i].plain.off \in Nat
      BY <2>2, MessageFields, Zenon DEF FrameOK, SealedFrames
    <2> QED BY <1>4, <2>1, <2>2, <2>3
  <1>7. ASSUME d.why = "up"
        PROVE  /\ EndsAt(e.opener, v, d.sealer)
               /\ Covered(e.in.recv, v, Len(v), d.out.next) /\ e.in.recv <= d.out.next
    <2>1. /\ EndsAt(c.opener, w, d.sealer) /\ c.in.recv <= d.out.next
          /\ Covered(c.in.recv, w, Len(w), d.out.next)
      BY <1>7, Zenon DEF Inbound
    <2>2. Covered(e.in.recv, v, Len(v), d.out.next)
      BY <1>1, <1>2, <1>4, <2>1
    <2>3. e.in.recv <= d.out.next
      BY <1>2, <1>7, <2>1, InboundFirst, Zenon
    <2> QED BY <1>5, <2>1, <2>2, <2>3, Zenon
  <1> QED BY <1>5, <1>6, <1>7 DEF Inbound, v

(***************************************************************************)
(* A frame sealed under the keys of the moment continues the direction.    *)
(***************************************************************************)
LEMMA InboundPushes ==
    ASSUME NEW w \in Seq(SealedFrames), NEW c, ChannelOK(c), NEW d, ChannelOK(d),
           d.why = "up", Inbound(w, c, d), d.in.recv <= c.out.next,
           Len(d.out.log) <= OffsetMax, NEW k, Rekeyed(d, k), NEW m, Fits(k, m),
           NEW f, FrameOK(f), f.epoch = k.sealer.epoch, f.nonce = k.sealer.counter,
           f.plain = m, NEW t, t.epoch = k.sealer.epoch,
           t.counter = k.sealer.counter + 1, NEW e, Spoke(k, m, t, e)
    PROVE  Inbound(Append(w, f), c, e)
  <1> DEFINE v == Append(w, f)
  <1>1. Len(w) \in Nat /\ Len(v) = Len(w) + 1 /\ v[Len(v)] = f
        /\ \A i \in 1..Len(w) : v[i] = w[i]
    BY DEF FrameOK
  <1>2. /\ c.in.recv \in Nat /\ d.out.next \in Nat /\ c.out.next \in Nat
        /\ d.in.recv \in Nat /\ Len(d.out.log) \in Nat /\ OffsetMax \in Nat
        /\ AckOffset(d.in) \in Nat /\ AckOffset(d.in) <= d.in.recv
    BY ChannelFields, OffsetMaxAssumption
  <1>3. k.in = d.in /\ k.out = d.out /\ e.sealer = t
        /\ e.out.next = IF IsData(m) THEN d.out.next + 1 ELSE d.out.next
    BY Zenon DEF Rekeyed, Spoke
  <1>4. /\ HasAck(m) => m.ack <= c.out.next
        /\ IsData(m) => /\ m.off = d.out.next /\ Len(m.bytes) = 1
                        /\ m.off + 1 <= OffsetMax
    BY <1>2, <1>3 DEF Fits
  <1>5. EndsAt(c.opener, w, k.sealer)
    <2>1. EndsAt(c.opener, w, d.sealer)
      BY Zenon DEF Inbound
    <2>2. \/ k.sealer = d.sealer
          \/ /\ d.sealer.counter # 0 /\ k.sealer.epoch = d.sealer.epoch + 1
             /\ k.sealer.counter = 0
      BY DEF Rekeyed
    <2> QED BY <2>1, <2>2, Zenon DEF EndsAt
  <1>6. Chain(c.opener, v) /\ EndsAt(c.opener, v, t)
    BY <1>5, ChainPushes, Zenon DEF Inbound, FrameOK
  <1> HIDE DEF v
  <1>7. ASSUME NEW j \in Nat, j <= Len(w), NEW n, Covered(c.in.recv, w, j, n)
        PROVE  Covered(c.in.recv, v, j, n)
    <2>1. \A i \in 1..j : v[i] = w[i]
      BY <1>1, <1>7
    <2> QED BY <1>7, <2>1, Zenon DEF Covered
  <1>8. Covered(c.in.recv, w, Len(w), d.out.next) /\ c.in.recv <= d.out.next
    BY Zenon DEF Inbound
  <1>9. ASSUME NEW i \in 1..Len(v)
        PROVE  /\ FrameOK(v[i])
               /\ HasAck(v[i].plain) => v[i].plain.ack <= c.out.next
               /\ IsData(v[i].plain) =>
                    /\ Len(v[i].plain.bytes) = 1 /\ v[i].plain.off + 1 <= OffsetMax
                    /\ Covered(c.in.recv, v, i - 1, v[i].plain.off)
                    /\ e.why = "up" => v[i].plain.off + 1 <= e.out.next
    <2>1. CASE i <= Len(w)
      <3>1. i \in 1..Len(w) /\ v[i] = w[i] /\ i - 1 \in Nat /\ i - 1 <= Len(w)
        BY <1>1, <2>1, Places, Zenon
      <3>2. /\ FrameOK(w[i])
            /\ HasAck(w[i].plain) => w[i].plain.ack <= c.out.next
            /\ IsData(w[i].plain) =>
                 /\ Len(w[i].plain.bytes) = 1 /\ w[i].plain.off + 1 <= OffsetMax
                 /\ Covered(c.in.recv, w, i - 1, w[i].plain.off)
                 /\ w[i].plain.off + 1 <= d.out.next
        BY <3>1, Zenon DEF Inbound
      <3>3. IsData(w[i].plain) => w[i].plain.off \in Nat
        BY <3>2, MessageFields, Zenon DEF FrameOK, SealedFrames
      <3>4. IsData(w[i].plain) => Covered(c.in.recv, v, i - 1, w[i].plain.off)
        BY <1>7, <3>1, <3>2, Zenon
      <3>5. IsData(w[i].plain) => w[i].plain.off + 1 <= e.out.next
        <4> SUFFICES ASSUME IsData(w[i].plain)
                     PROVE  w[i].plain.off + 1 <= e.out.next
          BY Zenon
        <4>1. w[i].plain.off + 1 \in Nat
          BY <3>3
        <4>2. e.out.next \in Nat /\ d.out.next <= e.out.next
          BY <1>2, <1>3
        <4>3. w[i].plain.off + 1 <= d.out.next
          BY <3>2, Zenon
        <4> QED BY <1>2, <4>1, <4>2, <4>3, Trans, Zenon
      <3> QED BY <3>1, <3>2, <3>4, <3>5, Zenon
    <2>2. CASE i = Len(w) + 1
      <3>1. v[i] = f /\ i - 1 = Len(w)
        BY <1>1, <2>2, Places, Zenon
      <3>2. Covered(c.in.recv, v, Len(w), d.out.next)
        BY <1>1, <1>7, <1>8, Order, Zenon
      <3>3. IsData(m) => m.off + 1 <= e.out.next
        <4> SUFFICES ASSUME IsData(m) PROVE m.off + 1 <= e.out.next
          BY Zenon
        <4>1. m.off \in Nat /\ e.out.next = m.off + 1
          BY <1>2, <1>3, <1>4, Zenon
        <4> QED BY <4>1, Succ, Zenon
      <3> QED BY <1>4, <3>1, <3>2, <3>3, Zenon
    <2> QED BY <1>1, <2>1, <2>2, Places, Zenon
  <1>10. Covered(c.in.recv, v, Len(v), e.out.next)
    <2> SUFFICES ASSUME NEW x \in c.in.recv..(e.out.next - 1)
                 PROVE  \E j \in 1..Len(v) : IsData(v[j].plain) /\ v[j].plain.off = x
      BY Zenon DEF Covered
    <2>1. CASE x < d.out.next
      <3>1. x \in c.in.recv..(d.out.next - 1)
        BY <1>2, <2>1
      <3>2. PICK j \in 1..Len(w) : IsData(w[j].plain) /\ w[j].plain.off = x
        BY <1>8, <3>1, Zenon DEF Covered
      <3>3. j \in 1..Len(v) /\ v[j] = w[j]
        BY <1>1
      <3> QED BY <3>2, <3>3, Zenon
    <2>2. CASE ~(x < d.out.next)
      <3>1. IsData(m) /\ x = d.out.next
        BY <1>2, <1>3, <2>2
      <3>2. Len(v) \in 1..Len(v)
        BY <1>1
      <3> QED BY <1>1, <1>4, <3>1, <3>2, Zenon
    <2> QED BY <2>1, <2>2, Zenon
  <1>11. c.in.recv <= e.out.next
    BY <1>2, <1>3, <1>8
  <1> QED BY <1>3, <1>6, <1>9, <1>10, <1>11, Zenon DEF Inbound, v
-------------------------------------------------------------------------------
(* Acknowledgements *)

(***************************************************************************)
(* An acknowledgement on its way is applied when its frame is taken, and   *)
(* a later frame does not overtake it.                                     *)
(***************************************************************************)
LEMMA UnderWayPops ==
    ASSUME NEW w \in Seq(SealedFrames), w # <<>>, NEW c, ChannelOK(c), NEW d,
           Taken(c, w[1], d), NEW a \in Nat, UnderWay(a, c.out.base, w)
    PROVE  UnderWay(a, d.out.base, Tail(w))
  <1> DEFINE v == Tail(w)
  <1>1. Len(w) \in Nat /\ Len(v) = Len(w) - 1 /\ \A i \in 1..Len(v) : v[i] = w[i + 1]
    OBVIOUS
  <1>2. c.out.base \in Nat /\ d.out.base \in Nat /\ c.out.base <= d.out.base
        /\ (HasAck(w[1].plain) => w[1].plain.ack <= d.out.base)
    BY ChannelFields, Zenon DEF Taken
  <1> HIDE DEF v
  <1> SUFFICES UnderWay(a, d.out.base, v)
    BY Zenon DEF v
  <1>3. CASE a <= c.out.base
    BY <1>2, <1>3 DEF UnderWay
  <1>4. CASE \E i \in 1..Len(w) : HasAck(w[i].plain) /\ a <= w[i].plain.ack
    <2>1. PICK i \in 1..Len(w) : HasAck(w[i].plain) /\ a <= w[i].plain.ack
      BY <1>4
    <2>2. w[i].plain.ack \in Nat
      <3>1. w[i] \in SealedFrames
        OBVIOUS
      <3>2. w[i].plain \in Messages
        BY <3>1, Zenon DEF SealedFrames
      <3> QED BY <2>1, <3>2, MessageFields
    <2>3. CASE i = 1
      BY <1>2, <2>1, <2>2, <2>3 DEF UnderWay
    <2>4. CASE i # 1
      <3>1. i - 1 \in 1..Len(v) /\ (i - 1) + 1 = i
        BY <1>1, <2>4
      <3>2. v[i - 1] = w[i]
        BY <1>1, <3>1
      <3> QED BY <2>1, <3>1, <3>2 DEF UnderWay
    <2> QED BY <2>3, <2>4
  <1> QED BY <1>3, <1>4 DEF UnderWay

LEMMA UnderWayPushes ==
    ASSUME NEW w \in Seq(SealedFrames), NEW f \in SealedFrames, NEW base \in Nat
    PROVE  /\ \A a : UnderWay(a, base, w) => UnderWay(a, base, Append(w, f))
           /\ HasAck(f.plain) => UnderWay(f.plain.ack, base, Append(w, f))
  <1> DEFINE v == Append(w, f)
  <1>1. Len(w) \in Nat /\ Len(v) = Len(w) + 1 /\ v[Len(v)] = f
        /\ \A i \in 1..Len(w) : v[i] = w[i]
    OBVIOUS
  <1>2. HasAck(f.plain) => f.plain.ack \in Nat
    BY MessageFields DEF SealedFrames
  <1> HIDE DEF v
  <1>3. Len(v) \in 1..Len(v) /\ \A i \in 1..Len(w) : i \in 1..Len(v)
    BY <1>1
  <1>4. ASSUME NEW a, UnderWay(a, base, w) PROVE UnderWay(a, base, v)
    BY <1>1, <1>3, <1>4 DEF UnderWay
  <1>5. HasAck(f.plain) => UnderWay(f.plain.ack, base, v)
    BY <1>1, <1>2, <1>3 DEF UnderWay
  <1> QED BY <1>4, <1>5 DEF v
-------------------------------------------------------------------------------
(* The two ends *)

LEMMA TwoEnds ==
    ASSUME NEW e \in Ends
    PROVE  /\ Other(e) \in Ends /\ Other(e) # e /\ Other(Other(e)) = e
           /\ \A x \in Ends : x = e \/ x = Other(e)
  BY DEF Ends, Other

(* The same channel, but for whether its loop is awake.                    *)
Woken(c, d) ==
    /\ ChannelOK(d)
    /\ d.why = c.why /\ d.sealer = c.sealer /\ d.opener = c.opener /\ d.out = c.out
    /\ d.in = c.in /\ d.acked = c.acked /\ d.heard = c.heard /\ d.sent = c.sent
    /\ d.epoch = c.epoch /\ d.ack = c.ack
    /\ d.reading = c.reading /\ d.pong = c.pong

LEMMA WakeOK ==
    ASSUME NEW c, ChannelOK(c), NEW b \in BOOLEAN
    PROVE  Woken(c, [c EXCEPT !.awake = b]) /\ [c EXCEPT !.awake = b].awake = b
  <1> DEFINE d == [c EXCEPT !.awake = b]
  <1>1. d \in Channels
    BY DEF Channels, ChannelOK
  <1>2. /\ d.why = c.why /\ d.sealer = c.sealer /\ d.opener = c.opener /\ d.out = c.out
        /\ d.in = c.in /\ d.acked = c.acked /\ d.heard = c.heard /\ d.sent = c.sent
        /\ d.epoch = c.epoch /\ d.ack = c.ack
    BY DEF Channels, ChannelOK
  <1>3. d.reading = c.reading
    BY DEF Channels, ChannelOK
  <1>4. d.pong = c.pong
    BY DEF Channels, ChannelOK
  <1>5. d.awake = b
    BY Zenon DEF Channels, ChannelOK
  <1> HIDE DEF d
  <1>6. ChannelOK(d)
    BY <1>1, <1>2 DEF ChannelOK, AckOwed
  <1>7. Woken(c, d)
    BY <1>2, <1>3, <1>4, <1>6, Zenon DEF Woken
  <1> QED BY <1>5, <1>7 DEF d

(***************************************************************************)
(* What an end keeps while only the other one moves.                       *)
(***************************************************************************)
LEMMA Unmoved ==
    ASSUME NEW p \in Ends, EndInv(p), Woken(ch[p], ch'[p]), cut' = cut,
           SendGate(p) => SendGate(p)', AtRest(p)' => AtRest(p)
    PROVE  EndsWell(p)' /\ KeysFresh(p)' /\ RestsIdle(p)'
  <1>1. EndsWell(p) /\ KeysFresh(p) /\ RestsIdle(p)
    BY Zenon DEF EndInv
  <1>2. EndsWell(p)'
    BY <1>1, Zenon DEF EndsWell, Woken
  <1>3. KeysFresh(p)'
    BY <1>1, Zenon DEF KeysFresh, Fresh, Woken, Up
  <1>4. Rested(ch[p]) => Rested(ch'[p])
    BY Zenon DEF Rested, AckOwed, Woken
  <1>5. RestsIdle(p)'
    BY <1>1, <1>4 DEF RestsIdle
  <1> QED BY <1>2, <1>3, <1>5, Zenon

LEMMA TypeKept ==
    ASSUME NEW e \in Ends, ch' \in [Ends -> Channels], ChannelOK(ch'[e]),
           ChannelOK(ch'[Other(e)]), wire' \in [Ends -> Seq(SealedFrames)],
           old' \in [Ends -> Nat], cut' \in BOOLEAN,
           load' \in [agent : Nat, client : Nat, stalls : Nat],
           old'[e] <= Len(wire'[e]), old'[Other(e)] <= Len(wire'[Other(e)]),
           Len(ch'[e].out.log) + load'[e] <= OffsetMax,
           Len(ch'[Other(e)].out.log) + load'[Other(e)] <= OffsetMax
    PROVE  ChanTypeOK'
  BY TwoEnds, Zenon DEF ChanTypeOK

LEMMA InvKept ==
    ASSUME NEW e \in Ends, ChanTypeOK', EndInv(e)', EndInv(Other(e))'
    PROVE  ChanInv'
  BY TwoEnds, Zenon DEF ChanInv

(***************************************************************************)
(* Where an end stands, from the invariant.                                *)
(***************************************************************************)
LEMMA EndFacts ==
    ASSUME ChanInv, NEW e \in Ends
    PROVE  /\ Other(e) \in Ends /\ Other(e) # e /\ Other(Other(e)) = e
           /\ EndInv(e) /\ EndInv(Other(e)) /\ ChannelOK(ch[e]) /\ ChannelOK(ch[Other(e)])
           /\ wire[e] \in Seq(SealedFrames) /\ wire[Other(e)] \in Seq(SealedFrames)
           /\ Len(wire[e]) \in Nat /\ Len(wire[Other(e)]) \in Nat
           /\ old[e] \in Nat /\ old[Other(e)] \in Nat
           /\ old[e] <= Len(wire[e]) /\ old[Other(e)] <= Len(wire[Other(e)])
           /\ Len(ch[e].out.log) + load[e] <= OffsetMax
           /\ Len(ch[Other(e)].out.log) + load[Other(e)] <= OffsetMax
           /\ ch \in [Ends -> Channels] /\ wire \in [Ends -> Seq(SealedFrames)]
           /\ old \in [Ends -> Nat] /\ cut \in BOOLEAN
           /\ load \in [agent : Nat, client : Nat, stalls : Nat]
           /\ Keepalive \in Nat /\ Silence \in Nat /\ AckDelay \in Nat /\ QueueMax \in Nat
  BY TwoEnds, TimesAssumption DEF ChanInv, ChanTypeOK

(***************************************************************************)
(* The step of ReceiveFrame.                                               *)
(***************************************************************************)
LEMMA ReceiveEffect ==
    ASSUME ChanInv, NEW e \in Ends, ReceiveFrame(e)
    PROVE  /\ Up(e) /\ ch[e].reading /\ ~cut /\ wire[e] # <<>>
           /\ Taken(ch[e], wire[e][1], ch'[e]) /\ ch'[e].reading = ch[e].reading
           /\ ch'[e].awake /\ Woken(ch[Other(e)], ch'[Other(e)])
           /\ ch'[Other(e)].awake = (ch[Other(e)].awake \/ Freed(Other(e)))
           /\ ch' \in [Ends -> Channels] /\ cut' = cut /\ load' = load
           /\ wire' = [wire EXCEPT ![e] = Tail(@)]
           /\ old' = [old EXCEPT ![e] = IF @ > 0 THEN @ - 1 ELSE 0]
  <1> DEFINE p == Other(e)
             f == Head(wire[e])
             r == Take(ch[e], f)
             d == r.chan
  <1>1. Up(e) /\ ch[e].reading /\ ~cut /\ wire[e] # <<>> /\ cut' = cut /\ load' = load
    BY Zenon DEF ReceiveFrame
  <1>t. /\ p \in Ends /\ p # e /\ EndInv(e) /\ ChannelOK(ch[e]) /\ ChannelOK(ch[p])
        /\ wire[e] \in Seq(SealedFrames) /\ ch \in [Ends -> Channels]
    BY EndFacts, Zenon
  <1>2. f = wire[e][1]
    BY <1>1, <1>t
  <1>3. Inbound(wire[e], ch[e], ch[p])
    BY <1>1, <1>t, Zenon DEF EndInv, StreamAgrees
  <1>4. r.err = "ok" /\ Taken(ch[e], f, d) /\ d.reading = ch[e].reading
    <2>1. /\ FrameOK(f) /\ Follows(ch[e].opener.epoch, ch[e].opener.counter, f)
          /\ HasAck(f.plain) => f.plain.ack <= ch[e].out.next
          /\ IsData(f.plain) => /\ Len(f.plain.bytes) = 1 /\ f.plain.off <= ch[e].in.recv
                                /\ f.plain.off + 1 <= OffsetMax
      BY <1>1, <1>2, <1>3, <1>t, InboundFirst
    <2> HIDE DEF f
    <2> QED BY <1>t, <2>1, TakeOK, Zenon
  <1>5. /\ wire' = [wire EXCEPT ![e] = Tail(@)]
        /\ old' = [old EXCEPT ![e] = IF @ > 0 THEN @ - 1 ELSE 0]
        /\ ch' = [ch EXCEPT ![e] = [d EXCEPT !.awake = TRUE],
                            ![p] = [ch[p] EXCEPT !.awake = @ \/ Freed(p)]]
    <2>1. r.err = "ok"
      BY <1>4
    <2> QED BY <2>1, Zenon DEF ReceiveFrame
  <1> HIDE DEF r, d, f, p
  <1> DEFINE b == ch[p].awake \/ Freed(p)
  <1>6. ch'[e] = [d EXCEPT !.awake = TRUE] /\ ch'[p] = [ch[p] EXCEPT !.awake = b]
    BY <1>5, <1>t, Zenon
  <1>7. b \in BOOLEAN
    BY Zenon
  <1> HIDE DEF b
  <1>8. ChannelOK(d)
    BY <1>4 DEF Taken
  <1>9. Woken(d, ch'[e]) /\ ch'[e].awake
    <2>1. Woken(d, [d EXCEPT !.awake = TRUE]) /\ [d EXCEPT !.awake = TRUE].awake = TRUE
      BY <1>8, WakeOK, Zenon
    <2> QED BY <1>6, <2>1
  <1>10. Woken(ch[p], ch'[p]) /\ ch'[p].awake = b
    BY <1>6, <1>7, <1>t, WakeOK
  <1>11. Taken(ch[e], f, ch'[e])
    BY <1>4, <1>9, Zenon DEF Taken, Woken
  <1>12. ch'[e].reading = ch[e].reading
    BY <1>4, <1>9 DEF Woken
  <1>13. ch' \in [Ends -> Channels]
    <2>1. ch'[e] \in Channels /\ ch'[p] \in Channels
      BY <1>9, <1>10 DEF Woken, ChannelOK
    <2> QED BY <1>5, <1>6, <1>t, <2>1, Zenon
  <1> QED BY <1>1, <1>2, <1>5, <1>9, <1>10, <1>11, <1>12, <1>13, Zenon DEF b, p

LEMMA ReceiveKeeps ==
    ASSUME ChanInv, NEW e \in Ends, ReceiveFrame(e)
    PROVE  ChanInv'
  <1> DEFINE p == Other(e)
  <1>t. /\ p \in Ends /\ p # e /\ Other(p) = e /\ EndInv(e) /\ EndInv(p)
        /\ ChannelOK(ch[e]) /\ ChannelOK(ch[p])
        /\ wire[e] \in Seq(SealedFrames) /\ wire[p] \in Seq(SealedFrames)
        /\ old[e] \in Nat /\ old[p] \in Nat /\ Len(wire[e]) \in Nat /\ QueueMax \in Nat
        /\ old[e] <= Len(wire[e]) /\ old[p] <= Len(wire[p])
        /\ Keepalive \in Nat /\ Silence \in Nat
    BY EndFacts, Zenon
  <1>u. /\ Len(ch[e].out.log) + load[e] <= OffsetMax
        /\ Len(ch[p].out.log) + load[p] <= OffsetMax
        /\ wire \in [Ends -> Seq(SealedFrames)] /\ old \in [Ends -> Nat] /\ cut \in BOOLEAN
        /\ load \in [agent : Nat, client : Nat, stalls : Nat]
    BY EndFacts, Zenon
  <1>1. /\ Up(e) /\ ~cut /\ wire[e] # <<>> /\ ch' \in [Ends -> Channels]
        /\ Taken(ch[e], wire[e][1], ch'[e]) /\ Woken(ch[p], ch'[p])
        /\ cut' = cut /\ load' = load
    BY ReceiveEffect, Zenon
  <1>2. ch'[e].reading = ch[e].reading /\ ch'[e].awake
        /\ ch'[p].awake = (ch[p].awake \/ Freed(p))
    BY ReceiveEffect, Zenon
  <1>3. /\ wire' = [wire EXCEPT ![e] = Tail(@)]
        /\ old' = [old EXCEPT ![e] = IF @ > 0 THEN @ - 1 ELSE 0]
    BY ReceiveEffect, Zenon
  <1>4. /\ wire'[e] = Tail(wire[e]) /\ wire'[p] = wire[p] /\ old'[p] = old[p]
        /\ old'[e] = IF old[e] > 0 THEN old[e] - 1 ELSE 0
    BY <1>3, <1>t, <1>u, Zenon
  <1>5. Tail(wire[e]) \in Seq(SealedFrames) /\ Len(Tail(wire[e])) = Len(wire[e]) - 1
    BY <1>1, <1>t, TailProperties, Zenon
  <1> HIDE DEF p
  <1>6. ChanTypeOK'
    <2>1. wire' \in [Ends -> Seq(SealedFrames)]
      BY <1>3, <1>5, <1>u, Zenon
    <2>2. old'[e] \in Nat /\ old' \in [Ends -> Nat]
      BY <1>3, <1>4, <1>t, <1>u, Pred, Zenon
    <2>3. old'[e] <= Len(wire'[e]) /\ old'[p] <= Len(wire'[p])
      BY <1>4, <1>5, <1>t
    <2>4. ChannelOK(ch'[e]) /\ ChannelOK(ch'[p]) /\ ch'[e].out.log = ch[e].out.log
          /\ ch'[p].out.log = ch[p].out.log
      BY <1>1, Zenon DEF Taken, Woken
    <2> QED BY <1>1, <1>u, <2>1, <2>2, <2>3, <2>4, TypeKept, Zenon DEF p
  <1>7. Up(e)' /\ (Up(p)' <=> Up(p))
    BY <1>1 DEF Up, Taken, Woken
  <1>8. EndInv(e)'
    <2>1. EndsWell(e)'
      BY <1>1, <1>t, Zenon DEF EndInv, EndsWell, Taken
    <2>2. KeysFresh(e)'
      BY <1>1, <1>4, <1>t, Zenon DEF EndInv, KeysFresh, Fresh, Taken, SendGate, Up, p
    <2>3. StreamAgrees(e)'
      <3>1. Inbound(wire[e], ch[e], ch[p])
        BY <1>1, <1>t, Zenon DEF EndInv, StreamAgrees, p
      <3>2. Inbound(wire'[e], ch'[e], ch[p])
        BY <1>1, <1>4, <1>t, <3>1, InboundPops, Zenon
      <3>3. /\ ch'[p].why = ch[p].why /\ ch'[p].sealer = ch[p].sealer
            /\ ch'[p].out = ch[p].out
        BY <1>1, Zenon DEF Woken
      <3>4. ch'[e].out.next \in Nat /\ ch'[e].out.next <= ch'[e].out.next
        BY <1>1, ChannelFields, Order, Zenon DEF Taken
      <3>6. wire'[e] \in Seq(SealedFrames)
        BY <1>4, <1>5, Zenon
      <3>5. Inbound(wire'[e], ch'[e], ch'[p])
        BY <3>2, <3>3, <3>4, <3>6, InboundSame, Zenon
      <3> QED BY <3>5 DEF StreamAgrees, p
    <2>4. HeardInTime(e)'
      <3>1. ch'[e].heard = 0 /\ ch'[p].sent \in Nat
        BY <1>1, ChannelFields, Zenon DEF Taken, Woken
      <3> QED BY <1>t, <3>1 DEF HeardInTime, p
    <2>5. RestsIdle(e)'
      BY <1>2 DEF RestsIdle, AtRest
    <2>6. AcksArrive(e)'
      BY <1>1, <1>4, <1>7, <1>t, Zenon DEF EndInv, AcksArrive, Taken, Woken, p
    <2> QED BY <2>1, <2>2, <2>3, <2>4, <2>5, <2>6 DEF EndInv
  <1>9. EndInv(p)'
    <2>1. SendGate(p) => SendGate(p)'
      <3>1. Len(wire'[e]) = Len(wire[e]) - 1
        BY <1>4, <1>5
      <3> QED BY <1>t, <3>1 DEF SendGate
    <2>2. AtRest(p)' => AtRest(p)
      BY <1>2, <1>7, Zenon DEF AtRest, Freed
    <2>3. EndsWell(p)' /\ KeysFresh(p)' /\ RestsIdle(p)'
      BY <1>1, <1>t, <2>1, <2>2, Unmoved, Zenon
    <2>4. StreamAgrees(p)'
      <3> SUFFICES ASSUME Up(p)' PROVE Inbound(wire'[p], ch'[p], ch'[e])
        BY <1>t DEF StreamAgrees
      <3>1. Inbound(wire[p], ch[p], ch[e])
        BY <1>1, <1>7, <1>t, Zenon DEF EndInv, StreamAgrees
      <3>2. /\ ch'[e].why = ch[e].why /\ ch'[e].sealer = ch[e].sealer
            /\ ch'[e].out.next = ch[e].out.next
            /\ ch'[p].opener = ch[p].opener /\ ch'[p].in = ch[p].in
            /\ ch'[p].out = ch[p].out
        BY <1>1, Zenon DEF Taken, Woken
      <3>3. ch[p].out.next \in Nat
        BY <1>t, ChannelFields
      <3>4. ch'[p].out.next \in Nat /\ ch[p].out.next <= ch'[p].out.next
        BY <3>2, <3>3, Order, Zenon
      <3>5. Inbound(wire[p], ch'[p], ch'[e])
        BY <1>t, <3>1, <3>2, <3>3, <3>4, InboundSame, Zenon
      <3> QED BY <1>4, <3>5, Zenon
    <2>5. HeardInTime(p)'
      BY <1>1, <1>4, <1>7, <1>t, Zenon DEF EndInv, HeardInTime, Taken, Woken
    <2>6. AcksArrive(p)'
      <3> SUFFICES ASSUME Up(p)' PROVE UnderWay(ch'[p].acked, ch'[e].out.base, wire'[e])
        BY <1>t, Zenon DEF AcksArrive
      <3>1. UnderWay(ch[p].acked, ch[e].out.base, wire[e])
        BY <1>1, <1>7, <1>t, Zenon DEF EndInv, AcksArrive
      <3>2. ch[p].acked \in Nat /\ ch'[p].acked = ch[p].acked
        BY <1>1, <1>t, ChannelFields, Zenon DEF Woken
      <3> QED BY <1>1, <1>4, <1>t, <3>1, <3>2, UnderWayPops, Zenon
    <2> QED BY <2>3, <2>4, <2>5, <2>6, Zenon DEF EndInv
  <1> QED BY <1>6, <1>8, <1>9, InvKept, Zenon DEF p

(***************************************************************************)
(* A channel as it is built, and one that is closed.                       *)
(***************************************************************************)
LEMMA NewOK ==
    ASSUME NEW e \in Ends
    PROVE  /\ ChannelOK(NewChannel(e)) /\ NewChannel(e).why = "up"
           /\ NewChannel(e).sealer = NewSealer /\ NewChannel(e).opener = NewOpener
           /\ NewChannel(e).out = NewBuffer /\ NewChannel(e).in.recv = 0
           /\ NewChannel(e).acked = 0 /\ NewChannel(e).heard = 0
           /\ NewChannel(e).sent = 0 /\ NewChannel(e).epoch = 0
  <1> DEFINE c == NewChannel(e)
  <1>1. SealerOK(NewSealer) /\ OpenerOK(NewOpener)
    <2>1. Subkeys(0) = <<>>
      BY DEF Subkeys
    <2>2. NewSealer \in Sealers /\ NewOpener \in Openers
      BY DEF NewSealer, NewOpener, Sealers, Openers, ConnectionKey, NoKey
    <2> QED BY <2>1, <2>2, KeyLimitsAssumption
            DEF SealerOK, OpenerOK, NewSealer, NewOpener, ConnectionKey
  <1>2. NewBuffer \in OutStreams /\ NewBuffer.base = 0 /\ NewBuffer.next = 0
        /\ NewBuffer.log = <<>>
    BY DEF NewBuffer, OutStreams
  <1>3. NewCursor(e = "agent") \in InStreams /\ NewCursor(e = "agent").recv = 0
        /\ NewCursor(e = "agent").pending = 0
    BY Zenon DEF NewCursor, InStreams
  <1>4. /\ c.why = "up" /\ c.sealer = NewSealer /\ c.opener = NewOpener
        /\ c.out = NewBuffer /\ c.in = NewCursor(e = "agent") /\ c.acked = 0
        /\ c.heard = 0 /\ c.sent = 0 /\ c.epoch = 0 /\ c.ack = Never
    BY Zenon DEF NewChannel
  <1>5. c \in Channels
    <2>1. NewSealer \in Sealers /\ NewOpener \in Openers
      BY <1>1 DEF SealerOK, OpenerOK
    <2> DEFINE i == NewCursor(e = "agent")
    <2>2. i \in InStreams /\ NewBuffer \in OutStreams
      BY <1>2, <1>3, Zenon
    <2>3. c = [why |-> "up", sealer |-> NewSealer, opener |-> NewOpener,
               out |-> NewBuffer, in |-> i, acked |-> 0, heard |-> 0, sent |-> 0,
               epoch |-> 0, ack |-> Never, pong |-> FALSE, reading |-> TRUE,
               awake |-> TRUE]
      BY Zenon DEF NewChannel
    <2> HIDE DEF i, c
    <2> QED BY <2>1, <2>2, <2>3, Zenon DEF Channels, Reasons
  <1> HIDE DEF c
  <1>6. ChannelOK(c)
    BY <1>1, <1>2, <1>3, <1>4, <1>5 DEF ChannelOK, AckOffset
  <1> QED BY <1>3, <1>4, <1>6, Zenon DEF c

LEMMA ClosedOK ==
    ASSUME NEW e \in Ends, NEW why \in Reasons
    PROVE  /\ ChannelOK(Closed(e, why)) /\ Closed(e, why).why = why
           /\ Closed(e, why).out.log = <<>>
  <1> DEFINE c == NewChannel(e)
             d == [c EXCEPT !.why = why, !.awake = FALSE]
  <1>1. ChannelOK(c) /\ c.out = NewBuffer
    BY NewOK
  <1> HIDE DEF c
  <1>2. d \in Channels
    BY <1>1, Zenon DEF ChannelOK, Channels
  <1>3. /\ d.why = why /\ d.sealer = c.sealer /\ d.opener = c.opener /\ d.out = c.out
        /\ d.in = c.in /\ d.acked = c.acked /\ d.ack = c.ack
    BY <1>1, Zenon DEF ChannelOK, Channels
  <1> HIDE DEF d
  <1>4. ChannelOK(d)
    BY <1>1, <1>2, <1>3 DEF ChannelOK, AckOwed
  <1> QED BY <1>1, <1>3, <1>4 DEF Closed, NewBuffer, c, d

(***************************************************************************)
(* A connection that ends as it may: its own state is gone, and the peer   *)
(* is woken if its queue was emptied.                                      *)
(***************************************************************************)
LEMMA HangKeeps ==
    ASSUME ChanInv, NEW e \in Ends, NEW why, Hang(e, why),
           why \in {"PeerSilent", "PeerClosed", "EpochsExhausted"},
           why = "PeerSilent" => cut, cut' = cut, load' = load
    PROVE  ChanInv'
  <1> DEFINE p == Other(e)
             b == ch[p].awake \/ (Up(p) /\ ~cut)
  <1>t. /\ p \in Ends /\ p # e /\ Other(p) = e /\ EndInv(p)
        /\ ChannelOK(ch[e]) /\ ChannelOK(ch[p]) /\ Len(ch[e].out.log) \in Nat
        /\ wire[e] \in Seq(SealedFrames) /\ wire[p] \in Seq(SealedFrames)
        /\ Len(wire[e]) \in Nat /\ QueueMax \in Nat /\ old[p] <= Len(wire[p])
    <2>1. ChannelOK(ch[e]) /\ EndInv(p)
      BY EndFacts, Zenon
    <2>2. Len(ch[e].out.log) \in Nat
      BY <2>1, ChannelFields, ElementOf, Zenon
    <2> QED BY <2>1, <2>2, EndFacts, Zenon
  <1>u. /\ Len(ch[e].out.log) + load[e] <= OffsetMax
        /\ Len(ch[p].out.log) + load[p] <= OffsetMax
        /\ wire \in [Ends -> Seq(SealedFrames)] /\ old \in [Ends -> Nat] /\ cut \in BOOLEAN
        /\ load \in [agent : Nat, client : Nat, stalls : Nat] /\ ch \in [Ends -> Channels]
    BY EndFacts, Zenon
  <1>1. /\ ch' = [ch EXCEPT ![e] = Closed(e, why), ![p] = [ch[p] EXCEPT !.awake = b]]
        /\ wire' = [wire EXCEPT ![e] = IF cut THEN @ ELSE <<>>]
        /\ old' = [old EXCEPT ![e] = 0]
    BY DEF Hang
  <1>2. b \in BOOLEAN
    OBVIOUS
  <1>3. b = (ch[p].awake \/ (Up(p) /\ ~cut))
    OBVIOUS
  <1> HIDE DEF b
  <1>4. ch'[e] = Closed(e, why) /\ ch'[p] = [ch[p] EXCEPT !.awake = b]
    BY <1>1, <1>t, <1>u
  <1>5. /\ wire'[e] = (IF cut THEN wire[e] ELSE <<>>) /\ wire'[p] = wire[p]
        /\ old'[e] = 0 /\ old'[p] = old[p]
    BY <1>1, <1>t, <1>u
  <1>6. ChannelOK(ch'[e]) /\ ch'[e].why = why /\ ch'[e].out.log = <<>>
    <2>1. why \in Reasons
      BY DEF Reasons
    <2>2. /\ ChannelOK(Closed(e, why)) /\ Closed(e, why).why = why
          /\ Closed(e, why).out.log = <<>>
      BY <2>1, ClosedOK
    <2> QED BY <1>4, <2>2
  <1>7. Woken(ch[p], ch'[p]) /\ ch'[p].awake = b
    BY <1>2, <1>4, <1>t, WakeOK
  <1>8. Len(wire'[e]) \in Nat /\ Len(wire'[e]) <= Len(wire[e])
    BY <1>5, <1>t
  <1>9. ~Up(e)' /\ (Up(p)' <=> Up(p))
    BY <1>6, <1>7, Zenon DEF Up, Woken
  <1> HIDE DEF p
  <1>10. ChanTypeOK'
    <2>1. ch' \in [Ends -> Channels]
      <3>1. ch'[e] \in Channels /\ ch'[p] \in Channels
        BY <1>6, <1>7 DEF ChannelOK, Woken
      <3> QED BY <1>1, <1>4, <1>t, <1>u, <3>1, Zenon
    <2>2. wire' \in [Ends -> Seq(SealedFrames)] /\ old' \in [Ends -> Nat]
      BY <1>1, <1>u
    <2>3. Len(ch'[e].out.log) = 0 /\ ch'[p].out.log = ch[p].out.log
      BY <1>6, <1>7, Zenon DEF Woken
    <2>4. load[e] \in Nat /\ OffsetMax \in Nat
      BY <1>u, OffsetMaxAssumption, Zenon DEF Ends
    <2>5. Len(ch'[e].out.log) + load'[e] <= OffsetMax
      BY <1>t, <1>u, <2>3, <2>4, Order, ChannelFields, Zenon
    <2>6. old'[e] <= Len(wire'[e]) /\ old'[p] <= Len(wire'[p]) /\ ChannelOK(ch'[p])
      BY <1>5, <1>7, <1>8, <1>t, Order, Zenon DEF Woken
    <2> QED BY <1>6, <1>u, <2>1, <2>2, <2>3, <2>5, <2>6, TypeKept, Zenon DEF p
  <1>11. EndInv(e)'
    <2>1. EndsWell(e)'
      BY <1>6 DEF EndsWell
    <2> QED BY <1>9, <2>1, Zenon
            DEF EndInv, KeysFresh, StreamAgrees, HeardInTime, RestsIdle, AtRest, AcksArrive
  <1>12. EndInv(p)'
    <2>1. SendGate(p) => SendGate(p)'
      BY <1>8, <1>t DEF SendGate
    <2>2. AtRest(p)' => AtRest(p)
      <3> SUFFICES ASSUME AtRest(p)' PROVE AtRest(p)
        BY Zenon
      <3>1. Up(p) /\ ~b
        BY <1>7, <1>9 DEF AtRest
      <3>2. cut /\ ~ch[p].awake
        BY <1>3, <3>1, Zenon
      <3>3. wire'[e] = wire[e]
        BY <1>5, <3>2, Zenon
      <3> QED BY <1>t, <3>1, <3>2, <3>3, Zenon DEF AtRest, SendGate
    <2>3. EndsWell(p)' /\ KeysFresh(p)' /\ RestsIdle(p)'
      BY <1>7, <1>t, <2>1, <2>2, Unmoved, Zenon
    <2>4. StreamAgrees(p)'
      <3> SUFFICES ASSUME Up(p)', ~cut PROVE Inbound(wire'[p], ch'[p], ch'[e])
        BY <1>t, Zenon DEF StreamAgrees
      <3>1. Inbound(wire[p], ch[p], ch[e])
        BY <1>9, <1>t, Zenon DEF EndInv, StreamAgrees
      <3>2. /\ ch'[p].opener = ch[p].opener /\ ch'[p].in = ch[p].in
            /\ ch'[p].out = ch[p].out
        BY <1>7, Zenon DEF Woken
      <3>3. ch[p].out.next \in Nat /\ ch[p].out.next <= ch[p].out.next
        BY <1>t, ChannelFields, Refl, Zenon
      <3> QED BY <1>5, <1>6, <1>t, <3>1, <3>2, <3>3, InboundSame
    <2>5. HeardInTime(p)'
      BY <1>5, <1>7, <1>9, <1>t, Zenon DEF EndInv, HeardInTime, Woken
    <2>6. AcksArrive(p)'
      BY <1>9, <1>t DEF AcksArrive
    <2> QED BY <2>3, <2>4, <2>5, <2>6, Zenon DEF EndInv
  <1> QED BY <1>10, <1>11, <1>12, InvKept, Zenon DEF p

(***************************************************************************)
(* A step of one end that puts nothing on the wire: what is left to show   *)
(* are its keys, its silence and its rest.                                 *)
(***************************************************************************)
LEMMA LocalKeeps ==
    ASSUME ChanInv, NEW e \in Ends, Up(e), NEW d, ChannelOK(d), ch' = [ch EXCEPT ![e] = d],
           wire' = wire, old' = old, cut' = cut,
           load' \in [agent : Nat, client : Nat, stalls : Nat],
           load'[Other(e)] = load[Other(e)], Len(d.out.log) + load'[e] <= OffsetMax,
           d.why = "up", KeysMove(ch[e].sealer, d.sealer), d.opener = ch[e].opener,
           d.out.base = ch[e].out.base, d.out.next = ch[e].out.next,
           d.in.recv = ch[e].in.recv, d.acked = ch[e].acked, d.sent = ch[e].sent,
           KeysFresh(e)', HeardInTime(e)', RestsIdle(e)'
    PROVE  ChanInv'
  <1> DEFINE p == Other(e)
  <1>t. /\ p \in Ends /\ p # e /\ Other(p) = e /\ EndInv(e) /\ EndInv(p)
        /\ ChannelOK(ch[e]) /\ ChannelOK(ch[p])
        /\ wire[e] \in Seq(SealedFrames) /\ wire[p] \in Seq(SealedFrames)
        /\ old[e] <= Len(wire[e]) /\ old[p] <= Len(wire[p])
        /\ Len(ch[p].out.log) + load[p] <= OffsetMax
    BY EndFacts, Zenon
  <1>u. /\ wire \in [Ends -> Seq(SealedFrames)] /\ old \in [Ends -> Nat]
        /\ cut \in BOOLEAN /\ ch \in [Ends -> Channels]
    BY EndFacts, Zenon
  <1>1. ch'[e] = d /\ ch'[p] = ch[p]
    BY <1>t, <1>u, Zenon
  <1>2. ChanTypeOK'
    <2>1. d \in Channels
      BY Zenon DEF ChannelOK
    <2>2. ch' \in [Ends -> Channels]
      BY <1>u, <2>1
    <2> QED BY <1>1, <1>t, <1>u, <2>2, TypeKept, Zenon
  <1> HIDE DEF p
  <1>3. Up(e)' /\ (Up(p)' <=> Up(p))
    BY <1>1, Zenon DEF Up
  <1>4. ch[e].out.next \in Nat /\ ch[p].out.next \in Nat
    BY <1>t, ChannelFields, Zenon
  <1>5. EndInv(e)'
    <2>1. EndsWell(e)'
      BY <1>1, Zenon DEF EndsWell
    <2>2. StreamAgrees(e)'
      <3> SUFFICES ASSUME ~cut PROVE Inbound(wire'[e], ch'[e], ch'[p])
        BY Zenon DEF StreamAgrees, p
      <3>1. Inbound(wire[e], ch[e], ch[p])
        BY <1>t, Zenon DEF EndInv, StreamAgrees, p
      <3>2. /\ ch'[e].opener = ch[e].opener /\ ch'[e].in.recv = ch[e].in.recv
            /\ ch'[e].out.next \in Nat /\ ch[e].out.next <= ch'[e].out.next
        BY <1>1, <1>4, Order, Zenon
      <3>3. Inbound(wire[e], ch'[e], ch'[p])
        BY <1>1, <1>4, <1>t, <3>1, <3>2, InboundSame, Zenon
      <3> QED BY <3>3, Zenon
    <2>3. AcksArrive(e)'
      BY <1>1, <1>3, <1>t, Zenon DEF EndInv, AcksArrive, p
    <2> QED BY <2>1, <2>2, <2>3 DEF EndInv
  <1>6. EndInv(p)'
    <2>1. Woken(ch[p], ch'[p])
      BY <1>1, <1>t, Zenon DEF Woken
    <2>2. SendGate(p)' <=> SendGate(p)
      BY Zenon DEF SendGate
    <2>3. AtRest(p)' => AtRest(p)
      BY <1>1, <2>2, Zenon DEF AtRest, Up
    <2>4. EndsWell(p)' /\ KeysFresh(p)' /\ RestsIdle(p)'
      BY <1>t, <2>1, <2>2, <2>3, Unmoved, Zenon
    <2>5. StreamAgrees(p)'
      <3> SUFFICES ASSUME Up(p), ~cut PROVE Inbound(wire'[p], ch'[p], ch'[e])
        BY <1>3, <1>t, Zenon DEF StreamAgrees
      <3>1. Inbound(wire[p], ch[p], ch[e])
        BY <1>t, Zenon DEF EndInv, StreamAgrees
      <3> QED BY <1>1, <1>t, <3>1, InboundRekeys, Zenon DEF Up
    <2>6. HeardInTime(p)'
      <3>1. HeardInTime(p)
        BY <1>t, Zenon DEF EndInv
      <3>2. ch'[p] = ch[p] /\ ch'[e].sent = ch[e].sent
        BY <1>1, Zenon
      <3> QED BY <1>3, <1>t, <3>1, <3>2, Zenon DEF HeardInTime
    <2>7. AcksArrive(p)'
      BY <1>1, <1>3, <1>t, Zenon DEF EndInv, AcksArrive
    <2> QED BY <2>4, <2>5, <2>6, <2>7, Zenon DEF EndInv
  <1> QED BY <1>2, <1>5, <1>6, InvKept, Zenon DEF p

(***************************************************************************)
(* The steps of the owners.                                                *)
(***************************************************************************)
LEMMA WriteKeeps ==
    ASSUME ChanInv, NEW e \in Ends, Write(e)
    PROVE  ChanInv'
  <1> DEFINE p == Other(e)
             c == ch[e]
             log == Append(c.out.log, 0)
             u == [c.out EXCEPT !.log = log]
             d == [c EXCEPT !.out = u, !.awake = TRUE]
             n == load[e] - 1
  <1>t. /\ p \in Ends /\ p # e /\ EndInv(e) /\ ChannelOK(c) /\ ch \in [Ends -> Channels]
        /\ load \in [agent : Nat, client : Nat, stalls : Nat]
        /\ Len(c.out.log) + load[e] <= OffsetMax
    BY EndFacts, Zenon
  <1>f. c \in Channels /\ c.out \in OutStreams /\ c.out.log \in Seq(Nat)
        /\ c.out.next \in Nat /\ Len(c.out.log) \in Nat
    BY <1>t, ChannelFields
  <1>1. /\ Up(e) /\ load[e] > 0 /\ wire' = wire /\ old' = old /\ cut' = cut
        /\ load' = [load EXCEPT ![e] = n]
        /\ ch' = [ch EXCEPT ![e] = [c EXCEPT !.out.log = Append(@, 0), !.awake = TRUE]]
    BY DEF Write
  <1>2. [c EXCEPT !.out.log = Append(@, 0), !.awake = TRUE] = d
    BY <1>f DEF Channels, OutStreams
  <1>3. ch' = [ch EXCEPT ![e] = d]
    BY <1>1, <1>2
  <1> HIDE DEF c
  <1>4. log \in Seq(Nat) /\ Len(log) = Len(c.out.log) + 1
    BY <1>f
  <1> HIDE DEF log
  <1>5. u \in OutStreams
    BY <1>4, <1>f, Zenon DEF OutStreams
  <1>6. u.base = c.out.base /\ u.next = c.out.next /\ u.log = log
    BY <1>f DEF OutStreams
  <1> HIDE DEF u
  <1>7. d \in Channels
    BY <1>5, <1>f, Zenon DEF Channels
  <1>8. /\ d.why = c.why /\ d.sealer = c.sealer /\ d.opener = c.opener /\ d.out = u
        /\ d.in = c.in /\ d.acked = c.acked /\ d.heard = c.heard /\ d.sent = c.sent
        /\ d.epoch = c.epoch /\ d.ack = c.ack
    BY <1>f DEF Channels
  <1>9. d.reading = c.reading
    BY <1>f DEF Channels
  <1>10. d.awake
    BY <1>f, Zenon DEF Channels
  <1> HIDE DEF d
  <1>11. ChannelOK(d)
    <2>1. c.out.next <= Len(log)
      <3>1. c.out.next <= Len(c.out.log)
        BY <1>t, Zenon DEF ChannelOK
      <3> QED BY <1>4, <1>f, <3>1, Succ, Zenon
    <2> QED BY <1>4, <1>6, <1>7, <1>8, <1>t, <2>1, Zenon DEF ChannelOK, AckOwed
  <1>12. /\ load[e] \in Nat /\ n \in Nat /\ OffsetMax \in Nat
    BY <1>1, <1>t, OffsetMaxAssumption DEF Ends
  <1>13. /\ load' \in [agent : Nat, client : Nat, stalls : Nat] /\ load'[e] = n
         /\ load'[p] = load[p]
    BY <1>1, <1>12, <1>t DEF Ends
  <1>14. Len(d.out.log) + load'[e] <= OffsetMax
    <2>1. Len(d.out.log) = Len(c.out.log) + 1
      BY <1>4, <1>6, <1>8, Zenon
    <2>2. load'[e] = load[e] - 1 /\ load[e] \in Nat /\ OffsetMax \in Nat
      BY <1>12, <1>13
    <2>3. Len(c.out.log) \in Nat /\ Len(c.out.log) + load[e] <= OffsetMax
      BY <1>f, <1>t, Zenon DEF c
    <2> QED BY <2>1, <2>2, <2>3
  <1>15. ch'[e] = d /\ ch'[p] = ch[p]
    BY <1>3, <1>t
  <1>16. KeysFresh(e)'
    BY <1>1, <1>8, <1>15, <1>t, Zenon DEF EndInv, KeysFresh, Fresh, SendGate, Up, c
  <1>17. HeardInTime(e)'
    BY <1>1, <1>8, <1>9, <1>15, <1>t, Zenon DEF EndInv, HeardInTime, Up, c
  <1>18. RestsIdle(e)'
    BY <1>10, <1>15 DEF RestsIdle, AtRest
  <1>19. d.why = "up" /\ KeysMove(c.sealer, d.sealer)
    BY <1>1, <1>8 DEF Up, KeysMove, c
  <1> QED BY <1>1, <1>3, <1>6, <1>8, <1>11, <1>13, <1>14, <1>16, <1>17, <1>18, <1>19,
             LocalKeeps, Zenon DEF c, p

LEMMA TakenKeeps ==
    ASSUME ChanInv, TakenByPty
    PROVE  ChanInv'
  <1> DEFINE e == "agent"
             p == Other(e)
             c == ch[e]
             v == [c.in EXCEPT !.pending = @ - 1]
             d == [c EXCEPT !.in = v, !.awake = TRUE]
  <1>e. e \in Ends
    BY DEF Ends
  <1>t. /\ p \in Ends /\ p # e /\ EndInv(e) /\ ChannelOK(c) /\ ch \in [Ends -> Channels]
        /\ load \in [agent : Nat, client : Nat, stalls : Nat]
        /\ Len(c.out.log) + load[e] <= OffsetMax
    BY <1>e, EndFacts, Zenon
  <1>f. /\ c \in Channels /\ c.in \in InStreams /\ c.in.recv \in Nat /\ c.in.pending \in Nat
        /\ c.in.pending <= c.in.recv /\ c.acked \in Nat
    <2> HIDE DEF c
    <2>1. c.in.pending <= c.in.recv
      BY <1>t DEF ChannelOK
    <2> QED BY <1>t, <2>1, ChannelFields, Zenon
  <1>1. /\ Up(e) /\ c.in.pending > 0 /\ wire' = wire /\ old' = old /\ cut' = cut
        /\ load' = load
        /\ ch' = [ch EXCEPT ![e] = [c EXCEPT !.in = MarkDelivered(@, 1), !.awake = TRUE]]
    BY DEF TakenByPty
  <1> HIDE DEF e
  <1>2. [c EXCEPT !.in = MarkDelivered(@, 1), !.awake = TRUE] = d
    <2>1. MarkDelivered(c.in, 1) = v
      BY <1>1, <1>f DEF MarkDelivered
    <2> QED BY <1>f, <2>1, Zenon DEF Channels
  <1>3. ch' = [ch EXCEPT ![e] = d]
    BY <1>1, <1>2, Zenon
  <1> HIDE DEF c
  <1> DEFINE k == c.in.pending - 1
  <1>4. k \in Nat /\ k <= c.in.recv /\ k <= c.in.pending
    BY <1>1, <1>f
  <1> HIDE DEF k
  <1>5. v \in InStreams /\ v.recv = c.in.recv /\ v.pending = k
    <2>1. v = [c.in EXCEPT !.pending = k]
      BY DEF k
    <2> HIDE DEF v
    <2> QED BY <1>4, <1>f, <2>1 DEF InStreams
  <1>6. v.onDelivery = c.in.onDelivery
    BY <1>f DEF InStreams
  <1> HIDE DEF v
  <1>7. d \in Channels
    BY <1>5, <1>f, Zenon DEF Channels
  <1>8. /\ d.why = c.why /\ d.sealer = c.sealer /\ d.opener = c.opener /\ d.out = c.out
        /\ d.in = v /\ d.acked = c.acked /\ d.heard = c.heard /\ d.sent = c.sent
        /\ d.epoch = c.epoch /\ d.ack = c.ack
    BY <1>f DEF Channels
  <1>9. d.reading = c.reading
    BY <1>f DEF Channels
  <1>10. d.awake
    BY <1>f, Zenon DEF Channels
  <1> HIDE DEF d
  <1>11. ChannelOK(d)
    <2>1. AckOffset(c.in) \in Nat /\ AckOffset(v) \in Nat /\ AckOffset(c.in) <= AckOffset(v)
      BY <1>4, <1>5, <1>6, <1>f DEF AckOffset
    <2>2. c.acked <= AckOffset(c.in) /\ (c.ack # Never => AckOffset(c.in) > c.acked)
      BY <1>t, Zenon DEF ChannelOK, AckOwed
    <2>3. d.acked <= AckOffset(d.in) /\ (d.ack # Never => AckOwed(d))
      BY <1>8, <1>f, <2>1, <2>2 DEF AckOwed
    <2> QED BY <1>4, <1>5, <1>7, <1>8, <1>f, <1>t, <2>3, Zenon DEF ChannelOK
  <1>15. ch'[e] = d /\ ch'[p] = ch[p]
    BY <1>3, <1>e, <1>t
  <1>16. KeysFresh(e)'
    BY <1>1, <1>8, <1>15, <1>t DEF EndInv, KeysFresh, Fresh, SendGate, Up, c
  <1>17. HeardInTime(e)'
    BY <1>1, <1>8, <1>9, <1>15, <1>t, Zenon DEF EndInv, HeardInTime, Up, c
  <1>18. RestsIdle(e)'
    BY <1>10, <1>15 DEF RestsIdle, AtRest
  <1>19. d.why = "up" /\ KeysMove(c.sealer, d.sealer)
    BY <1>1, <1>8, Zenon DEF Up, KeysMove, c
  <1> QED BY <1>1, <1>3, <1>5, <1>8, <1>11, <1>16, <1>17, <1>18, <1>19, <1>e, <1>t,
             LocalKeeps, Zenon DEF c, p

(***************************************************************************)
(* SetReadGate: a gate that opens starts the silence anew.                 *)
(***************************************************************************)
LEMMA GateOK ==
    ASSUME NEW c, ChannelOK(c), NEW open \in BOOLEAN
    PROVE  LET d == SetReadGate(c, open)
           IN /\ ChannelOK(d) /\ d.why = c.why /\ d.sealer = c.sealer /\ d.opener = c.opener
              /\ d.out = c.out /\ d.in = c.in /\ d.acked = c.acked /\ d.sent = c.sent
              /\ d.epoch = c.epoch /\ d.ack = c.ack
              /\ d.heard = IF open /\ ~c.reading THEN 0 ELSE c.heard
              /\ d.reading = open /\ d.pong = c.pong /\ d.awake = c.awake
  <1> DEFINE h == IF open /\ ~c.reading THEN 0 ELSE c.heard
             d == [c EXCEPT !.reading = open, !.heard = h]
  <1>f. c \in Channels /\ c.heard \in Nat
    BY ChannelFields
  <1>1. SetReadGate(c, open) = d
    BY DEF SetReadGate
  <1>2. h \in Nat
    BY <1>f
  <1> HIDE DEF h
  <1>3. d \in Channels
    BY <1>2, <1>f, Zenon DEF Channels
  <1>4. /\ d.why = c.why /\ d.sealer = c.sealer /\ d.opener = c.opener /\ d.out = c.out
        /\ d.in = c.in /\ d.acked = c.acked /\ d.heard = h /\ d.sent = c.sent
        /\ d.epoch = c.epoch /\ d.ack = c.ack
    BY <1>f DEF Channels
  <1>5. d.reading = open /\ d.pong = c.pong /\ d.awake = c.awake
    BY <1>f, Zenon DEF Channels
  <1> HIDE DEF d
  <1>6. ChannelOK(d)
    BY <1>3, <1>4 DEF ChannelOK, AckOwed
  <1> QED BY <1>1, <1>4, <1>5, <1>6, Zenon DEF h

LEMMA GateKeeps ==
    ASSUME ChanInv, NEW open \in BOOLEAN, Up("client"),
           ch' = [ch EXCEPT !["client"] = SetReadGate(@, open)],
           ~open \/ ~ch["client"].reading,
           wire' = wire, old' = old, cut' = cut,
           load' \in [agent : Nat, client : Nat, stalls : Nat],
           load'.agent = load.agent, load'.client = load.client
    PROVE  ChanInv'
  <1> DEFINE e == "client"
             p == Other(e)
             c == ch[e]
             d == SetReadGate(c, open)
  <1>e. e \in Ends /\ p = "agent"
    BY Zenon DEF Ends, Other
  <1>t. /\ p \in Ends /\ p # e /\ EndInv(e) /\ ChannelOK(c) /\ ch \in [Ends -> Channels]
        /\ Len(c.out.log) + load[e] <= OffsetMax
    BY <1>e, EndFacts, Zenon
  <1>3. ch' = [ch EXCEPT ![e] = d] /\ Up(e) /\ (~open \/ ~c.reading)
    BY <1>t, Zenon
  <1>4. load'[e] = load[e] /\ load'[p] = load[p]
    BY <1>e, Zenon
  <1> HIDE DEF e
  <1>15. ch'[e] = d /\ ch'[p] = ch[p]
    BY <1>3, <1>e, <1>t, Zenon
  <1> HIDE DEF c
  <1>8. /\ ChannelOK(d) /\ d.why = c.why /\ d.sealer = c.sealer /\ d.opener = c.opener
        /\ d.out = c.out /\ d.in = c.in /\ d.acked = c.acked /\ d.sent = c.sent
        /\ d.epoch = c.epoch /\ d.ack = c.ack
        /\ d.heard = IF open /\ ~c.reading THEN 0 ELSE c.heard
    BY <1>t, GateOK
  <1>9. d.reading = open /\ d.pong = c.pong /\ d.awake = c.awake
    BY <1>t, GateOK, SMTT(30)
  <1>10. c.sent \in Nat /\ ch[p].sent \in Nat
    BY <1>t, EndFacts, ChannelFields, Zenon
  <1> HIDE DEF d
  <1>16. KeysFresh(e)'
    BY <1>8, <1>15, <1>t, Zenon DEF EndInv, KeysFresh, Fresh, SendGate, Up, c
  <1>17. HeardInTime(e)'
    <2> SUFFICES ASSUME open
                 PROVE  HeardInTime(e)'
      BY <1>9, <1>15, Zenon DEF HeardInTime
    <2>1. d.heard = 0
      BY <1>3, <1>8
    <2>2. 0 <= Silence /\ 0 <= Keepalive + 1 /\ 0 <= Keepalive
      BY TimesAssumption
    <2>3. 0 <= ch[p].sent
      BY <1>10
    <2>5. ch'[p] = ch[p]
      BY <1>15, Zenon
    <2>4. ch'[e].heard = 0
      BY <1>15, <2>1, Zenon
    <2> QED BY <2>2, <2>3, <2>4, <2>5, Zenon DEF HeardInTime, p
  <1>18. RestsIdle(e)'
    BY <1>3, <1>8, <1>9, <1>15, <1>t, Zenon
       DEF EndInv, RestsIdle, AtRest, Rested, SendGate, Up, AckOwed, c
  <1>19. d.why = "up" /\ KeysMove(c.sealer, d.sealer)
    BY <1>3, <1>8 DEF Up, KeysMove, c
  <1> QED BY <1>3, <1>4, <1>8, <1>16, <1>17, <1>18, <1>19, <1>e, <1>t, LocalKeeps, Zenon DEF c, p

LEMMA StallKeeps ==
    ASSUME ChanInv, Stall \/ Unstall
    PROVE  ChanInv'
  <1>t. load \in [agent : Nat, client : Nat, stalls : Nat]
    BY DEF ChanInv, ChanTypeOK
  <1>1. CASE Stall
    <2> DEFINE n == load.stalls - 1
    <2>1. /\ Up("client") /\ load.stalls > 0 /\ wire' = wire /\ old' = old /\ cut' = cut
          /\ ch' = [ch EXCEPT !["client"] = SetReadGate(@, FALSE)]
          /\ load' = [load EXCEPT !.stalls = n]
      BY <1>1 DEF Stall
    <2>2. n \in Nat
      BY <1>t, <2>1
    <2> HIDE DEF n
    <2>3. /\ load' \in [agent : Nat, client : Nat, stalls : Nat]
          /\ load'.agent = load.agent /\ load'.client = load.client
      BY <1>t, <2>1, <2>2
    <2> QED BY <2>1, <2>3, GateKeeps, Zenon
  <1>2. CASE Unstall
    <2>1. /\ Up("client") /\ ~ch["client"].reading /\ wire' = wire /\ old' = old /\ cut' = cut
          /\ ch' = [ch EXCEPT !["client"] = SetReadGate(@, TRUE)]
          /\ load' = load
      BY <1>2 DEF Unstall
    <2> QED BY <1>t, <2>1, GateKeeps, Zenon
  <1> QED BY <1>1, <1>2, Zenon

(***************************************************************************)
(* A Poll that finds nothing to send: the loop sleeps, perhaps under a new *)
(* key, and the timer of a bare Ack runs when one is owed.                 *)
(***************************************************************************)
LEMMA IdleKeeps ==
    ASSUME ChanInv, NEW e \in Ends, Up(e), SendGate(e), NEW k, Rekeyed(ch[e], k),
           k.reading = ch[e].reading, Chosen(k) = <<>>, ch' = [ch EXCEPT ![e] = Idle(k)],
           wire' = wire, old' = old, cut' = cut, load' = load
    PROVE  ChanInv'
  <1> DEFINE c == ch[e]
             d == Idle(k)
  <1>t. /\ Other(e) \in Ends /\ EndInv(e) /\ ch \in [Ends -> Channels] /\ ChannelOK(c)
        /\ load \in [agent : Nat, client : Nat, stalls : Nat]
        /\ Len(c.out.log) + load[e] <= OffsetMax
    BY EndFacts, Zenon
  <1>1. ch'[e] = d
    BY <1>t, Zenon
  <1> HIDE DEF c
  <1>2. ChannelOK(k) /\ NothingDue(k)
    BY ChosenFits, Zenon DEF Rekeyed
  <1>3. Idled(k, d) /\ d.reading = k.reading /\ d.pong = k.pong
    BY <1>2, IdleOK
  <1> HIDE DEF d
  <1>4. /\ ChannelOK(d) /\ d.why = c.why /\ d.opener = c.opener /\ d.out = c.out
        /\ d.in = c.in /\ d.acked = c.acked /\ d.sent = c.sent /\ d.heard = c.heard
        /\ d.sealer = k.sealer /\ d.epoch = k.epoch /\ c.sent = k.sent
    BY <1>3, Zenon DEF Idled, Rekeyed, c
  <1>5. d.why = "up" /\ KeysMove(c.sealer, d.sealer)
    BY <1>4 DEF Up, KeysMove, Rekeyed, c
  <1>6. c.sent \in Nat /\ c.sent < Keepalive /\ Keepalive \in Nat
    BY <1>2, <1>4, <1>t, ChannelFields, TimesAssumption, Zenon DEF NothingDue
  <1>7. KeysFresh(e)'
    <2> SUFFICES ASSUME d.sealer.counter = 0 PROVE d.epoch <= d.sent /\ d.sent <= Keepalive
      BY <1>1 DEF KeysFresh, Fresh, SendGate
    <2>1. CASE d.sealer = c.sealer /\ d.epoch = c.epoch
      BY <1>4, <1>t, <2>1, Zenon DEF EndInv, KeysFresh, Fresh, c
    <2>2. CASE d.epoch = 0
      BY <1>4, <1>6, <2>2
    <2> QED BY <1>4, <2>1, <2>2, Zenon DEF Rekeyed, c
  <1>8. HeardInTime(e)'
    BY <1>1, <1>3, <1>4, <1>t, TwoEnds, Zenon DEF EndInv, HeardInTime, Up, c
  <1>9. Rested(d)
    <2>1. Unsent(d.out) = 0 /\ ~d.pong /\ d.sent <= Keepalive
      BY <1>2, <1>3, <1>4, <1>6, Order, Zenon DEF NothingDue, Idled
    <2>2. /\ k.ack \in Nat \cup {Never} /\ (k.ack # Never => AckOwed(k))
          /\ AckDelay \in Nat /\ (AckOwed(k) => k.ack < AckDelay)
          /\ d.ack = IF AckOwed(k) /\ k.ack = Never THEN 0 ELSE k.ack
      BY <1>2, <1>3, ChannelFields, TimesAssumption, Zenon DEF ChannelOK, NothingDue, Idled
    <2>3. AckOwed(d) <=> AckOwed(k)
      BY <1>3, Zenon DEF Idled, AckOwed
    <2>4. d.ack <= AckDelay /\ (AckOwed(d) => d.ack # Never)
      BY <2>2, <2>3, AckTimes, Zenon
    <2> QED BY <2>1, <2>4, Zenon DEF Rested
  <1>10. RestsIdle(e)'
    BY <1>1, <1>9, Zenon DEF RestsIdle
  <1> QED BY <1>4, <1>5, <1>7, <1>8, <1>10, <1>t, LocalKeeps, Zenon DEF c, d

(***************************************************************************)
(* A Poll that sends: the peer can open the frame and take what it says.   *)
(***************************************************************************)
Sends(e, k, m, t, f) ==
    /\ ch' = [ch EXCEPT ![e] = Said(k, m, t)]
    /\ wire' = IF Up(Other(e)) \/ cut
               THEN [wire EXCEPT ![Other(e)] = Append(@, f)] ELSE wire
    /\ old' = old /\ cut' = cut /\ load' = load

LEMMA SendKeeps ==
    ASSUME ChanInv, NEW e \in Ends, Up(e), NEW k, Rekeyed(ch[e], k),
           k.reading = ch[e].reading, NEW m, Fits(k, m), NEW t, SealerOK(t),
           t.epoch = k.sealer.epoch, t.counter = k.sealer.counter + 1,
           NEW f, FrameOK(f), f.epoch = k.sealer.epoch, f.nonce = k.sealer.counter,
           f.plain = m, Sends(e, k, m, t, f)
    PROVE  ChanInv'
  <1> DEFINE p == Other(e)
             c == ch[e]
             d == Said(k, m, t)
  <1>t. p \in Ends /\ p # e /\ Other(p) = e
    BY TwoEnds, Zenon
  <1>e. EndInv(e) /\ EndInv(p) /\ ChannelOK(c) /\ ChannelOK(ch[p])
    BY EndFacts, Zenon
  <1>w. /\ wire[e] \in Seq(SealedFrames) /\ wire[p] \in Seq(SealedFrames)
        /\ old[e] <= Len(wire[e]) /\ old[p] <= Len(wire[p]) /\ old[p] \in Nat
    BY EndFacts, Zenon
  <1>s. /\ Len(c.out.log) + load[e] <= OffsetMax
        /\ Len(ch[p].out.log) + load[p] <= OffsetMax
    BY EndFacts, Zenon
  <1>u. /\ wire \in [Ends -> Seq(SealedFrames)] /\ old \in [Ends -> Nat]
        /\ cut \in BOOLEAN /\ ch \in [Ends -> Channels]
        /\ load \in [agent : Nat, client : Nat, stalls : Nat]
    BY EndFacts, Zenon
  <1>v. old' = old /\ cut' = cut /\ load' = load
    BY Zenon DEF Sends
  <1>1. ch'[e] = d /\ ch'[p] = ch[p] /\ ch' = [ch EXCEPT ![e] = d]
    BY <1>t, <1>u, Zenon DEF Sends
  <1>2. /\ wire'[e] = wire[e]
        /\ wire'[p] = IF Up(p) \/ cut THEN Append(wire[p], f) ELSE wire[p]
        /\ f \in SealedFrames /\ wire' \in [Ends -> Seq(SealedFrames)]
    <2>1. f \in SealedFrames
      BY Zenon DEF FrameOK
    <2>2. Append(wire[p], f) \in Seq(SealedFrames)
      BY <1>w, <2>1, AppendProperties, Zenon
    <2> QED BY <1>t, <1>u, <2>1, <2>2, Zenon DEF Sends
  <1>k. ChannelOK(k)
    BY Zenon DEF Rekeyed
  <1>3. Spoke(k, m, t, d) /\ d.reading = k.reading
    BY <1>k, SentOK, Zenon
  <1>4. d.awake
    BY <1>k, SentOK, Zenon
  <1> HIDE DEF c, d, p
  <1>5. /\ ChannelOK(d) /\ d.why = c.why /\ d.opener = c.opener /\ d.in = c.in
        /\ d.out.log = c.out.log /\ d.out.base = c.out.base
        /\ d.out.next = (IF IsData(m) THEN c.out.next + 1 ELSE c.out.next)
        /\ d.acked = (IF HasAck(m) THEN m.ack ELSE c.acked)
        /\ d.heard = c.heard /\ d.sealer = t
    BY <1>3, Zenon DEF Spoke, Rekeyed, c
  <1>6. d.reading = c.reading
    BY <1>3, Zenon DEF c
  <1>7. /\ c.out.next \in Nat /\ d.out.next \in Nat /\ c.out.next <= d.out.next
        /\ c.out.base \in Nat /\ ch[p].out.base \in Nat /\ ch[p].out.next \in Nat
        /\ k.sealer.counter \in Nat
    <2>1. c.out.next \in Nat /\ c.out.base \in Nat
      BY <1>e, ChannelFields, Zenon
    <2>2. ch[p].out.next \in Nat /\ ch[p].out.base \in Nat
      BY <1>e, ChannelFields, Zenon
    <2>3. k.sealer.counter \in Nat
      BY ChannelFields, Zenon DEF Rekeyed, Sealers
    <2>4. d.out.next \in Nat /\ c.out.next <= d.out.next
      <3>1. CASE IsData(m)
        <4>1. d.out.next = c.out.next + 1
          BY <1>5, <3>1, Zenon
        <4> QED BY <2>1, <4>1, Succ, Zenon
      <3>2. CASE ~IsData(m)
        <4>1. d.out.next = c.out.next
          BY <1>5, <3>2, Zenon
        <4> QED BY <2>1, <4>1, Refl, Zenon
      <3> QED BY <3>1, <3>2, Zenon
    <2> QED BY <2>1, <2>2, <2>3, <2>4, Zenon
  <1>8. Up(e)' /\ (Up(p)' <=> Up(p)) /\ c.why = "up"
    BY <1>1, <1>5, Zenon DEF Up, c
  <1>9. ChanTypeOK'
    <2>1. d \in Channels
      BY <1>5, Zenon DEF ChannelOK
    <2>2. ch' \in [Ends -> Channels]
      BY <1>1, <1>u, <2>1, Zenon
    <2>3. old'[e] <= Len(wire'[e]) /\ old'[p] <= Len(wire'[p])
      <3>1. Len(Append(wire[p], f)) = Len(wire[p]) + 1 /\ Len(wire[p]) \in Nat
        BY <1>2, <1>w, AppendProperties, Zenon DEF FrameOK
      <3>2. Len(wire[p]) <= Len(wire'[p]) /\ Len(wire'[p]) \in Nat
        <4>1. CASE wire'[p] = Append(wire[p], f)
          BY <3>1, <4>1, Succ, Zenon
        <4>2. CASE wire'[p] = wire[p]
          BY <3>1, <4>2, Refl, Zenon
        <4> QED BY <1>2, <4>1, <4>2, Zenon
      <3>3. old[p] <= Len(wire'[p])
        BY <1>w, <3>1, <3>2, Trans, Zenon
      <3> QED BY <1>2, <1>v, <1>w, <3>3, Zenon
    <2>4. Len(ch'[e].out.log) + load'[e] <= OffsetMax
      BY <1>1, <1>5, <1>s, <1>v, Zenon
    <2>5. ChannelOK(ch'[e]) /\ ChannelOK(ch'[p])
      BY <1>1, <1>5, <1>e, Zenon
    <2>6. Len(ch'[p].out.log) + load'[p] <= OffsetMax
      BY <1>1, <1>s, <1>v, Zenon
    <2>7. /\ wire' \in [Ends -> Seq(SealedFrames)] /\ old' \in [Ends -> Nat]
          /\ cut' \in BOOLEAN /\ load' \in [agent : Nat, client : Nat, stalls : Nat]
      BY <1>2, <1>u, <1>v, Zenon
    <2> QED BY <2>2, <2>3, <2>4, <2>5, <2>6, <2>7, TypeKept, Zenon DEF p
  <1>10. EndInv(e)'
    <2>1. EndsWell(e)'
      BY <1>1, <1>5, <1>8, Zenon DEF EndsWell
    <2>2. KeysFresh(e)'
      <3>1. t.counter # 0
        BY <1>7, NotZero, Zenon
      <3> QED BY <1>1, <1>5, <3>1, Zenon DEF KeysFresh, Fresh
    <2>3. StreamAgrees(e)'
      <3> SUFFICES ASSUME ~cut PROVE Inbound(wire'[e], ch'[e], ch'[p])
        BY <1>v, Zenon DEF StreamAgrees, p
      <3>1. Inbound(wire[e], c, ch[p])
        BY <1>e, Zenon DEF EndInv, StreamAgrees, p, c
      <3>2. Inbound(wire[e], d, ch[p])
        BY <1>5, <1>7, <1>w, <3>1, InboundSame, Zenon
      <3> QED BY <1>1, <1>2, <3>2, Zenon
    <2>4. HeardInTime(e)'
      BY <1>1, <1>2, <1>5, <1>6, <1>8, <1>e, <1>v, Zenon DEF EndInv, HeardInTime, c, p
    <2>5. RestsIdle(e)'
      BY <1>1, <1>4, Zenon DEF RestsIdle, AtRest
    <2>6. AcksArrive(e)'
      <3> SUFFICES ASSUME Up(p) PROVE UnderWay(d.acked, ch[p].out.base, Append(wire[p], f))
        BY <1>1, <1>2, <1>8, Zenon DEF AcksArrive, p
      <3>1. UnderWay(c.acked, ch[p].out.base, wire[p])
        BY <1>e, Zenon DEF EndInv, AcksArrive, p, c
      <3> QED BY <1>2, <1>5, <1>7, <1>w, <3>1, UnderWayPushes, Zenon
    <2> QED BY <2>1, <2>2, <2>3, <2>4, <2>5, <2>6, Zenon DEF EndInv
  <1>11. EndInv(p)'
    <2>1. Woken(ch[p], ch'[p])
      BY <1>1, <1>e, Zenon DEF Woken
    <2>2. SendGate(p)' <=> SendGate(p)
      BY <1>2, <1>t, Zenon DEF SendGate
    <2>3. AtRest(p)' => AtRest(p)
      BY <1>1, <2>2, Zenon DEF AtRest, Up
    <2>4. EndsWell(p)' /\ KeysFresh(p)' /\ RestsIdle(p)'
      BY <1>e, <1>t, <1>v, <2>1, <2>2, <2>3, Unmoved, Zenon
    <2>5. StreamAgrees(p)'
      <3> SUFFICES ASSUME Up(p), ~cut PROVE Inbound(Append(wire[p], f), ch[p], d)
        BY <1>1, <1>2, <1>8, <1>t, <1>v, Zenon DEF StreamAgrees
      <3>1. Inbound(wire[p], ch[p], c)
        BY <1>e, <1>t, Zenon DEF EndInv, StreamAgrees, c
      <3>2. Inbound(wire[e], c, ch[p]) /\ ch[p].why = "up"
        BY <1>e, Zenon DEF EndInv, StreamAgrees, c, p, Up
      <3>3. c.in.recv <= ch[p].out.next
        BY <3>2, Zenon DEF Inbound
      <3>4. Len(c.out.log) <= OffsetMax
        <4>1. load[e] \in Nat
          BY <1>u, Zenon DEF Ends
        <4>2. Len(c.out.log) \in Nat /\ OffsetMax \in Nat
          BY <1>e, ChannelFields, ElementOf, OffsetMaxAssumption, Zenon
        <4> QED BY <1>s, <4>1, <4>2, Order, Zenon
      <3> QED BY <1>3, <1>8, <1>e, <1>w, <3>1, <3>3, <3>4, InboundPushes, Zenon DEF c
    <2>6. HeardInTime(p)'
      <3>1. Up(p) => wire'[p] # <<>>
        BY <1>2, <1>w, AppendProperties, Zenon DEF FrameOK
      <3> QED BY <1>1, <1>8, <1>e, <1>t, <1>v, <3>1, Zenon DEF EndInv, HeardInTime
    <2>7. AcksArrive(p)'
      BY <1>1, <1>2, <1>5, <1>8, <1>e, <1>t, Zenon DEF EndInv, AcksArrive, c
    <2> QED BY <2>4, <2>5, <2>6, <2>7, Zenon DEF EndInv
  <1> QED BY <1>9, <1>10, <1>11, InvKept, Zenon DEF p

(***************************************************************************)
(* One Poll.  On a working path it never finds the peer silent.            *)
(***************************************************************************)
LEMMA PollKeeps ==
    ASSUME ChanInv, NEW e \in Ends, Poll(e)
    PROVE  ChanInv'
  <1> DEFINE c == ch[e]
             k == RekeyIfNeeded(c)
             m == Chosen(k.chan)
             z == SizeOf(m[1])
             s == Seal(k.chan.sealer, m[1], z)
  <1>t. /\ EndInv(e) /\ ch \in [Ends -> Channels] /\ ChannelOK(c) /\ Keepalive \in Nat
        /\ load \in [agent : Nat, client : Nat, stalls : Nat] /\ Silence \in Nat
        /\ Len(c.out.log) + load[e] <= OffsetMax
    BY EndFacts, Zenon
  <1>0. Up(e) /\ cut' = cut /\ load' = load
    BY Zenon DEF Poll
  <1>f. Fresh(c)
    BY <1>0, <1>t, Zenon DEF EndInv, KeysFresh
  <1>1. CASE PeerSilent(c)
    <2>1. Hang(e, "PeerSilent")
      BY <1>1 DEF Poll
    <2>2. c.heard \in Nat /\ Keepalive + 1 < Silence
      BY <1>t, ChannelFields, TimesAssumption, Zenon
    <2>3. cut
      BY <1>0, <1>1, <1>t, <2>2 DEF PeerSilent, EndInv, HeardInTime
    <2> QED BY <1>0, <2>1, <2>3, HangKeeps
  <1>2. CASE ~PeerSilent(c) /\ ~SendGate(e)
    <2> DEFINE d == [c EXCEPT !.awake = FALSE]
    <2>1. ch' = [ch EXCEPT ![e].awake = FALSE] /\ wire' = wire /\ old' = old
      BY <1>2 DEF Poll
    <2>2. ch' = [ch EXCEPT ![e] = d]
      BY <2>1
    <2>3. ch'[e] = d
      BY <1>t, <2>2
    <2> HIDE DEF c
    <2>4. Woken(c, d) /\ ~d.awake
      BY <1>t, WakeOK, Zenon
    <2> HIDE DEF d
    <2>5. d.why = "up" /\ KeysMove(c.sealer, d.sealer)
      BY <1>0, <2>4, Zenon DEF Woken, KeysMove, Up, c
    <2>6. KeysFresh(e)'
      BY <1>0, <1>2, <1>t, <2>1, <2>3, <2>4, Zenon DEF EndInv, KeysFresh, Fresh, Woken, SendGate, Up, c
    <2>7. HeardInTime(e)'
      BY <1>0, <1>t, <2>1, <2>2, <2>3, <2>4, TwoEnds, Zenon DEF EndInv, HeardInTime, Woken, Up, c
    <2>8. RestsIdle(e)'
      BY <1>2, <2>1, Zenon DEF RestsIdle, AtRest, SendGate
    <2> QED BY <1>0, <1>t, <2>1, <2>2, <2>4, <2>5, <2>6, <2>7, <2>8, LocalKeeps, Zenon DEF Woken, c
  <1>3. CASE ~PeerSilent(c) /\ SendGate(e) /\ k.err # "ok"
    <2>1. Hang(e, k.err)
      BY <1>3, Zenon DEF Poll
    <2>2. k.err = "EpochsExhausted"
      BY <1>3, <1>f, <1>t, RekeyOK
    <2> QED BY <1>0, <2>1, <2>2, HangKeeps, Zenon
  <1>4. CASE ~PeerSilent(c) /\ SendGate(e) /\ k.err = "ok"
    <2> DEFINE h == k.chan
    <2>1. Rekeyed(c, h) /\ h.reading = c.reading
      BY <1>4, <1>f, <1>t, RekeyOK, Zenon
    <2>2. ChannelOK(h) /\ h.sealer.counter < FrameLimit /\ SealerOK(h.sealer)
      BY <2>1, Zenon DEF Rekeyed, ChannelOK
    <2>3. CASE m = <<>>
      <3>1. ch' = [ch EXCEPT ![e] = Idle(h)] /\ wire' = wire /\ old' = old
        BY <1>4, <2>3, Zenon DEF Poll
      <3> HIDE DEF k
      <3> QED BY <1>0, <1>4, <2>1, <2>3, <3>1, IdleKeeps, Zenon
    <2>4. CASE m # <<>>
      <3>1. Fits(h, m[1]) /\ m[1] \in Messages
        BY <2>2, <2>4, ChosenFits, Zenon
      <3>2. z \in Nat
        BY <3>1, SizeNat, Zenon
      <3>3. /\ s.err = "ok" /\ SealerOK(s.sealer) /\ s.sealer.epoch = h.sealer.epoch
            /\ s.sealer.counter = h.sealer.counter + 1 /\ FrameOK(s.frame)
            /\ s.frame.epoch = h.sealer.epoch /\ s.frame.nonce = h.sealer.counter
            /\ s.frame.plain = m[1]
        <4> HIDE DEF z, m, k
        <4>1. Sealed(h.sealer, m[1], s)
          BY <2>2, <3>1, <3>2, SealCounts, Zenon
        <4> HIDE DEF s
        <4> QED BY <4>1, Zenon DEF Sealed
      <3>4. /\ ch' = [ch EXCEPT ![e] = Said(h, m[1], s.sealer)]
            /\ wire' = IF Up(Other(e)) \/ cut
                       THEN [wire EXCEPT ![Other(e)] = Append(@, s.frame)] ELSE wire
            /\ old' = old
        BY <1>4, <2>4, <3>3, Zenon DEF Poll, Said
      <3> HIDE DEF s, m, k
      <3>5. Sends(e, h, m[1], s.sealer, s.frame)
        BY <1>0, <3>4 DEF Sends
      <3> HIDE DEF h
      <3> QED BY <1>0, <2>1, <3>1, <3>3, <3>5, SendKeeps, Zenon
    <2> QED BY <2>3, <2>4, Zenon
  <1> QED BY <1>1, <1>2, <1>3, <1>4, Zenon

LEMMA SeeClosedKeeps ==
    ASSUME ChanInv, NEW e \in Ends, SeeClosed(e)
    PROVE  ChanInv'
  BY HangKeeps DEF SeeClosed

LEMMA CutKeeps ==
    ASSUME ChanInv, Cut
    PROVE  ChanInv'
  <1>1. ch' = ch /\ wire' = wire /\ old' = old /\ load' = load /\ cut' = TRUE /\ ~cut
    BY Zenon DEF Cut
  <1>2. ChanTypeOK'
    BY <1>1 DEF ChanInv, ChanTypeOK
  <1>3. ASSUME NEW e \in Ends
        PROVE  EndInv(e)'
    <2>1. EndInv(e)
      BY DEF ChanInv
    <2>2. KeysFresh(e)' /\ RestsIdle(e)' /\ AcksArrive(e)'
      BY <1>1, <2>1, Zenon DEF EndInv, KeysFresh, RestsIdle, AcksArrive, AtRest, Up, SendGate
    <2>3. EndsWell(e)' /\ StreamAgrees(e)'
      BY <1>1, Zenon DEF EndsWell, StreamAgrees
    <2>4. HeardInTime(e)'
      BY <1>1, <2>1, Zenon DEF EndInv, HeardInTime, Up
    <2> QED BY <2>2, <2>3, <2>4 DEF EndInv
  <1> QED BY <1>2, <1>3 DEF ChanInv

(***************************************************************************)
(* A tick ages the four timers of a channel and nothing else.              *)
(***************************************************************************)
LEMMA OlderOK ==
    ASSUME NEW c, ChannelOK(c)
    PROVE  /\ ChannelOK(Older(c)) /\ Older(c).why = c.why
           /\ Older(c).sealer = c.sealer /\ Older(c).opener = c.opener
           /\ Older(c).out = c.out /\ Older(c).in = c.in /\ Older(c).acked = c.acked
           /\ Older(c).heard = Aged(c.heard, Silence)
           /\ Older(c).sent = Aged(c.sent, Keepalive)
           /\ Older(c).epoch = Aged(c.epoch, RekeyInterval)
           /\ Older(c).ack = (IF c.ack = Never THEN Never ELSE Aged(c.ack, AckDelay))
           /\ Older(c).reading = c.reading /\ Older(c).pong = c.pong
           /\ Older(c).awake = c.awake
  <1> DEFINE h == Aged(c.heard, Silence)
             s == Aged(c.sent, Keepalive)
             n == Aged(c.epoch, RekeyInterval)
             a == IF c.ack = Never THEN Never ELSE Aged(c.ack, AckDelay)
             d == [c EXCEPT !.heard = h, !.sent = s, !.epoch = n, !.ack = a]
  <1>f. /\ c \in Channels /\ c.heard \in Nat /\ c.sent \in Nat /\ c.epoch \in Nat
        /\ c.ack \in Nat \cup {Never}
    BY ChannelFields
  <1>1. Older(c) = d
    BY Zenon DEF Older
  <1>2. h \in Nat /\ s \in Nat /\ n \in Nat
    BY <1>f, TimesAssumption DEF Aged
  <1>3. a \in Nat \cup {Never} /\ (a # Never => c.ack # Never)
    BY <1>f, TimesAssumption DEF Aged, Never
  <1> HIDE DEF h, s, n, a
  <1>4. d \in Channels
    BY <1>2, <1>3, <1>f, Zenon DEF Channels
  <1>5. /\ d.why = c.why /\ d.sealer = c.sealer /\ d.opener = c.opener /\ d.out = c.out
        /\ d.in = c.in /\ d.acked = c.acked /\ d.heard = h /\ d.sent = s
        /\ d.epoch = n /\ d.ack = a
    BY <1>f DEF Channels
  <1>6. d.reading = c.reading /\ d.pong = c.pong /\ d.awake = c.awake
    BY <1>f, Zenon DEF Channels
  <1> HIDE DEF d
  <1>7. ChannelOK(d)
    BY <1>3, <1>4, <1>5, Zenon DEF ChannelOK, AckOwed
  <1> QED BY <1>1, <1>5, <1>6, <1>7, Zenon DEF h, s, n, a

(* The same, of the channel d a tick makes of c.                           *)
Aging(c, d) ==
    /\ ChannelOK(d) /\ d.why = c.why /\ d.sealer = c.sealer /\ d.opener = c.opener
    /\ d.out = c.out /\ d.in = c.in /\ d.acked = c.acked
    /\ d.sent = Aged(c.sent, Keepalive)

LEMMA OlderAges ==
    ASSUME NEW c, ChannelOK(c)
    PROVE  Aging(c, Older(c))
  BY OlderOK, Zenon DEF Aging

(***************************************************************************)
(* An end with no deadline due has time left on each timer that counts.    *)
(***************************************************************************)
LEMMA NotDue ==
    ASSUME NEW e \in Ends, ChannelOK(ch[e]), ~Due(e)
    PROVE  /\ ch[e].reading => ch[e].heard < Silence
           /\ SendGate(e) => /\ ch[e].epoch < RekeyInterval /\ ch[e].sent < Keepalive
                             /\ ch[e].ack # Never => ch[e].ack < AckDelay
  <1>f. /\ ch[e].heard \in Nat /\ ch[e].sent \in Nat /\ ch[e].epoch \in Nat
        /\ ch[e].ack \in Nat \cup {Never}
    BY ChannelFields, Zenon
  <1>1. ASSUME ch[e].reading
        PROVE  ch[e].heard < Silence
    <2>1. Silence - ch[e].heard \in NextDeadline(e)
      BY <1>1, Zenon DEF NextDeadline
    <2>2. ~(Silence - ch[e].heard <= 0)
      BY <2>1, Zenon DEF Due
    <2> QED BY <1>f, <2>2, TimesAssumption
  <1>2. ASSUME SendGate(e)
        PROVE  /\ ch[e].epoch < RekeyInterval /\ ch[e].sent < Keepalive
               /\ ch[e].ack # Never => ch[e].ack < AckDelay
    <2>1. RekeyInterval - ch[e].epoch \in NextDeadline(e)
      BY <1>2, Zenon DEF NextDeadline
    <2>2. Keepalive - ch[e].sent \in NextDeadline(e)
      BY <1>2, Zenon DEF NextDeadline
    <2>3. ch[e].ack # Never => AckDelay - ch[e].ack \in NextDeadline(e)
      BY <1>2, Zenon DEF NextDeadline
    <2>4. /\ ~(RekeyInterval - ch[e].epoch <= 0) /\ ~(Keepalive - ch[e].sent <= 0)
          /\ ch[e].ack # Never => ~(AckDelay - ch[e].ack <= 0)
      BY <2>1, <2>2, <2>3, Zenon DEF Due
    <2> QED BY <1>f, <2>4, TimesAssumption DEF Never
  <1> QED BY <1>1, <1>2, Zenon

(***************************************************************************)
(* Time passes.  On a working path a frame under way for a tick has been   *)
(* taken, so a reader has heard what its peer sent, and the peer, with     *)
(* nothing under way, was in time for its keepalive.                       *)
(***************************************************************************)
LEMMA TickKeeps ==
    ASSUME ChanInv, Tick
    PROVE  ChanInv'
  <1>1. /\ \A e \in Ends : Up(e) => ~ch[e].awake /\ ~Due(e)
        /\ \A e \in Ends : Up(e) /\ ch[e].reading /\ ~cut => old[e] = 0 /\ Up(Other(e))
        /\ ch' = [e \in Ends |-> IF Up(e) THEN Older(ch[e]) ELSE ch[e]]
        /\ old' = [e \in Ends |-> IF cut THEN 0 ELSE Len(wire[e])]
        /\ wire' = wire /\ cut' = cut /\ load' = load
    BY Zenon DEF Tick
  <1>2. ASSUME NEW e \in Ends
        PROVE  /\ ch'[e] = (IF Up(e) THEN Older(ch[e]) ELSE ch[e]) /\ ChannelOK(ch'[e])
               /\ ch'[e].why = ch[e].why /\ ch'[e].sealer = ch[e].sealer
               /\ ch'[e].opener = ch[e].opener /\ ch'[e].out = ch[e].out
               /\ ch'[e].in = ch[e].in /\ ch'[e].acked = ch[e].acked
    <2>1. ch'[e] = (IF Up(e) THEN Older(ch[e]) ELSE ch[e])
      BY <1>1, Zenon
    <2>2. ChannelOK(ch[e])
      BY EndFacts, Zenon
    <2>3. CASE Up(e)
      <3>1. ch'[e] = Older(ch[e])
        BY <2>1, <2>3
      <3>2. Aging(ch[e], ch'[e])
        BY <2>2, <3>1, OlderAges, Zenon
      <3> QED BY <2>1, <3>2, Zenon DEF Aging
    <2>4. CASE ~Up(e)
      BY <2>1, <2>2, <2>4, Zenon
    <2> QED BY <2>3, <2>4
  <1>3. ChanTypeOK'
    <2>1. ch' \in [Ends -> Channels]
      <3>1. \A e \in Ends : ch'[e] \in Channels
        BY <1>2, Zenon DEF ChannelOK
      <3> QED BY <1>1, <3>1
    <2>2. \A e \in Ends : Len(wire[e]) \in Nat
      BY EndFacts, Zenon
    <2>3. old' \in [Ends -> Nat] /\ \A e \in Ends : old'[e] <= Len(wire'[e])
      BY <1>1, <2>2
    <2> QED BY <1>1, <1>2, <2>1, <2>3, Zenon DEF ChanInv, ChanTypeOK
  <1>4. ASSUME NEW e \in Ends
        PROVE  EndInv(e)'
    <2> DEFINE p == Other(e)
               c == ch[e]
               d == ch'[e]
    <2>t. /\ p \in Ends /\ p # e /\ Other(p) = e /\ EndInv(e) /\ ChannelOK(c) /\ ChannelOK(ch[p])
          /\ wire[e] \in Seq(SealedFrames) /\ old[e] \in Nat
          /\ Keepalive \in Nat /\ Silence \in Nat /\ AckDelay \in Nat /\ QueueMax \in Nat
      BY EndFacts, Zenon
    <2>f. /\ c.heard \in Nat /\ c.sent \in Nat /\ c.epoch \in Nat
          /\ c.ack \in Nat \cup {Never} /\ c.out.next \in Nat
      BY <2>t, ChannelFields, Zenon
    <2>g. ch[p].sent \in Nat
      BY <2>t, ChannelFields, Zenon
    <2>1. (Up(e)' <=> Up(e)) /\ (Up(p)' <=> Up(p))
      BY <1>2, <2>t, Zenon DEF Up
    <2>2. SendGate(e)' <=> SendGate(e)
      BY <1>1 DEF SendGate
    <2> HIDE DEF p
    <2>3. EndsWell(e)'
      BY <1>1, <1>2, <2>t, Zenon DEF EndInv, EndsWell
    <2>4. CASE ~Up(e)
      BY <2>1, <2>3, <2>4, Zenon
         DEF EndInv, KeysFresh, StreamAgrees, HeardInTime, RestsIdle, AtRest, AcksArrive
    <2>5. CASE Up(e)
      <3>1. /\ d.heard = Aged(c.heard, Silence) /\ d.sent = Aged(c.sent, Keepalive)
            /\ d.epoch = Aged(c.epoch, RekeyInterval)
            /\ d.ack = (IF c.ack = Never THEN Never ELSE Aged(c.ack, AckDelay))
        <4>1. d = Older(c)
          BY <1>2, <2>5, Zenon
        <4> HIDE DEF d, c
        <4> QED BY <2>t, <4>1, OlderOK, Zenon
      <3>2. d.reading = c.reading /\ d.pong = c.pong /\ d.awake = c.awake
        <4>1. d = Older(c)
          BY <1>2, <2>5, Zenon
        <4> HIDE DEF d, c
        <4> QED BY <2>t, <4>1, OlderOK, Zenon
      <3>3. /\ d.sealer = c.sealer /\ d.opener = c.opener /\ d.out = c.out
            /\ d.in = c.in /\ d.acked = c.acked
        BY <1>2
      <3>4. /\ c.reading => c.heard < Silence
            /\ SendGate(e) => /\ c.epoch < RekeyInterval /\ c.sent < Keepalive
                              /\ c.ack # Never => c.ack < AckDelay
        BY <1>1, <2>5, <2>t, NotDue, Zenon
      <3>5. ~c.awake
        BY <1>1, <2>5
      <3> HIDE DEF c, d
      <3>6. KeysFresh(e)'
        <4>1. c.sealer.counter = 0 => c.epoch <= c.sent /\ SendGate(e)
          BY <2>5, <2>t DEF EndInv, KeysFresh, Fresh, c
        <4>2. RekeyInterval \in Nat
          BY TimesAssumption, Zenon
        <4>3. c.sealer.counter = 0 => d.epoch <= d.sent /\ d.sent <= Keepalive
          BY <2>f, <2>t, <3>1, <3>4, <4>1, <4>2, SMTT(30) DEF Aged
        <4> QED BY <2>2, <3>3, <4>1, <4>3, Zenon DEF KeysFresh, Fresh, d
      <3>7. StreamAgrees(e)'
        <4> SUFFICES ASSUME ~cut PROVE Inbound(wire'[e], ch'[e], ch'[p])
          BY <1>1, Zenon DEF StreamAgrees, p
        <4>1. Inbound(wire[e], c, ch[p])
          BY <2>5, <2>t, Zenon DEF EndInv, StreamAgrees, p, c
        <4>2. /\ ch'[p].why = ch[p].why /\ ch'[p].sealer = ch[p].sealer
              /\ ch'[p].out = ch[p].out
          BY <1>2, <2>t, Zenon
        <4>3. Inbound(wire[e], d, ch'[p])
          <5>1. d.out.next \in Nat /\ c.out.next <= d.out.next
            BY <2>f, <3>3, Order, Zenon
          <5> QED BY <2>f, <2>t, <3>3, <4>1, <4>2, <5>1, InboundSame, Zenon
        <4> QED BY <1>1, <4>3, Zenon DEF d
      <3>8. HeardInTime(e)'
        <4> SUFFICES ASSUME c.reading
                     PROVE  /\ d.heard <= Silence
                            /\ ~cut => /\ d.heard <= Keepalive + 1
                                       /\ old'[e] = 0 => d.heard <= Keepalive
                                       /\ wire[e] = <<>> /\ Up(p) => d.heard <= ch'[p].sent
          BY <1>1, <2>1, <3>2, Zenon DEF HeardInTime, d, p
        <4>1. d.heard = c.heard + 1 /\ d.heard <= Silence
          BY <2>f, <2>t, <3>1, <3>4, AgedIn, Zenon
        <4>2. ASSUME ~cut
              PROVE  /\ d.heard <= Keepalive + 1
                     /\ old'[e] = 0 => d.heard <= Keepalive
                     /\ wire[e] = <<>> /\ Up(p) => d.heard <= ch'[p].sent
          <5>1. old[e] = 0 /\ Up(p) /\ old'[e] = Len(wire[e])
            BY <1>1, <2>5, <4>2, Zenon DEF c, p
          <5>2. c.heard <= Keepalive /\ (wire[e] = <<>> => c.heard <= ch[p].sent)
            BY <2>5, <2>t, <4>2, <5>1, Zenon DEF EndInv, HeardInTime, c, p
          <5>3. ASSUME wire[e] = <<>>
                PROVE  ch[p].sent < Keepalive /\ ch'[p].sent = ch[p].sent + 1
            <6>1. SendGate(p)
              <7>1. Len(wire[e]) = 0 /\ 0 < QueueMax
                BY <5>3, TimesAssumption, SMTT(30)
              <7> QED BY <2>t, <7>1, Zenon DEF SendGate
            <6>2. ~Due(p)
              BY <1>1, <2>t, <5>1, Zenon
            <6>3. ch[p].sent < Keepalive
              BY <2>t, <6>1, <6>2, NotDue, Zenon
            <6>4. ch'[p] = Older(ch[p])
              BY <1>2, <2>t, <5>1, Zenon
            <6>5. ch'[p].sent = Aged(ch[p].sent, Keepalive)
              <7>1. Aging(ch[p], ch'[p])
                BY <2>t, <6>4, OlderAges, Zenon
              <7> QED BY <7>1, Zenon DEF Aging
            <6> QED BY <2>g, <2>t, <6>3, <6>5 DEF Aged
          <5>4. old'[e] = 0 => wire[e] = <<>>
            BY <2>t, <5>1, EmptySeq, Zenon
          <5>5. d.heard <= Keepalive + 1
            BY <2>f, <2>t, <4>1, <5>2, Succ, Zenon
          <5>6. wire[e] = <<>> => d.heard <= Keepalive /\ d.heard <= ch'[p].sent
            <6> SUFFICES ASSUME wire[e] = <<>>
                         PROVE  d.heard <= Keepalive /\ d.heard <= ch'[p].sent
              BY Zenon
            <6>1. c.heard <= ch[p].sent /\ ch[p].sent < Keepalive /\ ch'[p].sent = ch[p].sent + 1
              BY <5>2, <5>3, Zenon
            <6>2. c.heard + 1 <= ch[p].sent + 1 /\ c.heard + 1 <= Keepalive
              BY <2>f, <2>g, <2>t, <6>1, Succ, SuccLess, Zenon
            <6> QED BY <4>1, <6>1, <6>2, Zenon
          <5> QED BY <5>4, <5>5, <5>6, Zenon
        <4> QED BY <4>1, <4>2
      <3>9. RestsIdle(e)'
        <4> SUFFICES ASSUME SendGate(e) PROVE Rested(d)
          BY <2>2, Zenon DEF RestsIdle, AtRest, d
        <4>1. Rested(c)
          BY <2>5, <2>t, <3>5, Zenon DEF EndInv, RestsIdle, AtRest, c
        <4>2. Unsent(d.out) = 0 /\ ~d.pong
          BY <3>2, <3>3, <4>1 DEF Rested
        <4>3. AckOwed(d) <=> AckOwed(c)
          BY <3>3, Zenon DEF AckOwed
        <4>4. AckOwed(d) => d.ack # Never
          BY <2>f, <2>t, <3>1, <4>1, <4>3, SMTT(30) DEF Rested, Aged, Never
        <4>5. d.sent <= Keepalive /\ d.ack <= AckDelay
          <5>1. d.sent <= Keepalive
            BY <2>f, <2>t, <3>1, <3>4, AgedIn, Zenon
          <5>2. CASE c.ack = Never
            BY <2>t, <3>1, <5>1, <5>2, AckTimes, Zenon
          <5>3. CASE c.ack \in Nat /\ c.ack # Never
            BY <2>t, <3>1, <3>4, <5>1, <5>3, AgedIn, Zenon
          <5> QED BY <2>f, <5>2, <5>3, Zenon
        <4> QED BY <4>2, <4>4, <4>5 DEF Rested
      <3>10. AcksArrive(e)'
        <4>1. ch'[p].out = ch[p].out
          BY <1>2, <2>t, Zenon
        <4> QED BY <1>1, <2>1, <2>5, <2>t, <3>3, <4>1, Zenon DEF EndInv, AcksArrive, c, d, p
      <3> QED BY <2>3, <3>6, <3>7, <3>8, <3>9, <3>10, Zenon DEF EndInv
    <2> QED BY <2>4, <2>5, Zenon
  <1> QED BY <1>3, <1>4 DEF ChanInv

(***************************************************************************)
(* Two new channels, whatever their owners are going to do.                *)
(***************************************************************************)
ChanStart ==
    /\ ch = [e \in Ends |-> NewChannel(e)]
    /\ wire = [e \in Ends |-> <<>>] /\ old = [e \in Ends |-> 0] /\ cut = FALSE
    /\ load \in [agent : 0..OffsetMax, client : 0..OffsetMax, stalls : Nat]

LEMMA StartOK == ChanStart => ChanInv
  <1> SUFFICES ASSUME ChanStart PROVE ChanInv
    OBVIOUS
  <1>1. ASSUME NEW e \in Ends
        PROVE  /\ ch[e] = NewChannel(e) /\ wire[e] = <<>> /\ old[e] = 0
               /\ load[e] \in Nat /\ load[e] <= OffsetMax
    BY OffsetMaxAssumption DEF ChanStart, Ends
  <1>2. ASSUME NEW e \in Ends
        PROVE  /\ ChannelOK(ch[e]) /\ ch[e].why = "up" /\ ch[e].sealer.counter = 0
               /\ ch[e].sealer.epoch = 0 /\ ch[e].opener.epoch = 0
               /\ ch[e].opener.counter = 0 /\ Len(ch[e].out.log) = 0
               /\ ch[e].out.next = 0 /\ ch[e].out.base = 0 /\ ch[e].in.recv = 0
               /\ ch[e].acked = 0 /\ ch[e].heard = 0
               /\ ch[e].sent = 0 /\ ch[e].epoch = 0
    <2>1. ch[e] = NewChannel(e)
      BY <1>1, Zenon
    <2> QED BY <2>1, NewOK, SMTT(30) DEF NewSealer, NewOpener, NewBuffer
  <1>3. ASSUME NEW e \in Ends
        PROVE  ch[e].awake
    <2>1. ch[e] = NewChannel(e)
      BY <1>1, Zenon
    <2> QED BY <2>1 DEF NewChannel
  <1>4. ChanTypeOK
    <2>1. ch \in [Ends -> Channels]
      <3>1. \A e \in Ends : ch[e] \in Channels
        BY <1>2 DEF ChannelOK
      <3> QED BY <3>1, Zenon DEF ChanStart
    <2>2. wire \in [Ends -> Seq(SealedFrames)] /\ old \in [Ends -> Nat] /\ cut \in BOOLEAN
      BY EmptySeq, Zenon DEF ChanStart
    <2>3. load \in [agent : Nat, client : Nat, stalls : Nat]
      BY OffsetMaxAssumption DEF ChanStart
    <2>4. ASSUME NEW e \in Ends
          PROVE  old[e] <= Len(wire[e]) /\ Len(ch[e].out.log) + load[e] <= OffsetMax
      <3>1. old[e] = 0 /\ Len(wire[e]) = 0
        BY <1>1
      <3>2. Len(ch[e].out.log) + load[e] = load[e]
        BY <1>1, <1>2
      <3> QED BY <1>1, <3>1, <3>2
    <2> QED BY <1>2, <2>1, <2>2, <2>3, <2>4, Zenon DEF ChanTypeOK
  <1>5. ASSUME NEW e \in Ends
        PROVE  EndInv(e)
    <2> DEFINE p == Other(e)
    <2>t. p \in Ends
      BY TwoEnds
    <2> HIDE DEF p
    <2>k. Keepalive \in Nat /\ Silence \in Nat /\ QueueMax \in Nat \ {0}
      BY TimesAssumption, Zenon
    <2>1. EndsWell(e)
      BY <1>2 DEF EndsWell
    <2>2. SendGate(e)
      <3>1. Len(wire[p]) = 0
        BY <1>1, <2>t, SMTT(30)
      <3> QED BY <2>k, <3>1 DEF SendGate, p
    <2>3. KeysFresh(e)
      <3>1. ch[e].epoch <= ch[e].sent /\ ch[e].sent <= Keepalive
        BY <1>2, <2>k
      <3> QED BY <2>2, <3>1, Zenon DEF KeysFresh, Fresh
    <2>4. StreamAgrees(e)
      <3>1. wire[e] = <<>> /\ Len(wire[e]) = 0
        BY <1>1
      <3>2. Chain(ch[e].opener, wire[e])
        BY <3>1, SMTT(30) DEF Chain
      <3>3. EndsAt(ch[e].opener, wire[e], ch[p].sealer)
        BY <1>2, <2>t, <3>1, Zenon DEF EndsAt
      <3>4. Covered(ch[e].in.recv, wire[e], Len(wire[e]), ch[p].out.next)
            /\ ch[e].in.recv <= ch[p].out.next
        BY <1>2, <2>t DEF Covered
      <3>5. 1..Len(wire[e]) = {}
        BY <3>1
      <3> QED BY <3>2, <3>3, <3>4, <3>5, Zenon DEF StreamAgrees, Inbound, p
    <2>5. HeardInTime(e)
      <3>1. ch[e].heard = 0 /\ ch[p].sent = 0
        BY <1>2, <2>t, Zenon
      <3> QED BY <2>k, <3>1 DEF HeardInTime, p
    <2>6. RestsIdle(e)
      BY <1>3, Zenon DEF RestsIdle, AtRest
    <2>7. AcksArrive(e)
      <3>1. ch[e].acked = 0 /\ ch[p].out.base = 0
        BY <1>2, <2>t, Zenon
      <3> QED BY <3>1 DEF AcksArrive, UnderWay, p
    <2> QED BY <2>1, <2>3, <2>4, <2>5, <2>6, <2>7, Zenon DEF EndInv
  <1> QED BY <1>4, <1>5 DEF ChanInv
-------------------------------------------------------------------------------
(* The channel *)

(***************************************************************************)
(* The invariant of two channels is inductive.                             *)
(***************************************************************************)
LEMMA ChanStep == ChanInv /\ [ChanNext]_chanVars => ChanInv'
  <1> SUFFICES ASSUME ChanInv, [ChanNext]_chanVars PROVE ChanInv'
    OBVIOUS
  <1>1. ASSUME NEW e \in Ends, ReceiveFrame(e) PROVE ChanInv'
    BY <1>1, ReceiveKeeps
  <1>2. ASSUME NEW e \in Ends, Poll(e) PROVE ChanInv'
    BY <1>2, PollKeeps
  <1>3. ASSUME NEW e \in Ends, Write(e) PROVE ChanInv'
    BY <1>3, WriteKeeps
  <1>4. ASSUME NEW e \in Ends, SeeClosed(e) PROVE ChanInv'
    BY <1>4, SeeClosedKeeps
  <1>5. CASE TakenByPty
    BY <1>5, TakenKeeps
  <1>6. CASE Stall \/ Unstall
    BY <1>6, StallKeeps, Zenon
  <1>7. CASE Cut
    BY <1>7, CutKeeps
  <1>8. CASE Tick
    BY <1>8, TickKeeps
  <1>9. CASE UNCHANGED chanVars
    <2>1. ch' = ch /\ wire' = wire /\ old' = old /\ cut' = cut /\ load' = load
      BY <1>9, Zenon DEF chanVars
    <2>2. ChanTypeOK'
      BY <2>1 DEF ChanInv, ChanTypeOK
    <2>3. ASSUME NEW e \in Ends PROVE EndInv(e)'
      <3>1. EndInv(e)
        BY DEF ChanInv
      <3> QED BY <2>1, <3>1, Zenon DEF EndInv, EndsWell, KeysFresh, StreamAgrees, HeardInTime,
                 RestsIdle, AcksArrive, AtRest, SendGate, Up
    <2> QED BY <2>2, <2>3 DEF ChanInv
  <1> QED BY <1>1, <1>2, <1>3, <1>4, <1>5, <1>6, <1>7, <1>8, <1>9, Zenon DEF ChanNext

(***************************************************************************)
(* What the invariant says of a connection.                                *)
(***************************************************************************)
LEMMA ChanSafe ==
    ChanInv => EveryFrameOpens /\ NoFalseSilence /\ SilenceIsNoticed /\ NoLostWakeup
  <1> SUFFICES ASSUME ChanInv
               PROVE  EveryFrameOpens /\ NoFalseSilence /\ SilenceIsNoticed /\ NoLostWakeup
    OBVIOUS
  <1>1. EveryFrameOpens
    <2>1. \A e \in Ends : ch[e] \in Channels
      BY DEF ChanInv, ChanTypeOK
    <2> QED BY <2>1, Zenon DEF EveryFrameOpens, Channels, Reasons
  <1>2. NoFalseSilence
    BY Zenon DEF ChanInv, EndInv, EndsWell, NoFalseSilence
  <1>3. SilenceIsNoticed
    BY Zenon DEF ChanInv, EndInv, HeardInTime, SilenceIsNoticed
  <1>4. \A e \in Ends : AtRest(e) => Rested(ch[e])
    BY Zenon DEF ChanInv, EndInv, RestsIdle
  <1>5. AckIsOnItsWay
    <2> SUFFICES ASSUME NEW e \in Ends, AtRest(e), Up(Other(e)),
                        ch[Other(e)].out.base < AckOffset(ch[e].in),
                        ~ (ch[e].ack \in 0..AckDelay)
                 PROVE  \E i \in DOMAIN wire[Other(e)] :
                          /\ wire[Other(e)][i].plain.type \in {"Data", "Ack"}
                          /\ wire[Other(e)][i].plain.ack >= AckOffset(ch[e].in)
      BY DEF AckIsOnItsWay
    <2> DEFINE p == Other(e)
               c == ch[e]
    <2>t. /\ p \in Ends /\ EndInv(e) /\ ChannelOK(c) /\ ChannelOK(ch[p])
          /\ wire[p] \in Seq(SealedFrames) /\ AckDelay \in Nat
      BY EndFacts, Zenon
    <2>f. c.acked \in Nat /\ c.ack \in Nat \cup {Never} /\ AckOffset(c.in) \in Nat
      BY <2>t, ChannelFields, Zenon
    <2>g. ch[p].out.base \in Nat
      BY <2>t, ChannelFields, Zenon
    <2>1. c.ack <= AckDelay /\ (AckOwed(c) => c.ack # Never)
      BY <1>4, Zenon DEF Rested
    <2>3. c.acked = AckOffset(c.in)
      BY <2>1, <2>t, NothingOwed, Zenon
    <2>4. UnderWay(c.acked, ch[p].out.base, wire[p])
      BY <2>t, Zenon DEF EndInv, AcksArrive, AtRest
    <2>5. PICK i \in 1..Len(wire[p]) : HasAck(wire[p][i].plain) /\ c.acked <= wire[p][i].plain.ack
      BY <2>3, <2>4, <2>f, <2>g, SMTT(30) DEF UnderWay
    <2>6. wire[p][i].plain \in Messages
      <3>1. wire[p][i] \in SealedFrames
        BY <2>5, <2>t, ElementOf, Zenon
      <3> QED BY <3>1, Zenon DEF SealedFrames
    <2>7. wire[p][i].plain.ack \in Nat
      BY <2>5, <2>6, Zenon DEF Messages, HasAck
    <2>8. wire[p][i].plain.ack >= AckOffset(c.in)
      BY <2>3, <2>5, <2>7, <2>f, Zenon
    <2>9. i \in DOMAIN wire[p]
      BY <2>5, <2>t, ElementOf, Zenon
    <2> QED BY <2>5, <2>8, <2>9, Zenon DEF HasAck
  <1>6. NoLostWakeup
    BY <1>4, <1>5 DEF NoLostWakeup, KeepsTalking, Rested
  <1> QED BY <1>1, <1>2, <1>3, <1>6
=============================================================================
