--------------------------- MODULE Handshake_proofs ---------------------------
(***************************************************************************)
(* Proofs about the handshake, for every value of the bounds: however the  *)
(* messages are cut, changed or answered late, over any number of          *)
(* connections.                                                            *)
(***************************************************************************)
EXTENDS Handshake, TLAPS

(* A value is a sequence.                                                  *)
IsSeq(s) == s \in Seq(Range(s))

ClientFields == {"stage", "why", "frames", "cn", "sn", "version", "offset", "script", "spoke"}

AgentFields == ClientFields \cup {"grid", "auth"}

(* The last of the notes.                                                  *)
Newest(notes) == notes[Len(notes)]

(* A note of a finished handshake.                                         *)
IsNote(g) ==
    g = [try |-> g.try, cn |-> g.cn, sn |-> g.sn, version |-> g.version,
         grid |-> g.grid, offset |-> g.offset]

(* What an agent notes, of connections down to this one, and its version.  *)
Deal == [notes |-> agreed, tries |-> left.tries, max |-> build.agent]

(* The version an agent answers a Hello with.                              *)
Answered(h, max, version) ==
    NegotiateVersion(h.min, h.max, max) = [err |-> "ok", version |-> version]

(* The agent has finished a handshake in this connection.                  *)
Finished(d) == d.notes # <<>> /\ Newest(d.notes).try = d.tries

(* The tag of an AuthOk says what the agent noted of this connection.      *)
Offered(tag, d) ==
    LET g == Newest(d.notes)
        s == tag[3]
    IN /\ Finished(d) /\ tag = Tag("ours", "zet-s", s)
       /\ s = <<s[1], ChallengeMessage(g), s[3], g.offset>>
       /\ s[1].cn = g.cn /\ s[1].grid = g.grid /\ Answered(s[1], d.max, g.version)

(* A frame on its way to the client: whatever was changed, the tag of an   *)
(* AuthOk is the one the agent made.                                       *)
FromAgent(f, d) ==
    /\ {"length", "body"} \subseteq DOMAIN f /\ f.length \in Nat
    /\ "type" \in DOMAIN f.body
    /\ f.body.type = "AuthOk" => "tag" \in DOMAIN f.body /\ Offered(f.body.tag, d)

Carries(s, d) ==
    /\ IsSeq(s)
    /\ \A i \in 1..Len(s) : s[i] = <<s[i][1], s[i][2]>> /\ FromAgent(s[i][1], d)

StreamOK(s, d) ==
    /\ DOMAIN s = {"held", "pending", "limit"} /\ s.pending \in Nat /\ s.limit \in Nat
    /\ Carries(s.held, d) /\ s.pending <= Len(s.held)

(* What the client has folded into its transcript.                         *)
ClientSaid(c) ==
    LET s == c.script
    IN /\ c.stage = "SendHello" => s = <<>>
       /\ c.stage = "SentHello" => s = <<HelloMessage(c)>>
       /\ c.stage = "SentAuth" =>
            s = <<HelloMessage(c), s[2], s[3]>> /\ s[2].sn = c.sn /\ s[2].version = c.version

(* What the agent has folded into its transcript, with nonces it does not  *)
(* remember when the session is its own.                                   *)
AgentSaid(a, memory) ==
    LET s == a.script
    IN /\ a.stage = "AwaitHello" => s = <<>>
       /\ a.stage = "SentChallenge" =>
            /\ a.auth \in {"ours", "decoy"}
            /\ a.auth = "ours" => {a.cn, a.sn} \cap Range(memory) = {}
            /\ s = <<s[1], ChallengeMessage(a)>> /\ s[1].cn = a.cn /\ s[1].grid = a.grid
            /\ Answered(s[1], build.agent, a.version)

(* A client that sends its Resume has agreed with the agent.               *)
AgreedOn(c) ==
    /\ agreed # <<>> /\ build.id = "ours"
    /\ Newest(agreed) = [try |-> left.tries, cn |-> c.cn, sn |-> c.sn,
                       version |-> Min({build.client, build.agent}),
                       grid |-> build.grid, offset |-> c.offset]
    /\ c.version = Newest(agreed).version

ClientOK(c) ==
    /\ DOMAIN c = ClientFields /\ StreamOK(c.frames, Deal)
    /\ ClientSaid(c) /\ (c.stage = "Live" => AgreedOn(c))

Past == {"AwaitResume", "Live", "Failed"}

AgentOK(a) ==
    /\ DOMAIN a = AgentFields /\ a.stage \in {"AwaitHello", "SentChallenge"} \cup Past
    /\ AgentSaid(a, seen["agent"])

(* The agent remembers the nonces of its last note, and after a note of    *)
(* this connection it makes no other.                                      *)
Noted ==
    LET g == Newest(agreed)
    IN agreed # <<>> =>
         /\ IsNote(g) /\ {g.cn, g.sn} \subseteq Range(seen["agent"])
         /\ g.try \in Nat /\ left.tries <= g.try
         /\ g.try = left.tries => conn["agent"].stage \in Past

ShakeTypeOK ==
    /\ DOMAIN conn = Sides /\ DOMAIN pipe = Sides /\ DOMAIN seen = Sides
    /\ IsSeq(seen["agent"]) /\ left \in [tries : Nat, changes : Nat, id : {"ours", "other"}]
    /\ build.client \in Nat /\ build.agent \in Nat
    /\ agreed \in {<<>>, <<agreed[1]>>, <<agreed[1], agreed[2]>>}

ShakeInv ==
    /\ ShakeTypeOK /\ Noted /\ FreshKeys
    /\ AgentOK(conn["agent"]) /\ ClientOK(conn["client"]) /\ Carries(pipe["client"], Deal)
-------------------------------------------------------------------------------
(* Sequences *)

LEMMA Appends ==
    /\ \A a : Append(<<>>, a) = <<a>>
    /\ \A a, b : Append(<<a>>, b) = <<a, b>>
    /\ \A a, b, c : Append(<<a, b>>, c) = <<a, b, c>>
    /\ \A a, b, c, d : Append(<<a, b, c>>, d) = <<a, b, c, d>>
  <1>1. \A a : Append(<<>>, a) = <<a>>
    OBVIOUS
  <1>2. \A a, b : Append(<<a>>, b) = <<a, b>>
    <2> TAKE a, b
    <2> DEFINE S == {a, b}
               r == <<a>>
               t == Append(r, b)
               u == <<a, b>>
    <2>0. r \in Seq(S) /\ Len(r) = 1 /\ r[1] = a
      OBVIOUS
    <2>1. u \in Seq(S) /\ Len(u) = 2 /\ u[1] = a /\ u[2] = b
      OBVIOUS
    <2>5. b \in S
      OBVIOUS
    <2> HIDE DEF r, u, S
    <2>7. r \in Seq(S)
      BY <2>0
    <2>6. /\ t \in Seq(S) /\ Len(t) = Len(r) + 1 /\ t[Len(r) + 1] = b
          /\ \A i \in 1..Len(r) : t[i] = r[i]
      BY <2>5, <2>7
    <2> HIDE DEF t
    <2>2. t \in Seq(S) /\ Len(t) = 2 /\ t[1] = a /\ t[2] = b
      BY <2>0, <2>6
    <2>3. \A i \in 1..Len(t) : t[i] = u[i]
      BY <2>1, <2>2
    <2>4. t = u
      BY <2>1, <2>2, <2>3
    <2> QED BY <2>4 DEF r, t, u
  <1>3. \A a, b, c : Append(<<a, b>>, c) = <<a, b, c>>
    <2> TAKE a, b, c
    <2> DEFINE S == {a, b, c}
               r == <<a, b>>
               t == Append(r, c)
               u == <<a, b, c>>
    <2>0. r \in Seq(S) /\ Len(r) = 2 /\ r[1] = a /\ r[2] = b
      OBVIOUS
    <2>1. u \in Seq(S) /\ Len(u) = 3 /\ u[1] = a /\ u[2] = b /\ u[3] = c
      OBVIOUS
    <2>5. c \in S
      OBVIOUS
    <2> HIDE DEF r, u, S
    <2>7. r \in Seq(S)
      BY <2>0
    <2>6. /\ t \in Seq(S) /\ Len(t) = Len(r) + 1 /\ t[Len(r) + 1] = c
          /\ \A i \in 1..Len(r) : t[i] = r[i]
      BY <2>5, <2>7
    <2> HIDE DEF t
    <2>2. t \in Seq(S) /\ Len(t) = 3 /\ t[1] = a /\ t[2] = b /\ t[3] = c
      BY <2>0, <2>6
    <2>3. \A i \in 1..Len(t) : t[i] = u[i]
      BY <2>1, <2>2
    <2>4. t = u
      BY <2>1, <2>2, <2>3
    <2> QED BY <2>4 DEF r, t, u
  <1>4. \A a, b, c, d : Append(<<a, b, c>>, d) = <<a, b, c, d>>
    <2> TAKE a, b, c, d
    <2> DEFINE S == {a, b, c, d}
               r == <<a, b, c>>
               t == Append(r, d)
               u == <<a, b, c, d>>
    <2>0. r \in Seq(S) /\ Len(r) = 3 /\ r[1] = a /\ r[2] = b /\ r[3] = c
      OBVIOUS
    <2>1. u \in Seq(S) /\ Len(u) = 4 /\ u[1] = a /\ u[2] = b /\ u[3] = c /\ u[4] = d
      OBVIOUS
    <2>5. d \in S
      OBVIOUS
    <2> HIDE DEF r, u, S
    <2>7. r \in Seq(S)
      BY <2>0
    <2>6. /\ t \in Seq(S) /\ Len(t) = Len(r) + 1 /\ t[Len(r) + 1] = d
          /\ \A i \in 1..Len(r) : t[i] = r[i]
      BY <2>5, <2>7
    <2> HIDE DEF t
    <2>2. t \in Seq(S) /\ Len(t) = 4 /\ t[1] = a /\ t[2] = b /\ t[3] = c /\ t[4] = d
      BY <2>0, <2>6
    <2>3. \A i \in 1..Len(t) : t[i] = u[i]
      BY <2>1, <2>2
    <2>4. t = u
      BY <2>1, <2>2, <2>3
    <2> QED BY <2>4 DEF r, t, u
  <1> QED BY <1>1, <1>2, <1>3, <1>4

LEMMA SeqOfItself ==
    ASSUME NEW S, NEW s \in Seq(S)
    PROVE  IsSeq(s)
  <1>1. s \in [1..Len(s) -> Range(s)] /\ Len(s) \in Nat
    BY DEF Range
  <1> QED BY <1>1 DEF IsSeq

(***************************************************************************)
(* The memory holds what was remembered last, also what was before it: it  *)
(* has room for two.                                                       *)
(***************************************************************************)
LEMMA RememberLast ==
    ASSUME NEW s, IsSeq(s), NEW x
    PROVE  LET r == Remember(s, x)
           IN /\ IsSeq(r) /\ x \in Range(r) /\ Len(r) > 0 /\ r[Len(r)] = x
              /\ Len(s) > 0 => s[Len(s)] \in Range(r)
  <1> DEFINE S == Range(s) \cup {x}
             all == Append(s, x)
             r == Remember(s, x)
  <1>1. s \in Seq(S)
    <2>1. s \in Seq(Range(s))
      BY DEF IsSeq
    <2> QED BY <2>1
  <1>2. all \in Seq(S) /\ Len(all) = Len(s) + 1 /\ all[Len(all)] = x /\ Len(s) \in Nat
    <2>1. x \in S
      OBVIOUS
    <2> HIDE DEF S
    <2> QED BY <1>1, <2>1
  <1> HIDE DEF S
  <1>3. CASE Len(all) > MaxNonces
    <2> DEFINE t == Tail(all)
    <2>1. r = t
      BY <1>3 DEF Remember
    <2>2. t \in Seq(S) /\ Len(t) = Len(s) /\ Len(s) > 0 /\ t[Len(s)] = all[Len(s) + 1]
      <3>1. MaxNonces \in Nat \ {0, 1}
        BY HandshakeAssumption
      <3>2. Len(s) > 0 /\ all # <<>>
        BY <1>2, <1>3, <3>1
      <3> HIDE DEF all
      <3> QED BY <1>2, <3>2
    <2>3. t[Len(s) - 1] = s[Len(s)] /\ Len(s) - 1 \in 1..Len(s)
      <3>1. MaxNonces \in Nat \ {0, 1}
        BY HandshakeAssumption
      <3>2. Len(s) > 1
        BY <1>2, <1>3, <3>1
      <3>3. all[Len(s)] = s[Len(s)]
        BY <1>1, <3>2
      <3>4. all \in Seq(S) /\ all # <<>> /\ Len(all) = Len(s) + 1 /\ Len(s) \in Nat
        BY <1>2
      <3> HIDE DEF all
      <3> QED BY <3>2, <3>3, <3>4
    <2> HIDE DEF t, all
    <2>4. x \in Range(t) /\ s[Len(s)] \in Range(t)
      BY <1>2, <2>2, <2>3 DEF Range
    <2> QED BY <1>2, <2>1, <2>2, <2>4, SeqOfItself
  <1>4. CASE ~ (Len(all) > MaxNonces)
    <2>1. r = all
      BY <1>4 DEF Remember
    <2>2. Len(s) > 0 => all[Len(s)] = s[Len(s)]
      BY <1>1
    <2> HIDE DEF all
    <2>3. x \in Range(all) /\ (Len(s) > 0 => s[Len(s)] \in Range(all))
      BY <1>2, <2>2 DEF Range
    <2> QED BY <1>2, <2>1, <2>3, SeqOfItself
  <1> QED BY <1>3, <1>4

(***************************************************************************)
(* A memory that a nonce is not seen in does not hold it.                  *)
(***************************************************************************)
LEMMA SeenHolds ==
    ASSUME NEW s, IsSeq(s), NEW x, ~Seen(s, x)
    PROVE  x \notin Range(s)
  <1>1. DOMAIN s = 1..Len(s)
    BY DEF IsSeq
  <1> QED BY <1>1 DEF Seen, Range
-------------------------------------------------------------------------------
(* The stream to the client *)

LEMMA CarriesConcat ==
    ASSUME NEW k, NEW s, Carries(s, k), NEW t, Carries(t, k)
    PROVE  Carries(s \o t, k)
  <1> DEFINE S == Range(s) \cup Range(t)
  <1>1. s \in Seq(S) /\ t \in Seq(S)
    <2>1. s \in Seq(Range(s)) /\ t \in Seq(Range(t))
      BY DEF Carries, IsSeq
    <2> QED BY <2>1
  <1> HIDE DEF S
  <1>2. /\ s \o t \in Seq(S) /\ Len(s \o t) = Len(s) + Len(t) /\ Len(s) \in Nat /\ Len(t) \in Nat
        /\ \A i \in 1 .. Len(s) + Len(t) :
              (s \o t)[i] = IF i <= Len(s) THEN s[i] ELSE t[i - Len(s)]
    BY <1>1
  <1>3. IsSeq(s \o t)
    BY <1>2, SeqOfItself
  <1>4. ASSUME NEW i \in 1..Len(s \o t)
        PROVE  \/ i \in 1..Len(s) /\ (s \o t)[i] = s[i]
               \/ i - Len(s) \in 1..Len(t) /\ (s \o t)[i] = t[i - Len(s)]
    BY <1>2
  <1> QED BY <1>3, <1>4 DEF Carries

LEMMA CarriesPart ==
    ASSUME NEW k, NEW s, Carries(s, k), NEW m \in Nat \ {0}, NEW n \in Nat, n <= Len(s)
    PROVE  /\ Carries(SubSeq(s, m, n), k)
           /\ Len(SubSeq(s, m, n)) = IF m <= n THEN n - m + 1 ELSE 0
           /\ \A i \in 1 .. n - m + 1 : SubSeq(s, m, n)[i] = s[m + i - 1]
  <1>1. s \in Seq(Range(s)) /\ Len(s) \in Nat
    BY DEF Carries, IsSeq
  <1>2. \A i \in m .. n : s[i] \in Range(s)
    BY <1>1 DEF Range
  <1> DEFINE t == SubSeq(s, m, n)
  <1>3. /\ t \in Seq(Range(s)) /\ Len(t) = IF m <= n THEN n - m + 1 ELSE 0
        /\ \A i \in 1 .. n - m + 1 : t[i] = s[m + i - 1]
    BY <1>2
  <1> HIDE DEF t
  <1>4. IsSeq(t)
    BY <1>3, SeqOfItself
  <1>5. \A i \in 1..Len(t) : m + i - 1 \in 1..Len(s) /\ t[i] = s[m + i - 1]
    BY <1>1, <1>3
  <1>6. \A j \in 1..Len(s) : s[j] = <<s[j][1], s[j][2]>> /\ FromAgent(s[j][1], k)
    BY DEF Carries
  <1>7. ASSUME NEW i \in 1..Len(t)
        PROVE  t[i] = <<t[i][1], t[i][2]>> /\ FromAgent(t[i][1], k)
    <2> DEFINE j == m + i - 1
    <2>1. j \in 1..Len(s) /\ t[i] = s[j]
      BY <1>5
    <2> HIDE DEF j
    <2>2. s[j] = <<s[j][1], s[j][2]>> /\ FromAgent(s[j][1], k)
      BY <1>6, <2>1
    <2> QED BY <2>1, <2>2
  <1>8. Carries(t, k)
    BY <1>4, <1>7 DEF Carries
  <1> QED BY <1>3, <1>8 DEF t

LEMMA CarriesNothing == ASSUME NEW k PROVE Carries(<<>>, k)
  <1>1. <<>> \in Seq({}) /\ Len(<<>>) = 0
    OBVIOUS
  <1>2. IsSeq(<<>>)
    BY <1>1, SeqOfItself
  <1> QED BY <1>1, <1>2 DEF Carries

(***************************************************************************)
(* FrameStream::Append and Next: the bytes are the ones that arrived, and  *)
(* a body handed out is that of a frame that was sent.                     *)
(***************************************************************************)
LEMMA DropOK ==
    ASSUME NEW k, NEW s, StreamOK(s, k)
    PROVE  /\ StreamOK(DropPending(s), k) /\ DropPending(s).pending = 0
           /\ DropPending(s).limit = s.limit /\ DOMAIN DropPending(s) = DOMAIN s
  <1> DEFINE h == SubSeq(s.held, s.pending + 1, Len(s.held))
             d == DropPending(s)
  <1>1. Len(s.held) \in Nat /\ s.pending + 1 \in Nat \ {0}
    BY DEF StreamOK, Carries, IsSeq
  <1>2. Carries(h, k)
    BY <1>1, CarriesPart DEF StreamOK
  <1>3. d.held = h /\ d.pending = 0 /\ d.limit = s.limit /\ DOMAIN d = DOMAIN s
    BY DEF DropPending, StreamOK
  <1>4. Len(h) \in Nat
    BY <1>2 DEF Carries, IsSeq
  <1> HIDE DEF h, d
  <1> QED BY <1>2, <1>3, <1>4 DEF StreamOK, d

LEMMA AppendedOK ==
    ASSUME NEW k, NEW s, StreamOK(s, k), NEW chunk, Carries(chunk, k), Appended(s, chunk).err = "ok"
    PROVE  StreamOK(Appended(s, chunk).stream, k)
  <1> DEFINE d == DropPending(s)
             h == d.held \o chunk
             q == [d EXCEPT !.held = h]
  <1>1. StreamOK(d, k) /\ d.pending = 0
    BY DropOK
  <1>2. Appended(s, chunk).stream = q
    BY DEF Appended
  <1>3. Carries(h, k)
    BY <1>1, CarriesConcat DEF StreamOK
  <1>4. Len(h) \in Nat
    BY <1>3 DEF Carries, IsSeq
  <1> HIDE DEF d, h
  <1>5. q.held = h /\ q.pending = d.pending /\ q.limit = d.limit /\ DOMAIN q = DOMAIN d
    BY <1>1 DEF StreamOK
  <1> HIDE DEF q
  <1>6. StreamOK(q, k)
    BY <1>1, <1>3, <1>4, <1>5 DEF StreamOK
  <1> QED BY <1>2, <1>6

LEMMA NextOK ==
    ASSUME NEW k, NEW s, StreamOK(s, k)
    PROVE  /\ StreamOK(NextFrame(s).stream, k)
           /\ NextFrame(s).err = "ok" /\ NextFrame(s).body.type = "AuthOk"
                => Offered(NextFrame(s).body.tag, k)
  <1> DEFINE d == DropPending(s)
             f == d.held[1][1]
             n == HeaderSize + f.length
             q == [d EXCEPT !.pending = n]
             err == ReadFrame(d.held, d.limit)
  <1>1. StreamOK(d, k)
    BY DropOK
  <1>2. CASE err # "ok"
    <2>1. NextFrame(s).err = err /\ NextFrame(s).stream = d
      BY <1>2 DEF NextFrame
    <2> QED BY <1>1, <1>2, <2>1
  <1>3. CASE err = "ok"
    <2>1. /\ NextFrame(s).stream = q
          /\ NextFrame(s).body = f.body \/ NextFrame(s).body = [type |-> "nonsense"]
      BY <1>3 DEF NextFrame
    <2>2. Len(d.held) \in Nat /\ HeaderSize \in Nat \ {0}
      BY <1>1, FrameLimitsAssumption DEF StreamOK, Carries, IsSeq
    <2> HIDE DEF d
    <2>3. ~(Len(d.held) < HeaderSize)
      BY <1>3 DEF ReadFrame
    <2>4. ~(Len(d.held) < HeaderSize + f.length)
      BY <1>3, <2>3 DEF ReadFrame
    <2>5. 1 \in 1..Len(d.held)
      BY <2>2, <2>3
    <2>6. FromAgent(f, k)
      BY <1>1, <2>5 DEF StreamOK, Carries
    <2>7. n \in Nat /\ n <= Len(d.held)
      BY <2>2, <2>4, <2>6 DEF FromAgent
    <2> HIDE DEF n, f
    <2>8. q.held = d.held /\ q.pending = n /\ q.limit = d.limit /\ DOMAIN q = DOMAIN d
      BY <1>1 DEF StreamOK
    <2> HIDE DEF q
    <2>9. StreamOK(q, k)
      BY <1>1, <2>7, <2>8 DEF StreamOK
    <2>10. NextFrame(s).body.type = "AuthOk" => Offered(NextFrame(s).body.tag, k)
      BY <2>1, <2>6 DEF FromAgent
    <2> QED BY <2>1, <2>9, <2>10
  <1> QED BY <1>2, <1>3

LEMMA NewStreamOK ==
    ASSUME NEW k
    PROVE  StreamOK(NewStream, k)
  <1>1. /\ NewStream.held = <<>> /\ NewStream.pending = 0 /\ NewStream.limit = MaxHandshakeFrame
        /\ DOMAIN NewStream = {"held", "pending", "limit"}
    BY DEF NewStream
  <1>2. MaxHandshakeFrame \in Nat /\ Len(<<>>) = 0
    BY FrameLimitsAssumption
  <1> QED BY <1>1, <1>2, CarriesNothing DEF StreamOK

LEMMA RaiseOK ==
    ASSUME NEW k, NEW s, StreamOK(s, k)
    PROVE  StreamOK(RaiseLimit(s), k)
  <1> DEFINE q == RaiseLimit(s)
  <1>1. /\ q.held = s.held /\ q.pending = s.pending /\ q.limit = MaxFrame
        /\ DOMAIN q = DOMAIN s
    BY DEF RaiseLimit, StreamOK
  <1>2. MaxFrame \in Nat
    BY FrameLimitsAssumption
  <1> HIDE DEF q
  <1>3. StreamOK(q, k)
    BY <1>1, <1>2 DEF StreamOK
  <1> QED BY <1>3 DEF q

(***************************************************************************)
(* A frame an agent sends.                                                 *)
(***************************************************************************)
LEMMA FrameCarries ==
    ASSUME NEW k, NEW m, "type" \in DOMAIN m, BodyLength(m) \in Nat,
           m.type = "AuthOk" => "tag" \in DOMAIN m /\ Offered(m.tag, k)
    PROVE  Carries(FrameOf(m), k)
  <1> DEFINE f == [length |-> BodyLength(m), body |-> m]
             n == HeaderSize + f.length
             w == [i \in 1..n |-> <<f, i>>]
  <1>1. FrameOf(m) = w
    BY DEF FrameOf, Bytes
  <1>2. {"length", "body"} \subseteq DOMAIN f /\ f.length = BodyLength(m) /\ f.body = m
    OBVIOUS
  <1>3. n \in Nat
    BY <1>2, FrameLimitsAssumption
  <1>4. FromAgent(f, k)
    <2> HIDE DEF f
    <2> QED BY <1>2 DEF FromAgent
  <1> HIDE DEF n, f
  <1> DEFINE S == {<<f, i>> : i \in 1..n}
  <1>5. w \in [1..n -> S]
    OBVIOUS
  <1> HIDE DEF S
  <1>6. w \in Seq(S) /\ Len(w) = n
    BY <1>3, <1>5
  <1>7. \A i \in 1..n : w[i] = <<f, i>>
    OBVIOUS
  <1> HIDE DEF w
  <1>8. IsSeq(w)
    BY <1>6, SeqOfItself
  <1>9. \A i \in 1..Len(w) : w[i] = <<w[i][1], w[i][2]>> /\ w[i][1] = f
    BY <1>6, <1>7
  <1> QED BY <1>1, <1>4, <1>8, <1>9 DEF Carries
-------------------------------------------------------------------------------
(* The client *)

LEMMA ClientAlike ==
    ASSUME NEW c, ClientOK(c), NEW d, DOMAIN d = ClientFields, StreamOK(d.frames, Deal),
           d.stage = c.stage, d.cn = c.cn, d.sn = c.sn, d.version = c.version,
           d.offset = c.offset, d.script = c.script
    PROVE  ClientOK(d)
  <1>1. HelloMessage(d) = HelloMessage(c)
    BY DEF HelloMessage
  <1>2. ClientSaid(d)
    BY <1>1 DEF ClientOK, ClientSaid
  <1>3. d.stage = "Live" => AgreedOn(d)
    BY DEF ClientOK, AgreedOn
  <1> QED BY <1>2, <1>3 DEF ClientOK

LEMMA ClientFrames ==
    ASSUME NEW c, ClientOK(c), NEW s, StreamOK(s, Deal)
    PROVE  /\ ClientOK([c EXCEPT !.frames = s])
           /\ [c EXCEPT !.frames = s].stage = c.stage
  <1> DEFINE d == [c EXCEPT !.frames = s]
  <1>1. /\ DOMAIN d = ClientFields /\ d.stage = c.stage /\ d.frames = s /\ d.cn = c.cn
        /\ d.sn = c.sn /\ d.version = c.version /\ d.offset = c.offset /\ d.script = c.script
    BY DEF ClientOK, ClientFields
  <1> HIDE DEF d
  <1>2. ClientOK(d)
    BY <1>1, ClientAlike
  <1> QED BY <1>1, <1>2 DEF d

LEMMA ClientRefuses ==
    ASSUME NEW c, ClientOK(c), NEW err
    PROVE  ClientOK(Refuse(c, err))
  <1> DEFINE d == Refuse(c, err)
  <1>1. DOMAIN d = ClientFields /\ d.stage = "Failed" /\ d.frames = NewStream
    BY DEF Refuse, ClientOK, ClientFields
  <1> HIDE DEF d
  <1>2. ClientOK(d)
    BY <1>1, NewStreamOK DEF ClientOK, ClientSaid
  <1> QED BY <1>2 DEF d

LEMMA ClientStarts ==
    ASSUME NEW c, ClientOK(c), c.stage = "SendHello", NEW memory
    PROVE  ClientOK(Start(c, memory).to) /\ ~Start(c, memory).done
  <1>1. CASE Seen(memory, c.cn)
    <2>1. Start(c, memory).to = Refuse(c, "NonceReused") /\ ~Start(c, memory).done
      BY <1>1 DEF Start, Refused, Step
    <2> QED BY <2>1, ClientRefuses
  <1>2. CASE ~Seen(memory, c.cn)
    <2> DEFINE s == Append(c.script, HelloMessage(c))
               d == [c EXCEPT !.stage = "SentHello", !.script = s]
    <2>1. Start(c, memory).to = d /\ ~Start(c, memory).done
      BY <1>2 DEF Start, Step, Absorb
    <2>2. s = <<HelloMessage(c)>>
      <3>1. c.script = <<>>
        BY DEF ClientOK, ClientSaid
      <3> QED BY <3>1, Appends
    <2> HIDE DEF s
    <2>3. /\ DOMAIN d = ClientFields /\ d.stage = "SentHello" /\ d.frames = c.frames
          /\ d.cn = c.cn /\ d.script = s
      BY DEF ClientOK, ClientFields
    <2> HIDE DEF d
    <2>4. HelloMessage(d) = HelloMessage(c)
      BY <2>3 DEF HelloMessage
    <2>5. ClientOK(d)
      BY <2>2, <2>3, <2>4 DEF ClientOK, ClientSaid
    <2> QED BY <2>1, <2>5
  <1> QED BY <1>1, <1>2

LEMMA ClientChallenged ==
    ASSUME NEW c, ClientOK(c), c.stage = "SentHello", NEW memory, NEW m
    PROVE  ClientOK(OnChallenge(c, memory, m).to) /\ ~OnChallenge(c, memory, m).done
  <1> DEFINE o == OnChallenge(c, memory, m)
             u == Append(c.script, m)
             x == AuthMessage(Tag(build.id, "zet-c", u))
             s == Append(u, x)
             d == [c EXCEPT !.stage = "SentAuth", !.sn = m.sn, !.version = m.version,
                            !.script = s]
  <1>1. CASE o.to = Refuse(c, "VersionMismatch") \/ o.to = Refuse(c, "NonceReused")
    BY <1>1, ClientRefuses DEF OnChallenge, Refused, Step
  <1>2. CASE o.to = d
    <2>1. s = <<HelloMessage(c), m, x>>
      <3>1. c.script = <<HelloMessage(c)>>
        BY DEF ClientOK, ClientSaid
      <3> HIDE DEF x
      <3>2. u = <<HelloMessage(c), m>>
        BY <3>1, Appends
      <3> QED BY <3>2, Appends
    <2> HIDE DEF s, x, u
    <2>2. /\ DOMAIN d = ClientFields /\ d.stage = "SentAuth" /\ d.frames = c.frames
          /\ d.cn = c.cn /\ d.script = s /\ d.sn = m.sn /\ d.version = m.version
      BY DEF ClientOK, ClientFields
    <2> HIDE DEF d
    <2>3. HelloMessage(d) = HelloMessage(c)
      BY <2>2 DEF HelloMessage
    <2>4. s = <<HelloMessage(c), s[2], s[3]>> /\ s[2] = m
      BY <2>1
    <2>5. ClientOK(d)
      BY <2>2, <2>3, <2>4 DEF ClientOK, ClientSaid
    <2>6. ~o.done
      BY DEF OnChallenge, Refused, Step
    <2> QED BY <1>2, <2>5, <2>6
  <1> QED BY <1>1, <1>2 DEF OnChallenge, Refused, Step, Absorb

(***************************************************************************)
(* An AuthOk that verifies is of this agent and this connection: the two   *)
(* transcripts are the same, and with them all that the two ends use.      *)
(***************************************************************************)
LEMMA TagsAgree ==
    ASSUME ShakeTypeOK, Noted, NEW c, ClientOK(c), c.stage = "SentAuth",
           NEW m, Offered(m.tag, Deal),
           Verify(build.id, "zet-s", AbsorbReceiveOffset(c.script, m.offset), m.tag),
           NEW d, d.cn = c.cn, d.sn = c.sn, d.version = c.version, d.offset = m.offset
    PROVE  AgreedOn(d)
  <1> DEFINE g == Newest(agreed)
             s == m.tag[3]
             h == HelloMessage(c)
  <1>1. /\ agreed # <<>> /\ g.try = left.tries /\ m.tag = <<"ours", "zet-s", s>>
        /\ s = <<s[1], ChallengeMessage(g), s[3], g.offset>>
        /\ s[1].cn = g.cn /\ s[1].grid = g.grid /\ Answered(s[1], build.agent, g.version)
    BY DEF Offered, Finished, Deal, Tag
  <1>2. m.tag = <<build.id, "zet-s", Append(c.script, m.offset)>>
    BY DEF Verify, Tag, AbsorbReceiveOffset
  <1>3. build.id = "ours" /\ s = Append(c.script, m.offset)
    BY <1>1, <1>2
  <1>4. /\ c.script = <<h, c.script[2], c.script[3]>> /\ c.script[2].sn = c.sn
        /\ c.script[2].version = c.version
    BY DEF ClientOK, ClientSaid
  <1> HIDE DEF s
  <1>5. s = <<h, c.script[2], c.script[3], m.offset>>
    <2> DEFINE x == c.script[2]
               y == c.script[3]
    <2>1. c.script = <<h, x, y>>
      BY <1>4
    <2> HIDE DEF x, y, h
    <2>2. Append(<<h, x, y>>, m.offset) = <<h, x, y, m.offset>>
      BY Appends
    <2>3. s = <<h, x, y, m.offset>>
      BY <1>3, <2>1, <2>2
    <2> QED BY <2>3 DEF x, y
  <1>6. s[1] = h /\ c.script[2] = ChallengeMessage(g) /\ m.offset = g.offset
    BY <1>1, <1>5
  <1>7. g.cn = c.cn /\ g.grid = build.grid /\ h.min = VersionMin /\ h.max = build.client
    BY <1>1, <1>6 DEF HelloMessage
  <1>8. g.sn = c.sn /\ g.version = c.version
    BY <1>4, <1>6 DEF ChallengeMessage
  <1>9. g.version = Min({build.client, build.agent})
    <2> DEFINE v == IF build.client < build.agent THEN build.client ELSE build.agent
               n == NegotiateVersion(VersionMin, build.client, build.agent)
    <2>1. build.client \in Nat /\ build.agent \in Nat
      BY DEF ShakeTypeOK
    <2>2. n.err = "ok" /\ n.version = g.version
      BY <1>1, <1>6, <1>7 DEF Answered
    <2>3. n.err = "ok" => n.version = v
      BY DEF NegotiateVersion
    <2>4. \A x \in {build.client, build.agent} :
             (\A y \in {build.client, build.agent} : x <= y) => x = v
      BY <2>1
    <2>5. v \in {build.client, build.agent} /\ \A y \in {build.client, build.agent} : v <= y
      BY <2>1
    <2> HIDE DEF v
    <2>6. Min({build.client, build.agent}) = v
      BY <2>4, <2>5 DEF Min
    <2> QED BY <2>2, <2>3, <2>6
  <1>10. IsNote(g)
    BY <1>1 DEF Noted
  <1> HIDE DEF g
  <1>11. g = [try |-> left.tries, cn |-> d.cn, sn |-> d.sn,
              version |-> Min({build.client, build.agent}), grid |-> build.grid,
              offset |-> d.offset]
    BY <1>1, <1>6, <1>7, <1>8, <1>9, <1>10 DEF IsNote
  <1> QED BY <1>1, <1>3, <1>8, <1>11 DEF AgreedOn, g

LEMMA ClientAccepts ==
    ASSUME ShakeTypeOK, Noted, NEW c, ClientOK(c), c.stage = "SentAuth",
           NEW memory, NEW m, Offered(m.tag, Deal)
    PROVE  ClientOK(OnAuthOk(c, memory, m).to)
  <1> DEFINE s == AbsorbReceiveOffset(c.script, m.offset)
             r == RaiseLimit(c.frames)
             d == [c EXCEPT !.stage = "Live", !.offset = m.offset, !.script = <<>>, !.frames = r]
  <1>1. CASE ~Verify(build.id, "zet-s", s, m.tag)
    <2>1. OnAuthOk(c, memory, m).to = Refuse(c, "AuthenticationFailed")
      BY <1>1 DEF OnAuthOk, Refused, Step
    <2> QED BY <2>1, ClientRefuses
  <1>2. CASE Verify(build.id, "zet-s", s, m.tag)
    <2>1. OnAuthOk(c, memory, m).to = d
      BY <1>2 DEF OnAuthOk
    <2>2. StreamOK(r, Deal)
      BY RaiseOK DEF ClientOK
    <2> HIDE DEF r
    <2>3. /\ DOMAIN d = ClientFields /\ d.stage = "Live" /\ d.frames = r /\ d.cn = c.cn
          /\ d.sn = c.sn /\ d.version = c.version /\ d.offset = m.offset
      BY DEF ClientOK, ClientFields
    <2> HIDE DEF d
    <2>4. AgreedOn(d)
      BY <1>2, <2>3, TagsAgree
    <2>5. ClientOK(d)
      BY <2>2, <2>3, <2>4 DEF ClientOK, ClientSaid
    <2> QED BY <2>1, <2>5
  <1> QED BY <1>1, <1>2

LEMMA ClientOpens ==
    ASSUME NEW c, ClientOK(c), c.stage = "Live", NEW m, NEW type
    PROVE  ClientOK(Opened(c, m, type).to) /\ ~Opened(c, m, type).done
  <1> DEFINE d == [c EXCEPT !.stage = "Live"]
             o == Opened(c, m, type)
  <1>1. CASE o.to = Refuse(c, "AuthenticationFailed") \/ o.to = Refuse(c, "UnexpectedMessage")
    BY <1>1, ClientRefuses DEF Opened, Refused, Step
  <1>2. CASE o.to = d
    <2>1. /\ DOMAIN d = ClientFields /\ d.stage = c.stage /\ d.frames = c.frames /\ d.cn = c.cn
          /\ d.sn = c.sn /\ d.version = c.version /\ d.offset = c.offset /\ d.script = c.script
      BY DEF ClientOK, ClientFields
    <2>2. StreamOK(c.frames, Deal)
      BY DEF ClientOK
    <2>3. ~o.done
      BY DEF Opened, Refused, Step
    <2> HIDE DEF d
    <2>4. ClientOK(d)
      BY <2>1, <2>2, ClientAlike
    <2> QED BY <1>2, <2>3, <2>4
  <1> QED BY <1>1, <1>2 DEF Opened, Refused, Step

LEMMA ClientSpeaks ==
    ASSUME NEW c, ClientOK(c), NEW b
    PROVE  ClientOK([c EXCEPT !.spoke = b])
  <1> DEFINE d == [c EXCEPT !.spoke = b]
  <1>1. /\ DOMAIN d = ClientFields /\ d.stage = c.stage /\ d.frames = c.frames /\ d.cn = c.cn
        /\ d.sn = c.sn /\ d.version = c.version /\ d.offset = c.offset /\ d.script = c.script
    BY DEF ClientOK, ClientFields
  <1>2. StreamOK(c.frames, Deal)
    BY DEF ClientOK
  <1> HIDE DEF d
  <1>3. ClientOK(d)
    BY <1>1, <1>2, ClientAlike
  <1> QED BY <1>3 DEF d

LEMMA ClientHandles ==
    ASSUME ShakeTypeOK, Noted, NEW c, ClientOK(c), NEW m,
           m.type = "AuthOk" => Offered(m.tag, Deal)
    PROVE  ClientOK(HandleClient(c, m).to)
  <1>1. CASE c.stage = "SentHello" /\ m.type = "Challenge"
    <2>1. HandleClient(c, m) = OnChallenge(c, seen["client"], m)
      BY <1>1 DEF HandleClient
    <2> QED BY <1>1, <2>1, ClientChallenged
  <1>2. CASE c.stage = "SentAuth" /\ m.type = "AuthOk"
    <2>1. HandleClient(c, m) = OnAuthOk(c, seen["client"], m)
      BY <1>2 DEF HandleClient
    <2> QED BY <1>2, <2>1, ClientAccepts
  <1>3. CASE c.stage = "Live"
    <2>1. HandleClient(c, m) = Opened(c, m, "Data")
      BY <1>3 DEF HandleClient
    <2> QED BY <1>3, <2>1, ClientOpens
  <1>4. CASE /\ ~(c.stage = "SentHello" /\ m.type = "Challenge")
             /\ ~(c.stage = "SentAuth" /\ m.type = "AuthOk")
             /\ c.stage # "Live"
    <2>1. HandleClient(c, m) = Refused(c, "UnexpectedMessage")
      BY <1>4 DEF HandleClient
    <2>2. HandleClient(c, m).to = Refuse(c, "UnexpectedMessage")
      BY <2>1 DEF Refused, Step
    <2> QED BY <2>2, ClientRefuses
  <1> QED BY <1>1, <1>2, <1>3, <1>4
-------------------------------------------------------------------------------
(* The agent *)

LEMMA AgentRefuses ==
    ASSUME NEW a, DOMAIN a = AgentFields, NEW err
    PROVE  AgentOK(Refuse(a, err)) /\ Refuse(a, err).stage = "Failed"
  <1> DEFINE b == Refuse(a, err)
  <1>1. DOMAIN b = AgentFields /\ b.stage = "Failed"
    BY DEF Refuse, AgentFields, ClientFields
  <1> HIDE DEF b
  <1>2. AgentOK(b)
    BY <1>1 DEF AgentOK, AgentSaid, Past
  <1> QED BY <1>1, <1>2 DEF b

LEMMA AgentFrames ==
    ASSUME NEW a, AgentOK(a), NEW s
    PROVE  /\ AgentOK([a EXCEPT !.frames = s])
           /\ [a EXCEPT !.frames = s].stage = a.stage
  <1> DEFINE b == [a EXCEPT !.frames = s]
  <1>1. /\ DOMAIN b = AgentFields /\ b.stage = a.stage /\ b.cn = a.cn /\ b.sn = a.sn
        /\ b.version = a.version /\ b.grid = a.grid /\ b.auth = a.auth /\ b.script = a.script
    BY DEF AgentOK, AgentFields, ClientFields
  <1> HIDE DEF b
  <1>2. ChallengeMessage(b) = ChallengeMessage(a)
    BY <1>1 DEF ChallengeMessage
  <1>3. AgentSaid(b, seen["agent"])
    BY <1>1, <1>2 DEF AgentOK, AgentSaid
  <1>4. AgentOK(b)
    BY <1>1, <1>3 DEF AgentOK
  <1> QED BY <1>1, <1>4 DEF b

LEMMA AgentSpeaks ==
    ASSUME NEW a, AgentOK(a), a.stage \in Past, NEW v
    PROVE  /\ AgentOK([a EXCEPT !.spoke = v]) /\ [a EXCEPT !.spoke = v].stage = a.stage
           /\ AgentOK([a EXCEPT !.stage = "Live"]) /\ [a EXCEPT !.stage = "Live"].stage = "Live"
  <1> DEFINE b == [a EXCEPT !.spoke = v]
             d == [a EXCEPT !.stage = "Live"]
  <1>1. /\ DOMAIN b = AgentFields /\ b.stage = a.stage
        /\ DOMAIN d = AgentFields /\ d.stage = "Live"
    BY DEF AgentOK, AgentFields, ClientFields
  <1> HIDE DEF b, d
  <1>2. AgentOK(b) /\ AgentOK(d)
    BY <1>1 DEF AgentOK, AgentSaid, Past
  <1> QED BY <1>1, <1>2 DEF b, d

LEMMA AgentOpens ==
    ASSUME NEW a, AgentOK(a), a.stage \in Past, NEW m, NEW type
    PROVE  LET o == Opened(a, m, type)
           IN AgentOK(o.to) /\ o.to.stage \in Past /\ o.sent = <<>> /\ ~o.done
  <1> DEFINE d == [a EXCEPT !.stage = "Live"]
             o == Opened(a, m, type)
  <1>1. o.sent = <<>> /\ ~o.done
    BY DEF Opened, Refused, Step
  <1>2. CASE o.to = Refuse(a, "AuthenticationFailed") \/ o.to = Refuse(a, "UnexpectedMessage")
    BY <1>1, <1>2, AgentRefuses DEF AgentOK, Past
  <1>3. CASE o.to = d
    BY <1>1, <1>3, AgentSpeaks DEF Past
  <1> QED BY <1>2, <1>3 DEF Opened, Refused, Step

(***************************************************************************)
(* PumpHello: the nonces of an own session are not remembered yet.         *)
(***************************************************************************)
LEMMA AgentHello ==
    ASSUME NEW a, AgentOK(a), a.stage = "AwaitHello", IsSeq(seen["agent"]),
           NEW m, NEW nonce, NEW offset, NEW k
    PROVE  LET o == OnHello(Route(a, m, nonce, offset), seen["agent"], m)
           IN AgentOK(o.to) /\ Carries(o.sent, k) /\ ~o.done
  <1> DEFINE r == Route(a, m, nonce, offset)
             v == NegotiateVersion(m.min, m.max, build.agent)
             n == [r EXCEPT !.version = v.version, !.cn = m.cn]
             x == ChallengeMessage(n)
             s == Append(Append(n.script, m), x)
             b == [n EXCEPT !.stage = "SentChallenge", !.script = s]
             o == OnHello(r, seen["agent"], m)
  <1> SUFFICES AgentOK(o.to) /\ Carries(o.sent, k) /\ ~o.done
    OBVIOUS
  <1>1. /\ DOMAIN r = AgentFields /\ r.stage = a.stage /\ r.script = a.script /\ r.grid = m.grid
        /\ r.sn = nonce /\ r.auth \in {"ours", "decoy"}
    BY DEF Route, AgentOK, AgentFields, ClientFields
  <1>2. ~o.done
    BY DEF OnHello, Refused, Step
  <1> HIDE DEF r
  <1>3. CASE v.err # "ok" \/ (r.auth = "ours" /\ (Seen(seen["agent"], m.cn) \/ Seen(seen["agent"], r.sn)))
    <2>1. o.sent = <<>> /\ \E err : o.to = Refuse(r, err)
      BY <1>3 DEF OnHello, Refused, Step
    <2> HIDE DEF o
    <2> QED BY <1>1, <1>2, <2>1, AgentRefuses, CarriesNothing
  <1>4. CASE v.err = "ok" /\ ~(r.auth = "ours" /\ (Seen(seen["agent"], m.cn) \/ Seen(seen["agent"], r.sn)))
    <2>1. o.to = b /\ o.sent = FrameOf(x)
      BY <1>4 DEF OnHello, Refused, Step, Absorb
    <2>2. Answered(m, build.agent, v.version)
      BY <1>4 DEF Answered, NegotiateVersion
    <2> HIDE DEF v
    <2>3. /\ DOMAIN n = AgentFields /\ n.script = a.script /\ n.grid = m.grid
          /\ n.sn = nonce /\ n.auth = r.auth /\ n.cn = m.cn /\ n.version = v.version
      BY <1>1 DEF AgentFields, ClientFields
    <2> HIDE DEF n
    <2>4. a.script = <<>>
      BY DEF AgentOK, AgentSaid
    <2>5. s = <<m, x>>
      <3> HIDE DEF x
      <3> QED BY <2>3, <2>4, Appends
    <2>6. /\ "type" \in DOMAIN x /\ x.type = "Challenge"
      BY DEF ChallengeMessage
    <2>7. Carries(FrameOf(x), k)
      <3> HIDE DEF x
      <3>1. BodyLength(x) \in Nat
        BY <2>6 DEF BodyLength
      <3> QED BY <2>6, <3>1, FrameCarries
    <2> HIDE DEF s
    <2>8. /\ DOMAIN b = AgentFields /\ b.stage = "SentChallenge" /\ b.script = s /\ b.grid = m.grid
          /\ b.sn = nonce /\ b.auth = r.auth /\ b.cn = m.cn /\ b.version = v.version
      BY <2>3 DEF AgentFields, ClientFields
    <2> HIDE DEF b
    <2>9. ChallengeMessage(b) = x
      BY <2>3, <2>8 DEF ChallengeMessage
    <2>10. r.auth = "ours" => {m.cn, nonce} \cap Range(seen["agent"]) = {}
      BY <1>1, <1>4, SeenHolds
    <2> HIDE DEF x
    <2>11. AgentSaid(b, seen["agent"])
      BY <1>1, <2>2, <2>5, <2>8, <2>9, <2>10 DEF AgentSaid
    <2>12. AgentOK(b)
      BY <2>8, <2>11 DEF AgentOK
    <2> HIDE DEF o
    <2> QED BY <1>2, <2>1, <2>7, <2>12
  <1> QED BY <1>3, <1>4

LEMMA NotYet ==
    ASSUME NEW d, ~Finished(d), NEW k
    PROVE  /\ \A s : Carries(s, d) => Carries(s, k)
           /\ \A s : StreamOK(s, d) => StreamOK(s, k)
  <1>1. \A f : FromAgent(f, d) => FromAgent(f, k)
    BY DEF FromAgent, Offered
  <1>2. \A s : Carries(s, d) => Carries(s, k)
    BY <1>1 DEF Carries
  <1> QED BY <1>2 DEF StreamOK

(***************************************************************************)
(* OnAuth: an AuthOk tells what the agent notes.                           *)
(***************************************************************************)
LEMMA AgentAccepts ==
    ASSUME NEW a, AgentOK(a), a.stage = "SentChallenge", NEW m, OnAuth(a, m).done,
           NEW k, k.notes # <<>>, k.max = build.agent,
           Newest(k.notes) = [try |-> k.tries, cn |-> a.cn, sn |-> a.sn, version |-> a.version,
                            grid |-> a.grid, offset |-> a.offset]
    PROVE  LET o == OnAuth(a, m)
           IN /\ AgentOK(o.to) /\ o.to.stage = "AwaitResume" /\ Carries(o.sent, k)
              /\ o.to.cn = a.cn /\ o.to.sn = a.sn /\ o.to.version = a.version
              /\ o.to.grid = a.grid /\ o.to.offset = a.offset
              /\ {a.cn, a.sn} \cap Range(seen["agent"]) = {}
  <1> DEFINE o == OnAuth(a, m)
             g == Newest(k.notes)
             s == Append(Append(a.script, m), a.offset)
             t == Tag("ours", "zet-s", s)
             x == AuthOkMessage(t, a.offset)
             r == RaiseLimit(a.frames)
             b == [a EXCEPT !.stage = "AwaitResume", !.script = <<>>, !.frames = r]
             h == a.script[1]
  <1>1. /\ a.auth \in {"ours", "decoy"} /\ a.script = <<h, ChallengeMessage(a)>>
        /\ h.cn = a.cn /\ h.grid = a.grid /\ Answered(h, build.agent, a.version)
        /\ a.auth = "ours" => {a.cn, a.sn} \cap Range(seen["agent"]) = {}
    BY DEF AgentOK, AgentSaid
  <1>2. a.auth = "ours" /\ o.to = b /\ o.sent = FrameOf(x)
    BY <1>1 DEF OnAuth, Refused, Step, Absorb, AbsorbReceiveOffset
  <1>3. s = <<h, ChallengeMessage(a), m, a.offset>>
    <2> DEFINE y == ChallengeMessage(a)
    <2>1. a.script = <<h, y>>
      BY <1>1
    <2> HIDE DEF h, y
    <2>2. Append(a.script, m) = <<h, y, m>>
      BY <2>1, Appends
    <2>3. s = <<h, y, m, a.offset>>
      BY <2>2, Appends
    <2> QED BY <2>3 DEF y
  <1>4. /\ g.try = k.tries /\ g.cn = a.cn /\ g.sn = a.sn /\ g.version = a.version
        /\ g.grid = a.grid /\ g.offset = a.offset
    OBVIOUS
  <1> HIDE DEF g, h, s
  <1>5. ChallengeMessage(g) = ChallengeMessage(a)
    BY <1>4 DEF ChallengeMessage
  <1>6. s[1] = h /\ s[2] = ChallengeMessage(g) /\ s[4] = g.offset /\ t[3] = s
    BY <1>3, <1>4, <1>5 DEF Tag
  <1>7. s = <<s[1], ChallengeMessage(g), s[3], g.offset>>
    BY <1>3, <1>4, <1>5
  <1>8. s[1].cn = g.cn /\ s[1].grid = g.grid /\ Answered(s[1], k.max, g.version)
    BY <1>1, <1>4, <1>6
  <1>9. Finished(k)
    BY <1>4 DEF Finished, g
  <1>10. Offered(t, k)
    <2> HIDE DEF t
    <2>1. t = Tag("ours", "zet-s", s)
      BY DEF t
    <2> QED BY <1>6, <1>7, <1>8, <1>9, <2>1 DEF Offered, g
  <1> HIDE DEF t
  <1>11. {"type", "tag"} \subseteq DOMAIN x /\ x.type = "AuthOk" /\ x.tag = t
    BY DEF AuthOkMessage
  <1> HIDE DEF x
  <1>12. BodyLength(x) \in Nat
    BY <1>11 DEF BodyLength
  <1>13. Carries(FrameOf(x), k)
    BY <1>10, <1>11, <1>12, FrameCarries
  <1> HIDE DEF r
  <1>14. /\ DOMAIN b = AgentFields /\ b.stage = "AwaitResume" /\ b.cn = a.cn /\ b.sn = a.sn
         /\ b.version = a.version /\ b.grid = a.grid /\ b.offset = a.offset
    BY DEF AgentOK, AgentFields, ClientFields
  <1> HIDE DEF b
  <1>15. AgentOK(b)
    BY <1>14 DEF AgentOK, AgentSaid, Past
  <1> QED BY <1>1, <1>2, <1>13, <1>14, <1>15
-------------------------------------------------------------------------------
(* Steps of the connection *)

(***************************************************************************)
(* What has to be looked at after a step that ends no handshake at the     *)
(* agent.                                                                  *)
(***************************************************************************)
LEMMA StepKeeps ==
    ASSUME ShakeInv, UNCHANGED <<build, agreed>>,
           left'.tries = left.tries,
           left' \in [tries : Nat, changes : Nat, id : {"ours", "other"}],
           DOMAIN conn' = Sides, DOMAIN pipe' = Sides, DOMAIN seen' = Sides,
           seen'["agent"] = seen["agent"],
           ClientOK(conn'["client"]), AgentOK(conn'["agent"]),
           conn["agent"].stage \in Past => conn'["agent"].stage \in Past,
           Carries(pipe'["client"], Deal)
    PROVE  ShakeInv'
  <1>1. ShakeTypeOK'
    BY DEF ShakeInv, ShakeTypeOK
  <1>2. Deal' = Deal
    BY DEF Deal
  <1>3. Noted'
    BY DEF ShakeInv, Noted
  <1>4. FreshKeys'
    BY DEF ShakeInv, FreshKeys
  <1>5. AgentOK(conn["agent"])'
    BY DEF AgentOK, AgentSaid
  <1>6. ClientOK(conn["client"])'
    <2>1. ClientSaid(conn["client"])'
      BY DEF ClientOK, ClientSaid, HelloMessage
    <2>2. (conn["client"].stage = "Live" => AgreedOn(conn["client"]))'
      BY DEF ClientOK, AgreedOn
    <2> QED BY <1>2, <2>1, <2>2 DEF ClientOK
  <1> QED BY <1>1, <1>2, <1>3, <1>4, <1>5, <1>6 DEF ShakeInv

LEMMA ClientKeeps ==
    ASSUME ShakeInv, NEW o, Does("client", o), ClientOK(o.to)
    PROVE  ShakeInv'
  <1>1. UNCHANGED <<build, left, agreed>>
    BY DEF Does
  <1>2. DOMAIN conn = Sides /\ DOMAIN pipe = Sides /\ DOMAIN seen = Sides
    BY DEF ShakeInv, ShakeTypeOK
  <1>3. /\ DOMAIN conn' = Sides /\ conn'["client"] = o.to /\ conn'["agent"] = conn["agent"]
    BY <1>2 DEF Does, Sides
  <1>4. DOMAIN pipe' = Sides /\ pipe'["client"] = pipe["client"]
    BY <1>2 DEF Does, Sides, Opposite
  <1>5. DOMAIN seen' = Sides /\ seen'["agent"] = seen["agent"]
    BY <1>2 DEF Does, Sides
  <1>6. /\ AgentOK(conn["agent"]) /\ Carries(pipe["client"], Deal)
        /\ left \in [tries : Nat, changes : Nat, id : {"ours", "other"}]
    BY DEF ShakeInv, ShakeTypeOK
  <1> QED BY <1>1, <1>3, <1>4, <1>5, <1>6, StepKeeps

LEMMA AgentKeeps ==
    ASSUME ShakeInv, NEW o, Does("agent", o), ~o.done, AgentOK(o.to), Carries(o.sent, Deal),
           conn["agent"].stage \in Past => o.to.stage \in Past
    PROVE  ShakeInv'
  <1>1. UNCHANGED <<build, left, agreed, seen>>
    BY DEF Does
  <1>2. DOMAIN conn = Sides /\ DOMAIN pipe = Sides /\ DOMAIN seen = Sides
    BY DEF ShakeInv, ShakeTypeOK
  <1>3. /\ DOMAIN conn' = Sides /\ conn'["agent"] = o.to /\ conn'["client"] = conn["client"]
    BY <1>2 DEF Does, Sides
  <1>4. DOMAIN pipe' = Sides /\ pipe'["client"] = pipe["client"] \o o.sent
    BY <1>2 DEF Does, Sides, Opposite
  <1>5. /\ ClientOK(conn["client"]) /\ Carries(pipe["client"], Deal)
        /\ left \in [tries : Nat, changes : Nat, id : {"ours", "other"}]
    BY DEF ShakeInv, ShakeTypeOK
  <1>6. Carries(pipe["client"] \o o.sent, Deal)
    BY <1>5, CarriesConcat
  <1> QED BY <1>1, <1>2, <1>3, <1>4, <1>5, <1>6, StepKeeps

(***************************************************************************)
(* The end of a handshake at the agent.  Before it nothing on its way to   *)
(* the client is an AuthOk, and the client cannot be live.                 *)
(***************************************************************************)
LEMMA AuthKeeps ==
    ASSUME ShakeInv, conn["agent"].stage = "SentChallenge",
           NEW a, AgentOK(a), a.stage = "SentChallenge",
           NEW m, OnAuth(a, m).done, Does("agent", OnAuth(a, m))
    PROVE  ShakeInv'
  <1> DEFINE o == OnAuth(a, m)
             g == [try |-> left.tries, cn |-> a.cn, sn |-> a.sn, version |-> a.version,
                   grid |-> a.grid, offset |-> a.offset]
             last == Newest(agreed)
             notes == IF agreed = <<>> THEN <<g>> ELSE <<last, g>>
             k == [notes |-> notes, tries |-> left.tries, max |-> build.agent]
             c == conn["client"]
             memory == seen["agent"]
  <1>1. /\ DOMAIN conn = Sides /\ DOMAIN pipe = Sides /\ DOMAIN seen = Sides /\ IsSeq(memory)
        /\ left \in [tries : Nat, changes : Nat, id : {"ours", "other"}]
        /\ build.client \in Nat /\ build.agent \in Nat
    BY DEF ShakeInv, ShakeTypeOK
  <1>2. ~Finished(Deal)
    <2>1. ~(agreed # <<>> /\ last.try = left.tries)
      BY <1>1 DEF ShakeInv, Noted, Past
    <2> QED BY <2>1 DEF Finished, Deal
  <1>3. notes # <<>> /\ Newest(notes) = g /\ Newest(k.notes) = g /\ k.notes = notes
    <2> HIDE DEF g, last
    <2>1. \A x, y : Newest(<<x>>) = x /\ Newest(<<x, y>>) = y
      BY DEF Newest
    <2>2. notes # <<>> /\ Newest(notes) = g
      BY SMTT(30), <2>1
    <2> QED BY <2>2
  <1>4. /\ AgentOK(o.to) /\ o.to.stage = "AwaitResume" /\ Carries(o.sent, k)
        /\ o.to.cn = a.cn /\ o.to.sn = a.sn /\ o.to.version = a.version
        /\ o.to.grid = a.grid /\ o.to.offset = a.offset
        /\ {a.cn, a.sn} \cap Range(memory) = {}
    <2>1. k.max = build.agent /\ k.tries = left.tries
      OBVIOUS
    <2> HIDE DEF k, notes
    <2> QED BY <1>3, <2>1, AgentAccepts
  <1> HIDE DEF o
  <1>5. UNCHANGED <<build, left>>
    BY DEF Does
  <1>6. agreed' = notes
    <2>1. agreed' = IF o.done
                    THEN Append(IF agreed = <<>> THEN <<>> ELSE <<last>>,
                                [try |-> left.tries, cn |-> o.to.cn, sn |-> o.to.sn,
                                 version |-> o.to.version, grid |-> o.to.grid,
                                 offset |-> o.to.offset])
                    ELSE agreed
      BY Zenon DEF Does, o, Newest
    <2>2. o.done
      BY DEF o
    <2>3. agreed' = Append(IF agreed = <<>> THEN <<>> ELSE <<last>>, g)
      BY <1>4, <2>1, <2>2
    <2> HIDE DEF g, last
    <2>4. CASE agreed = <<>>
      BY <2>3, <2>4, Appends, Zenon
    <2>5. CASE agreed # <<>>
      BY <2>3, <2>5, Appends, Zenon
    <2> QED BY <2>4, <2>5, Zenon
  <1>7. /\ DOMAIN conn' = Sides /\ conn'["agent"] = o.to /\ conn'["client"] = c
    BY <1>1 DEF Does, Sides, o
  <1>8. DOMAIN pipe' = Sides /\ pipe'["client"] = pipe["client"] \o o.sent
    <2>1. pipe' = [pipe EXCEPT !["client"] = @ \o o.sent] /\ "client" \in DOMAIN pipe
      BY <1>1, Zenon DEF Does, Sides, Opposite, o
    <2> QED BY <1>1, <2>1, Zenon
  <1> DEFINE r == Remember(memory, a.cn)
             q == Remember(r, a.sn)
  <1>9. DOMAIN seen' = Sides /\ seen'["agent"] = q
    <2>1. o.done
      BY DEF o
    <2>2. seen' = [seen EXCEPT !["agent"] = Remember(Remember(seen["agent"], o.to.cn), o.to.sn)]
      BY <2>1 DEF Does, o
    <2> QED BY <1>1, <1>4, <2>2 DEF Sides
  <1>10. IsSeq(q) /\ {a.cn, a.sn} \subseteq Range(q)
    <2>1. IsSeq(r) /\ Len(r) > 0 /\ r[Len(r)] = a.cn
      BY <1>1, RememberLast
    <2> HIDE DEF r
    <2>2. IsSeq(q) /\ a.sn \in Range(q) /\ r[Len(r)] \in Range(q)
      BY <2>1, RememberLast
    <2> QED BY <2>1, <2>2
  <1> HIDE DEF q
  <1>11. Deal' = k
    BY SMTT(30), <1>5, <1>6 DEF Deal
  <1>12. ShakeTypeOK'
    <2>1. agreed' \in {<<>>, <<agreed'[1]>>, <<agreed'[1], agreed'[2]>>}
      <3> HIDE DEF g, last
      <3>1. \A x, y : <<x>>[1] = x /\ <<x, y>>[1] = x /\ <<x, y>>[2] = y
        OBVIOUS
      <3>2. agreed' = <<g>> \/ agreed' = <<last, g>>
        BY <1>6
      <3>3. CASE agreed' = <<g>>
        <4>1. agreed'[1] = g
          BY <3>3
        <4> QED BY <3>3, <4>1
      <3>4. CASE agreed' = <<last, g>>
        <4>1. agreed'[1] = last /\ agreed'[2] = g
          BY <3>4
        <4> QED BY <3>4, <4>1
      <3> QED BY <3>2, <3>3, <3>4
    <2> QED BY <1>1, <1>5, <1>7, <1>8, <1>9, <1>10, <2>1 DEF ShakeTypeOK
  <1>13. Noted'
    <2>1. /\ g.try = left.tries /\ g.cn = a.cn /\ g.sn = a.sn /\ IsNote(g)
      BY DEF IsNote
    <2> HIDE DEF g
    <2>2. Newest(agreed)' = g
      BY <1>3, <1>6
    <2>3. left.tries \in Nat
      BY <1>1
    <2> HIDE DEF notes
    <2>4. left'.tries = left.tries
      BY <1>5
    <2> QED BY SMTT(30), <1>4, <1>7, <1>9, <1>10, <2>1, <2>2, <2>3, <2>4 DEF Noted, Past, IsNote
  <1>14. FreshKeys'
    <2> SUFFICES ASSUME Len(notes) = 2
                 PROVE  {notes[1].cn, notes[1].sn} \cap {notes[2].cn, notes[2].sn} = {}
      BY <1>6 DEF FreshKeys
    <2>1. g.cn = a.cn /\ g.sn = a.sn
      OBVIOUS
    <2> HIDE DEF g, last
    <2>2. agreed # <<>> /\ notes[1] = last /\ notes[2] = g
      <3>1. \A x : Len(<<x>>) = 1
        OBVIOUS
      <3> QED BY <3>1
    <2>3. {last.cn, last.sn} \subseteq Range(memory)
      BY <2>2 DEF ShakeInv, Noted, last
    <2> HIDE DEF notes
    <2> QED BY <1>4, <2>1, <2>2, <2>3
  <1>15. AgentOK(conn["agent"])'
    BY Zenon, <1>4, <1>7 DEF AgentOK, AgentSaid
  <1>16. ClientOK(conn["client"])'
    <2>1. ClientOK(c)
      BY DEF ShakeInv
    <2>2. c.stage # "Live"
      BY <1>2, <2>1 DEF ClientOK, AgreedOn, Finished, Deal
    <2> HIDE DEF k
    <2>3. StreamOK(c.frames, k)
      BY SMTT(30), <1>2, <2>1, NotYet DEF ClientOK
    <2>4. ClientSaid(conn["client"])'
      BY <1>5, <1>7, <2>1 DEF ClientOK, ClientSaid, HelloMessage
    <2> QED BY <1>7, <1>11, <2>1, <2>2, <2>3, <2>4 DEF ClientOK
  <1>17. Carries(pipe["client"], Deal)'
    <2> HIDE DEF k
    <2>1. Carries(pipe["client"], k)
      BY <1>2, NotYet DEF ShakeInv
    <2>2. Carries(pipe["client"] \o o.sent, k)
      BY <1>4, <2>1, CarriesConcat
    <2> QED BY <1>8, <1>11, <2>2
  <1> QED BY <1>12, <1>13, <1>14, <1>15, <1>16, <1>17 DEF ShakeInv

LEMMA FoundOK ==
    ASSUME ShakeInv
    PROVE  /\ StreamOK(Found("client").stream, Deal)
           /\ Found("client").err = "ok" /\ Found("client").body.type = "AuthOk"
                => Offered(Found("client").body.tag, Deal)
  <1>1. StreamOK(conn["client"].frames, Deal)
    BY DEF ShakeInv, ClientOK
  <1> QED BY <1>1, NextOK DEF Found

LEMMA RefusalKeeps ==
    ASSUME ShakeInv, NEW e \in Sides, NEW err, Does(e, Refused(conn[e], err))
    PROVE  ShakeInv'
  <1> DEFINE o == Refused(conn[e], err)
  <1>1. o.to = Refuse(conn[e], err) /\ o.sent = <<>> /\ ~o.done
    BY DEF Refused, Step
  <1> HIDE DEF o
  <1>2. CASE e = "client"
    <2>1. ClientOK(o.to)
      BY <1>1, <1>2, ClientRefuses DEF ShakeInv
    <2> QED BY <1>2, <2>1, ClientKeeps DEF o
  <1>3. CASE e = "agent"
    <2>1. AgentOK(o.to) /\ o.to.stage \in Past
      BY <1>1, <1>3, AgentRefuses DEF ShakeInv, AgentOK, Past
    <2>2. Carries(o.sent, Deal)
      BY <1>1, CarriesNothing
    <2> QED BY <1>1, <1>3, <2>1, <2>2, AgentKeeps DEF o
  <1> QED BY <1>2, <1>3 DEF Sides

LEMMA HelloKeeps ==
    ASSUME ShakeInv, SendHello
    PROVE  ShakeInv'
  <1> DEFINE o == Start(conn["client"], seen["client"])
  <1>1. ClientOK(o.to)
    BY ClientStarts DEF ShakeInv, SendHello
  <1>2. Does("client", o)
    BY DEF SendHello
  <1> HIDE DEF o
  <1> QED BY <1>1, <1>2, ClientKeeps

LEMMA PumpHelloKeeps ==
    ASSUME ShakeInv, PumpHello
    PROVE  ShakeInv'
  <1> DEFINE a == [conn["agent"] EXCEPT !.frames = Found("agent").stream]
             m == Found("agent").body
  <1>1. AgentOK(a) /\ a.stage = conn["agent"].stage
    BY AgentFrames DEF ShakeInv
  <1>2. a.stage = "AwaitHello" /\ conn["agent"].stage \notin Past
    BY <1>1 DEF PumpHello, Past
  <1>3. CASE m.type # "Hello"
    <2> DEFINE o == Refused(a, "UnexpectedMessage")
    <2>1. Does("agent", o)
      BY <1>3 DEF PumpHello
    <2> HIDE DEF a
    <2>2. o.to = Refuse(a, "UnexpectedMessage") /\ o.sent = <<>> /\ ~o.done
      BY DEF Refused, Step
    <2> HIDE DEF o
    <2>3. AgentOK(o.to)
      BY <1>1, <2>2, AgentRefuses DEF AgentOK
    <2>4. Carries(o.sent, Deal)
      BY <2>2, CarriesNothing
    <2> QED BY <1>2, <2>1, <2>2, <2>3, <2>4, AgentKeeps
  <1>4. CASE m.type = "Hello"
    <2>1. PICK nonce \in RandomNonce, offset \in Offsets :
             Does("agent", OnHello(Route(a, m, nonce, offset), seen["agent"], m))
      BY <1>4 DEF PumpHello
    <2> DEFINE o == OnHello(Route(a, m, nonce, offset), seen["agent"], m)
    <2> HIDE DEF a, m
    <2>2. IsSeq(seen["agent"])
      BY SMTT(30) DEF ShakeInv, ShakeTypeOK
    <2>3. AgentOK(o.to) /\ Carries(o.sent, Deal) /\ ~o.done
      BY <1>1, <1>2, <2>2, AgentHello
    <2>4. Does("agent", o)
      BY <2>1
    <2> HIDE DEF o
    <2> QED BY <1>2, <2>3, <2>4, AgentKeeps
  <1> QED BY <1>3, <1>4

LEMMA ClientPumpKeeps ==
    ASSUME ShakeInv, Pump("client")
    PROVE  ShakeInv'
  <1> DEFINE c == [conn["client"] EXCEPT !.frames = Found("client").stream]
             m == Found("client").body
             o == HandleClient(c, m)
  <1>1. Does("client", o) /\ Found("client").err = "ok"
    BY DEF Pump
  <1>2. ClientOK(c)
    BY FoundOK, ClientFrames DEF ShakeInv
  <1>3. m.type = "AuthOk" => Offered(m.tag, Deal)
    BY <1>1, FoundOK
  <1> HIDE DEF c, m
  <1>4. ClientOK(o.to)
    BY <1>2, <1>3, ClientHandles DEF ShakeInv
  <1> HIDE DEF o
  <1> QED BY <1>1, <1>4, ClientKeeps

LEMMA AgentPumpKeeps ==
    ASSUME ShakeInv, Pump("agent")
    PROVE  ShakeInv'
  <1> DEFINE a == [conn["agent"] EXCEPT !.frames = Found("agent").stream]
             m == Found("agent").body
             o == HandleAgent(a, m)
  <1>1. Does("agent", o)
    BY DEF Pump
  <1>2. AgentOK(a) /\ a.stage = conn["agent"].stage
    BY AgentFrames DEF ShakeInv
  <1> HIDE DEF a, m
  <1>3. ASSUME NEW x, x = "UnexpectedMessage" \/ x = "AuthenticationFailed" \/ x = "NotAuthenticated",
               o = Refused(a, x)
        PROVE  ShakeInv'
    <2>1. o.to = Refuse(a, x) /\ o.sent = <<>> /\ ~o.done
      BY <1>3 DEF Refused, Step
    <2> HIDE DEF o
    <2>2. AgentOK(o.to) /\ o.to.stage \in Past
      BY <1>2, <2>1, AgentRefuses DEF AgentOK, Past
    <2>3. Carries(o.sent, Deal)
      BY <2>1, CarriesNothing
    <2> QED BY <1>1, <2>1, <2>2, <2>3, AgentKeeps
  <1>4. CASE a.stage = "SentChallenge" /\ m.type = "Auth"
    <2>1. o = OnAuth(a, m)
      BY <1>4 DEF HandleAgent
    <2>2. CASE OnAuth(a, m).done
      BY <1>1, <1>2, <1>4, <2>1, <2>2, AuthKeeps
    <2>3. CASE ~OnAuth(a, m).done
      <3>1. OnAuth(a, m) = Refused(a, "AuthenticationFailed") \/ OnAuth(a, m) = Refused(a, "NotAuthenticated")
        BY <2>3 DEF OnAuth
      <3> QED BY <1>3, <2>1, <3>1
    <2> QED BY <2>2, <2>3
  <1>5. CASE a.stage \in {"AwaitResume", "Live"}
    <2>1. PICK type : o = Opened(a, m, type)
      BY <1>5 DEF HandleAgent
    <2>2. a.stage \in Past
      BY <1>5 DEF Past
    <2>3. AgentOK(o.to) /\ o.to.stage \in Past /\ o.sent = <<>> /\ ~o.done
      BY <1>2, <2>1, <2>2, AgentOpens
    <2> HIDE DEF o
    <2>4. Carries(o.sent, Deal)
      BY <2>3, CarriesNothing
    <2> QED BY <1>1, <2>3, <2>4, AgentKeeps
  <1>6. CASE ~(a.stage = "SentChallenge" /\ m.type = "Auth") /\ a.stage \notin {"AwaitResume", "Live"}
    <2>1. o = Refused(a, "UnexpectedMessage")
      BY <1>6 DEF HandleAgent
    <2> QED BY <1>3, <2>1
  <1> QED BY <1>4, <1>5, <1>6

LEMMA SpeakKeeps ==
    ASSUME ShakeInv, NEW e \in Sides, Speak(e)
    PROVE  ShakeInv'
  <1> DEFINE x == LiveMessage(conn[e])
             y == [conn[e] EXCEPT !.spoke = TRUE]
             o == Step(y, FrameOf(x))
  <1>1. Does(e, o) /\ conn[e].stage = "Live"
    BY DEF Speak
  <1>2. "type" \in DOMAIN x /\ x.type = "Data"
    BY DEF LiveMessage
  <1>3. Carries(FrameOf(x), Deal)
    <2> HIDE DEF x
    <2>1. BodyLength(x) \in Nat
      BY <1>2, FrameLimitsAssumption DEF BodyLength
    <2> QED BY <1>2, <2>1, FrameCarries
  <1>4. CASE e = "client"
    <2>1. ClientOK(y)
      BY <1>4, ClientSpeaks DEF ShakeInv
    <2> HIDE DEF y, x
    <2>2. o.to = y
      BY DEF Step
    <2> HIDE DEF o
    <2> QED BY <1>1, <1>4, <2>1, <2>2, ClientKeeps
  <1>5. CASE e = "agent"
    <2>1. AgentOK(y) /\ y.stage = "Live"
      BY <1>1, <1>5, AgentSpeaks DEF ShakeInv, Past
    <2> HIDE DEF y, x
    <2>2. o.to = y /\ o.sent = FrameOf(x) /\ ~o.done
      BY DEF Step
    <2> HIDE DEF o
    <2> QED BY <1>1, <1>3, <1>5, <2>1, <2>2, AgentKeeps DEF Past
  <1> QED BY <1>4, <1>5 DEF Sides

LEMMA ClientReadKeeps ==
    ASSUME ShakeInv, ReadSocket("client")
    PROVE  ShakeInv'
  <1> DEFINE c == conn["client"]
             p == pipe["client"]
             most == Min({ReadRoom(c.frames), Len(p)})
  <1>1. PICK n \in {1, most} :
           LET r == Appended(c.frames, SubSeq(p, 1, n))
           IN /\ conn' = [conn EXCEPT !["client"] =
                            IF r.err # "ok" THEN Refuse(c, r.err)
                            ELSE [c EXCEPT !.frames = r.stream]]
              /\ pipe' = [pipe EXCEPT !["client"] = SubSeq(p, n + 1, Len(p))]
    BY DEF ReadSocket
  <1>2. most > 0 /\ UNCHANGED <<build, seen, left, agreed>>
    BY DEF ReadSocket
  <1>3. /\ ClientOK(c) /\ AgentOK(conn["agent"]) /\ Carries(p, Deal)
        /\ DOMAIN conn = Sides /\ DOMAIN pipe = Sides /\ DOMAIN seen = Sides
        /\ left \in [tries : Nat, changes : Nat, id : {"ours", "other"}]
    BY DEF ShakeInv, ShakeTypeOK
  <1>4. StreamOK(c.frames, Deal)
    BY <1>3 DEF ClientOK
  <1>5. Len(p) \in Nat
    BY <1>3 DEF Carries, IsSeq
  <1>6. ReadRoom(c.frames) \in Int
    <2>1. /\ c.frames.limit \in Nat /\ c.frames.pending \in Nat /\ Len(c.frames.held) \in Nat
      BY <1>4 DEF StreamOK, Carries, IsSeq
    <2> DEFINE x == c.frames.limit
               y == c.frames.pending
               z == Len(c.frames.held)
    <2>2. ReadRoom(c.frames) = (HeaderSize + x) - (z - y)
      BY DEF ReadRoom, Capacity
    <2> HIDE DEF x, y, z
    <2>3. x \in Nat /\ y \in Nat /\ z \in Nat /\ HeaderSize \in Nat
      BY <2>1, FrameLimitsAssumption DEF x, y, z
    <2> QED BY <2>2, <2>3
  <1>7. most \in Int /\ most <= Len(p)
    <2> DEFINE x == ReadRoom(c.frames)
               y == Len(p)
    <2> HIDE DEF x, y
    <2>1. x \in Int /\ y \in Nat
      BY <1>5, <1>6 DEF x, y
    <2>2. \E v \in {x, y} : \A w \in {x, y} : v <= w
      BY <2>1
    <2>3. Min({x, y}) \in {x, y} /\ \A w \in {x, y} : Min({x, y}) <= w
      BY <2>2 DEF Min
    <2>4. Min({x, y}) \in Int /\ Min({x, y}) <= y
      BY <2>1, <2>3
    <2> QED BY <2>4 DEF x, y
  <1> HIDE DEF most
  <1>8. n \in Nat \ {0} /\ n <= Len(p) /\ n + 1 \in Nat \ {0}
    BY <1>2, <1>5, <1>7
  <1> DEFINE t == SubSeq(p, 1, n)
             r == Appended(c.frames, t)
             x == IF r.err # "ok" THEN Refuse(c, r.err) ELSE [c EXCEPT !.frames = r.stream]
  <1>9. Carries(t, Deal) /\ Carries(SubSeq(p, n + 1, Len(p)), Deal)
    BY <1>3, <1>5, <1>8, CarriesPart
  <1>10. ClientOK(x)
    <2>1. CASE r.err # "ok"
      BY <1>3, <2>1, ClientRefuses
    <2>2. CASE r.err = "ok"
      <3> HIDE DEF t
      <3>1. StreamOK(r.stream, Deal)
        BY <1>4, <1>9, <2>2, AppendedOK
      <3> HIDE DEF r
      <3> QED BY <1>3, <2>2, <3>1, ClientFrames
    <2> QED BY <2>1, <2>2
  <1>11. /\ conn' = [conn EXCEPT !["client"] = x]
         /\ pipe' = [pipe EXCEPT !["client"] = SubSeq(p, n + 1, Len(p))]
    BY <1>1
  <1> HIDE DEF x, c, p
  <1>12. DOMAIN conn' = Sides /\ conn'["client"] = x /\ conn'["agent"] = conn["agent"]
    BY <1>3, <1>11 DEF Sides
  <1>13. DOMAIN pipe' = Sides /\ pipe'["client"] = SubSeq(p, n + 1, Len(p))
    BY <1>3, <1>11 DEF Sides
  <1> QED BY <1>2, <1>3, <1>9, <1>10, <1>12, <1>13, StepKeeps

LEMMA AgentReadKeeps ==
    ASSUME ShakeInv, ReadSocket("agent")
    PROVE  ShakeInv'
  <1> DEFINE a == conn["agent"]
  <1>1. PICK n :
           LET r == Appended(a.frames, SubSeq(pipe["agent"], 1, n))
           IN /\ conn' = [conn EXCEPT !["agent"] =
                            IF r.err # "ok" THEN Refuse(a, r.err)
                            ELSE [a EXCEPT !.frames = r.stream]]
              /\ pipe' = [pipe EXCEPT !["agent"] = SubSeq(@, n + 1, Len(@))]
    BY DEF ReadSocket
  <1>2. UNCHANGED <<build, seen, left, agreed>>
    BY DEF ReadSocket
  <1>3. /\ AgentOK(a) /\ ClientOK(conn["client"]) /\ Carries(pipe["client"], Deal)
        /\ DOMAIN conn = Sides /\ DOMAIN pipe = Sides /\ DOMAIN seen = Sides
        /\ left \in [tries : Nat, changes : Nat, id : {"ours", "other"}]
    BY DEF ShakeInv, ShakeTypeOK
  <1> DEFINE r == Appended(a.frames, SubSeq(pipe["agent"], 1, n))
             x == IF r.err # "ok" THEN Refuse(a, r.err) ELSE [a EXCEPT !.frames = r.stream]
  <1>4. AgentOK(x) /\ (a.stage \in Past => x.stage \in Past)
    <2> HIDE DEF r, a
    <2>1. CASE r.err # "ok"
      BY <1>3, <2>1, AgentRefuses DEF AgentOK, Past
    <2>2. CASE r.err = "ok"
      BY <1>3, <2>2, AgentFrames
    <2> QED BY <2>1, <2>2
  <1>5. conn' = [conn EXCEPT !["agent"] = x]
    BY <1>1
  <1> HIDE DEF x
  <1>6. DOMAIN conn' = Sides /\ conn'["agent"] = x /\ conn'["client"] = conn["client"]
    BY <1>3, <1>5 DEF Sides
  <1>7. DOMAIN pipe' = Sides /\ pipe'["client"] = pipe["client"]
    BY <1>1, <1>3 DEF Sides
  <1> QED BY <1>2, <1>3, <1>4, <1>6, <1>7, StepKeeps

(***************************************************************************)
(* A message that is changed keeps the tag of an AuthOk, which is what the *)
(* client verifies.                                                        *)
(***************************************************************************)
LEMMA ChangedOK ==
    ASSUME NEW k, NEW f, FromAgent(f, k),
           NEW g \in {[f EXCEPT !.body = m] : m \in Changes(f.body)}
                        \cup {[f EXCEPT !.length = n] : n \in {0, MaxFrame + 1}}
    PROVE  FromAgent(g, k)
  <1> DEFINE b == f.body
  <1>1. /\ {"length", "body"} \subseteq DOMAIN f /\ f.length \in Nat /\ "type" \in DOMAIN b
        /\ b.type = "AuthOk" => "tag" \in DOMAIN b /\ Offered(b.tag, k)
    BY DEF FromAgent
  <1>2. CASE g \in {[f EXCEPT !.length = n] : n \in {0, MaxFrame + 1}}
    <2>1. PICK n \in {0, MaxFrame + 1} : g = [f EXCEPT !.length = n]
      BY <1>2
    <2>2. n \in Nat
      BY FrameLimitsAssumption
    <2>3. {"length", "body"} \subseteq DOMAIN g /\ g.length = n /\ g.body = b
      BY <1>1, <2>1
    <2> HIDE DEF b
    <2> QED BY <1>1, <2>2, <2>3 DEF FromAgent
  <1>3. CASE g \in {[f EXCEPT !.body = m] : m \in Changes(f.body)}
    <2>1. PICK m \in Changes(b) : g = [f EXCEPT !.body = m]
      BY <1>3
    <2>2. {"length", "body"} \subseteq DOMAIN g /\ g.length = f.length /\ g.body = m
      BY <1>1, <2>1
    <2> HIDE DEF b
    <2>3. /\ "type" \in DOMAIN m
          /\ m.type = "AuthOk" => b.type = "AuthOk" /\ m.tag = b.tag /\ DOMAIN m = DOMAIN b
      <3>1. CASE m = [b EXCEPT !.type = "unknown"]
        BY <1>1, <3>1
      <3>2. CASE m # [b EXCEPT !.type = "unknown"]
        <4>1. CASE b.type = "AuthOk"
          <5>1. PICK v : m = [b EXCEPT !.offset = v]
            BY <3>2, <4>1 DEF Changes
          <5> QED BY <1>1, <4>1, <5>1
        <4>2. CASE b.type = "Hello"
          <5>1. \E v : \/ m = [b EXCEPT !.max = v] \/ m = [b EXCEPT !.cn = v]
                       \/ m = [b EXCEPT !.grid = v] \/ m = [b EXCEPT !.id = v]
            BY <3>2, <4>2 DEF Changes
          <5> QED BY <1>1, <4>2, <5>1
        <4>3. CASE b.type = "Challenge"
          <5>1. \E v : m = [b EXCEPT !.version = v] \/ m = [b EXCEPT !.sn = v]
            BY <3>2, <4>3 DEF Changes
          <5> QED BY <1>1, <4>3, <5>1
        <4>4. CASE b.type = "Auth"
          <5>1. m = [b EXCEPT !.tag = <<>>]
            BY <3>2, <4>4 DEF Changes
          <5> QED BY <1>1, <4>4, <5>1
        <4>5. CASE b.type \notin {"AuthOk", "Hello", "Challenge", "Auth"}
          <5>1. m = [b EXCEPT !.keys = <<>>]
            BY <3>2, <4>5 DEF Changes
          <5> QED BY <1>1, <4>5, <5>1
        <4> QED BY <4>1, <4>2, <4>3, <4>4, <4>5
      <3> QED BY <3>1, <3>2
    <2> QED BY <1>1, <2>2, <2>3 DEF FromAgent
  <1> QED BY <1>2, <1>3

LEMMA ChangeKeeps ==
    ASSUME ShakeInv, NEW e \in Sides, Change(e)
    PROVE  ShakeInv'
  <1> DEFINE p == pipe["client"]
  <1>1. /\ ClientOK(conn["client"]) /\ AgentOK(conn["agent"]) /\ Carries(p, Deal)
        /\ DOMAIN conn = Sides /\ DOMAIN pipe = Sides /\ DOMAIN seen = Sides
        /\ left \in [tries : Nat, changes : Nat, id : {"ours", "other"}]
    BY DEF ShakeInv, ShakeTypeOK
  <1>2. UNCHANGED <<build, conn, seen, agreed>>
    BY DEF Change
  <1>3. left'.tries = left.tries /\ left' \in [tries : Nat, changes : Nat, id : {"ours", "other"}]
    <2> DEFINE n == left.changes - 1
    <2>1. n \in Nat /\ left' = [left EXCEPT !.changes = n]
      BY <1>1 DEF Change
    <2> HIDE DEF n
    <2> QED BY <1>1, <2>1
  <1>4. PICK i \in DOMAIN pipe[e] :
           \E g \in {[pipe[e][i][1] EXCEPT !.body = m] : m \in Changes(pipe[e][i][1].body)}
                     \cup {[pipe[e][i][1] EXCEPT !.length = n] : n \in {0, MaxFrame + 1}} :
             pipe' = [pipe EXCEPT ![e] = [k \in DOMAIN pipe[e] |->
                        IF pipe[e][k][1] = pipe[e][i][1] THEN <<g, pipe[e][k][2]>> ELSE pipe[e][k]]]
    BY Zenon DEF Change
  <1> DEFINE f == pipe[e][i][1]
  <1>5. PICK g \in {[f EXCEPT !.body = m] : m \in Changes(f.body)}
                     \cup {[f EXCEPT !.length = n] : n \in {0, MaxFrame + 1}} :
             pipe' = [pipe EXCEPT ![e] = [k \in DOMAIN pipe[e] |->
                        IF pipe[e][k][1] = f THEN <<g, pipe[e][k][2]>> ELSE pipe[e][k]]]
    BY Zenon, <1>4
  <1>6. DOMAIN pipe' = Sides
    BY <1>1, <1>5
  <1>7. Carries(pipe'["client"], Deal)
    <2>1. CASE e # "client"
      <3>1. pipe'["client"] = p
        BY <1>1, <1>5, <2>1 DEF Sides
      <3> QED BY <1>1, <3>1
    <2>2. CASE e = "client"
      <3> DEFINE h(j) == IF p[j][1] = f THEN <<g, p[j][2]>> ELSE p[j]
                 q == [j \in DOMAIN p |-> h(j)]
      <3>1. pipe'["client"] = q
        BY <1>1, <1>5, <2>2 DEF Sides
      <3> HIDE DEF p
      <3>2. IsSeq(p) /\ \A j \in 1..Len(p) : p[j] = <<p[j][1], p[j][2]>> /\ FromAgent(p[j][1], Deal)
        BY <1>1 DEF Carries
      <3>3. DOMAIN p = 1..Len(p) /\ Len(p) \in Nat
        BY <3>2 DEF IsSeq
      <3>4. FromAgent(f, Deal)
        BY <2>2, <3>2, <3>3 DEF p
      <3>5. FromAgent(g, Deal)
        <4> HIDE DEF f
        <4> QED BY <3>4, ChangedOK
      <3> HIDE DEF f
      <3>6. \A j \in 1..Len(p) : h(j) = <<h(j)[1], h(j)[2]>> /\ FromAgent(h(j)[1], Deal)
        BY <3>2, <3>5
      <3>7. \A j \in 1..Len(p) : q[j] = h(j)
        BY <3>3
      <3> DEFINE S == {h(j) : j \in 1..Len(p)}
      <3>8. q \in [1..Len(p) -> S]
        BY <3>3
      <3> HIDE DEF S, h, q
      <3>9. q \in Seq(S) /\ Len(q) = Len(p)
        BY <3>3, <3>8
      <3>10. IsSeq(q)
        BY <3>9, SeqOfItself
      <3>11. Carries(q, Deal)
        BY <3>6, <3>7, <3>9, <3>10 DEF Carries
      <3> QED BY <3>1, <3>11
    <2> QED BY <2>1, <2>2
  <1> QED BY <1>1, <1>2, <1>3, <1>6, <1>7, StepKeeps

(* Both ends are at the beginning of a connection.                         *)
NewEnds == \E n : conn = [client |-> NewClient(n), agent |-> NewAgent]

EndsOK == DOMAIN conn = Sides /\ ClientOK(conn["client"]) /\ AgentOK(conn["agent"])

LEMMA NewEndsOK == NewEnds => EndsOK
  <1> SUFFICES ASSUME NewEnds PROVE EndsOK
    OBVIOUS
  <1>1. PICK n : conn = [client |-> NewClient(n), agent |-> NewAgent]
    BY DEF NewEnds
  <1>2. DOMAIN conn = Sides /\ conn["client"] = NewClient(n) /\ conn["agent"] = NewAgent
    BY SMTT(30), <1>1 DEF Sides
  <1> DEFINE c == NewClient(n)
             a == NewAgent
  <1>3. /\ DOMAIN c = ClientFields /\ c.stage = "SendHello" /\ c.frames = NewStream /\ c.script = <<>>
        /\ DOMAIN a = AgentFields /\ a.stage = "AwaitHello" /\ a.script = <<>>
    BY DEF NewClient, NewAgent, ClientFields, AgentFields
  <1> HIDE DEF c, a
  <1>4. ClientOK(c)
    BY <1>3, NewStreamOK DEF ClientOK, ClientSaid
  <1>5. AgentOK(a)
    BY <1>3 DEF AgentOK, AgentSaid
  <1> QED BY <1>2, <1>4, <1>5 DEF c, a, EndsOK

(***************************************************************************)
(* A path that breaks: no note is of the connection that follows.          *)
(***************************************************************************)
LEMMA ReconnectKeeps ==
    ASSUME ShakeInv, Reconnect
    PROVE  ShakeInv'
  <1>1. EndsOK'
    <2>1. NewEnds'
      BY DEF Reconnect, NewEnds
    <2> QED BY <2>1, NewEndsOK, PTL
  <1>2. /\ UNCHANGED <<build, seen, agreed>> /\ pipe' = [e \in Sides |-> <<>>]
        /\ left' = [left EXCEPT !.tries = @ - 1] /\ left.tries > 0
    BY DEF Reconnect
  <1>3. /\ left \in [tries : Nat, changes : Nat, id : {"ours", "other"}] /\ left.tries \in Nat
    BY DEF ShakeInv, ShakeTypeOK
  <1>4. left'.tries = left.tries - 1 /\ left' \in [tries : Nat, changes : Nat, id : {"ours", "other"}]
    <2> DEFINE m == left.tries - 1
    <2>1. m \in Nat /\ left' = [left EXCEPT !.tries = m]
      BY <1>2, <1>3
    <2> HIDE DEF m
    <2>2. left'.tries = m /\ left' \in [tries : Nat, changes : Nat, id : {"ours", "other"}]
      BY <1>3, <2>1
    <2> QED BY <2>2 DEF m
  <1>6. DOMAIN pipe' = Sides /\ pipe'["client"] = <<>>
    BY <1>2 DEF Sides
  <1>7. ShakeTypeOK'
    BY <1>1, <1>2, <1>4, <1>6 DEF ShakeInv, ShakeTypeOK, EndsOK
  <1>8. Noted'
    <2> DEFINE g == Newest(agreed)
    <2>1. agreed # <<>> => /\ IsNote(g) /\ {g.cn, g.sn} \subseteq Range(seen["agent"])
                           /\ g.try \in Nat /\ left.tries <= g.try
      BY DEF ShakeInv, Noted
    <2> HIDE DEF g
    <2>2. agreed # <<>> => left'.tries <= g.try /\ g.try # left'.tries
      BY <1>3, <1>4, <2>1
    <2>3. g' = g
      BY <1>2 DEF g
    <2> QED BY <1>2, <2>1, <2>2, <2>3 DEF Noted, g, IsNote
  <1>9. FreshKeys'
    BY <1>2 DEF ShakeInv, FreshKeys
  <1>10. Carries(<<>>, Deal')
    BY CarriesNothing
  <1> QED BY <1>1, <1>6, <1>7, <1>8, <1>9, <1>10 DEF ShakeInv, EndsOK
-------------------------------------------------------------------------------
(* Before the first connection, and with it.                               *)
ShakeStart ==
    /\ agreed = <<>> /\ DOMAIN pipe = Sides /\ DOMAIN seen = Sides
    /\ \A e \in Sides : pipe[e] = <<>> /\ seen[e] = <<>>
    /\ left \in [tries : Nat, changes : Nat, id : {"ours", "other"}]
    /\ build.client \in Nat /\ build.agent \in Nat
    /\ NewEnds

LEMMA ShakeStarts == ShakeStart => ShakeInv
  <1> SUFFICES ASSUME ShakeStart PROVE ShakeInv
    OBVIOUS
  <1>1. EndsOK
    BY NewEndsOK DEF ShakeStart
  <1>3. /\ DOMAIN pipe = Sides /\ DOMAIN seen = Sides /\ pipe["client"] = <<>>
        /\ seen["agent"] = <<>> /\ agreed = <<>>
    BY DEF ShakeStart, Sides
  <1>4. IsSeq(<<>>)
    BY CarriesNothing DEF Carries
  <1>5. ShakeTypeOK
    BY <1>1, <1>3, <1>4 DEF ShakeStart, ShakeTypeOK, EndsOK
  <1>6. Noted /\ FreshKeys
    <2>1. Len(<<>>) = 0
      OBVIOUS
    <2> QED BY <1>3, <2>1 DEF Noted, FreshKeys
  <1> QED BY <1>1, <1>3, <1>5, <1>6, CarriesNothing DEF ShakeInv, EndsOK

LEMMA ShakeStep == ShakeInv /\ [ShakeNext]_shakeVars => ShakeInv'
  <1> SUFFICES ASSUME ShakeInv, [ShakeNext]_shakeVars
               PROVE  ShakeInv'
    OBVIOUS
  <1>1. CASE SendHello
    BY <1>1, HelloKeeps
  <1>2. CASE PumpHello
    BY <1>2, PumpHelloKeeps
  <1>3. CASE Reconnect
    BY <1>3, ReconnectKeeps
  <1>4. ASSUME NEW e \in Sides, ReadSocket(e)
        PROVE  ShakeInv'
    BY <1>4, ClientReadKeeps, AgentReadKeeps DEF Sides
  <1>5. ASSUME NEW e \in Sides, PumpRefuses(e)
        PROVE  ShakeInv'
    <2>1. Does(e, Refused(conn[e], Found(e).err))
      BY <1>5 DEF PumpRefuses
    <2> QED BY <2>1, RefusalKeeps
  <1>6. ASSUME NEW e \in Sides, Pump(e)
        PROVE  ShakeInv'
    BY <1>6, ClientPumpKeeps, AgentPumpKeeps DEF Sides
  <1>7. ASSUME NEW e \in Sides, Speak(e)
        PROVE  ShakeInv'
    BY <1>7, SpeakKeeps
  <1>8. ASSUME NEW e \in Sides, Expire(e)
        PROVE  ShakeInv'
    <2>1. Does(e, Refused(conn[e], "HandshakeTimeout"))
      BY <1>8 DEF Expire
    <2> QED BY <2>1, RefusalKeeps
  <1>9. ASSUME NEW e \in Sides, SeePeerClosed(e)
        PROVE  ShakeInv'
    <2>1. Does(e, Refused(conn[e], "PeerClosed"))
      BY <1>9 DEF SeePeerClosed
    <2> QED BY <2>1, RefusalKeeps
  <1>10. ASSUME NEW e \in Sides, Change(e)
         PROVE  ShakeInv'
    BY <1>10, ChangeKeeps
  <1>11. CASE UNCHANGED shakeVars
    <2>1. UNCHANGED <<build, conn, seen, pipe, left, agreed>>
      BY <1>11 DEF shakeVars
    <2>2. /\ ClientOK(conn["client"]) /\ AgentOK(conn["agent"]) /\ Carries(pipe["client"], Deal)
          /\ DOMAIN conn = Sides /\ DOMAIN pipe = Sides /\ DOMAIN seen = Sides
          /\ left \in [tries : Nat, changes : Nat, id : {"ours", "other"}]
      BY DEF ShakeInv, ShakeTypeOK
    <2> QED BY <2>1, <2>2, StepKeeps
  <1> QED BY <1>1, <1>2, <1>3, <1>4, <1>5, <1>6, <1>7, <1>8, <1>9, <1>10, <1>11 DEF ShakeNext

LEMMA ShakeSafe == ShakeInv => FreshKeys /\ Agreement
  BY Zenon DEF ShakeInv, ClientOK, AgreedOn, Agreement, Newest
=============================================================================
