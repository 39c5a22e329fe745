------------------------------- MODULE Channel -------------------------------
(***************************************************************************)
(* The two Channels of a live connection (src/src/session/channel), each   *)
(* pumped by its event loop, with their clocks, gates and keys.            *)
(*                                                                         *)
(* A timestamp is kept as its age in ticks, up to one more than the limit  *)
(* it is compared with, because an owner that wakes late must be seen.     *)
(* The loop of an end sleeps until NextDeadline: it polls when something   *)
(* woke it or when a deadline has passed, and time passes only when every  *)
(* loop sleeps.  TCP delivers in order and, on a working path, within two  *)
(* ticks; after a cut it keeps what it was given and delivers nothing.     *)
(*                                                                         *)
(* The grid messages, Resize and SessionEnd are in module Session.         *)
(***************************************************************************)
EXTENDS Integers, SendBuffer, ReceiveCursor, FrameKeys

CONSTANTS AckDelay,         \* ACK_IDLE_DELAY
          Keepalive,        \* KEEPALIVE_INTERVAL
          Silence,          \* PEER_SILENCE_TIMEOUT
          RekeyInterval,    \* REKEY_INTERVAL
          QueueMax,         \* frames in flight before the send gate closes
          Loads             \* bounds on what the owners do: the bytes the shell
                            \* and the user write, and the times the terminal
                            \* stalls

\* 200 ms, 5 s, 15 s and 1 h in limits.hpp.  On a working path a frame is under
\* way for at most a tick, so the timeout leaves a keepalive a tick to arrive; no
\* stream reaches 2^64 bytes.
ASSUME TimesAssumption ==
    /\ AckDelay \in Nat \ {0} /\ Keepalive \in Nat \ {0}
    /\ Silence \in Nat /\ Keepalive + 1 < Silence
    /\ RekeyInterval \in Nat /\ Keepalive < RekeyInterval
    /\ QueueMax \in Nat \ {0}
    /\ \A l \in Loads : l \in [agent : 0..OffsetMax, client : 0..OffsetMax, stalls : Nat]

Ends == {"client", "agent"}

Other(e) == IF e = "client" THEN "agent" ELSE "client"

VARIABLES
    ch,       \* the Channel of each end
    wire,     \* wire[e]: frames on their way to e
    old,      \* how many of them have been under way for a tick
    cut,      \* the path delivers nothing any more
    load      \* what the owners may still do

chanVars == <<ch, wire, old, cut, load>>

Never == -1         \* AckPendingSince_ is not set

NewChannel(e) ==
    [why |-> "up", sealer |-> NewSealer, opener |-> NewOpener,
     out |-> NewBuffer, in |-> NewCursor(e = "agent"), acked |-> 0,
     heard |-> 0, sent |-> 0, epoch |-> 0, ack |-> Never,
     pong |-> FALSE, reading |-> TRUE, awake |-> TRUE]

Up(e) == ch[e].why = "up"

\* SetSendGate of the owner: room for one more frame in the socket's queue.
SendGate(e) == Len(wire[Other(e)]) < QueueMax

\* A connection that failed or was closed keeps only the reason.
Closed(e, why) == [NewChannel(e) EXCEPT !.why = why, !.awake = FALSE]

\* Fail, and the owner closes the socket; on a working path the peer's loop is
\* woken by what becomes of its own.
Hang(e, why) ==
    /\ ch' = [ch EXCEPT ![e] = Closed(e, why),
                        ![Other(e)] = [ch[Other(e)] EXCEPT
                                          !.awake = @ \/ (Up(Other(e)) /\ ~cut)]]
    /\ wire' = [wire EXCEPT ![e] = IF cut THEN @ ELSE <<>>]
    /\ old' = [old EXCEPT ![e] = 0]
-------------------------------------------------------------------------------
(* Receive *)

Data(ack, off, bytes) == [type |-> "Data", ack |-> ack, off |-> off,
                          bytes |-> bytes]
Ack(ack) == [type |-> "Ack", ack |-> ack]
Ping == [type |-> "Ping"]
Pong == [type |-> "Pong"]

\* What the channel becomes, or the error that closes the connection.
Becomes(c) == [err |-> "ok", chan |-> c]

Fails(c, err) == [err |-> err, chan |-> c]

OnAck(c, ack) ==
    LET r == Acknowledge(c.out, ack)
    IN IF r.err # "ok" THEN Fails(c, r.err) ELSE Becomes([c EXCEPT !.out = r.buf])

OnData(c, m) ==
    LET a == OnAck(c, m.ack)
        r == Receive(c.in, m.off, m.bytes)
    IN IF a.err # "ok" THEN a
       ELSE IF r.err # "ok" THEN Fails(c, r.err)
       ELSE Becomes([a.chan EXCEPT !.in = r.cur])

Understood(c, m) ==
    CASE m.type = "Data" -> OnData(c, m)
      [] m.type = "Ack"  -> OnAck(c, m.ack)
      [] m.type = "Ping" -> Becomes([c EXCEPT !.pong = TRUE])
      [] m.type = "Pong" -> Becomes(c)

\* A frame that opens was sent by the peer, whatever it says.
Take(c, f) ==
    LET o == Open(c.opener, f)
    IN IF o.err # "ok" THEN Fails(c, o.err)
       ELSE Understood([c EXCEPT !.opener = o.opener, !.heard = 0], f.plain)

\* WriteSocket gets room for a sender whose queue was full.
Freed(e) == Up(e) /\ ~SendGate(e)

\* The socket is readable: PumpLive takes the frame.  What it frees wakes the
\* loop of a sender whose queue was full.
ReceiveFrame(e) ==
    LET r == Take(ch[e], Head(wire[e]))
        p == Other(e)
    IN /\ Up(e) /\ ch[e].reading /\ ~cut /\ wire[e] # <<>>
       /\ IF r.err # "ok" THEN Hang(e, r.err)
          ELSE /\ wire' = [wire EXCEPT ![e] = Tail(@)]
               /\ old' = [old EXCEPT ![e] = IF @ > 0 THEN @ - 1 ELSE 0]
               /\ ch' = [ch EXCEPT ![e] = [r.chan EXCEPT !.awake = TRUE],
                                   ![p] = [ch[p] EXCEPT !.awake = @ \/ Freed(p)]]
       /\ UNCHANGED <<cut, load>>
-------------------------------------------------------------------------------
(* Poll *)

RekeyDue(c) == NeedsRekey(c.sealer) \/ c.epoch >= RekeyInterval

RekeyIfNeeded(c) ==
    IF ~RekeyDue(c) THEN Becomes(c)
    ELSE LET r == Rekey(c.sealer)
         IN IF r.err # "ok" THEN Fails(c, r.err)
            ELSE Becomes([c EXCEPT !.sealer = r.sealer, !.epoch = 0])

AckOwed(c) == AckOffset(c.in) > c.acked

AckDue(c) == AckOwed(c) /\ c.ack >= AckDelay

\* The message PollOnce seals, in its order of priority; none arms the timer
\* of a bare Ack.
Chosen(c) ==
    IF c.pong THEN <<Pong>>
    ELSE IF Unsent(c.out) > 0
    THEN <<Data(AckOffset(c.in), c.out.next, CopyOut(c.out, c.out.next, 1))>>
    ELSE IF AckDue(c) THEN <<Ack(AckOffset(c.in))>>
    ELSE IF c.sent >= Keepalive THEN <<Ping>>
    ELSE <<>>

SizeOf(m) == IF m.type = "Data" THEN 1 + Len(m.bytes) ELSE 1

\* Fault: a Ping counts as an acknowledgement.
SentPingAcks(c, m) ==
    [c EXCEPT !.sent = 0, !.pong = @ /\ m.type # "Pong",
              !.out = IF m.type = "Data" THEN AdvanceSendNext(@, Len(m.bytes)) ELSE @,
              !.acked = AckOffset(c.in), !.ack = Never]

\* What sealing a message leaves behind.
Sent(c, m) ==
    [c EXCEPT !.sent = 0, !.pong = @ /\ m.type # "Pong",
              !.out = IF m.type = "Data" THEN AdvanceSendNext(@, Len(m.bytes)) ELSE @,
              !.acked = IF m.type \in {"Data", "Ack"} THEN m.ack ELSE @,
              !.ack = IF m.type \in {"Data", "Ack"} THEN Never ELSE @]

Idle(c) == [c EXCEPT !.ack = IF AckOwed(c) /\ @ = Never THEN 0 ELSE @,
                     !.awake = FALSE]

PeerSilent(c) == c.reading /\ c.heard >= Silence

\* Fault: a closed send gate hides the silence of the peer.
NextDeadlineGated(e) ==
    LET c == ch[e]
        sends == {RekeyInterval - c.epoch, Keepalive - c.sent}
                   \cup (IF c.ack = Never THEN {} ELSE {AckDelay - c.ack})
        hears == IF c.reading THEN {Silence - c.heard} ELSE {}
    IN IF SendGate(e) THEN sends \cup hears ELSE {}

\* The ticks until each deadline NextDeadline takes the earliest of.
NextDeadline(e) ==
    LET c == ch[e]
        sends == {RekeyInterval - c.epoch, Keepalive - c.sent}
                   \cup (IF c.ack = Never THEN {} ELSE {AckDelay - c.ack})
        hears == IF c.reading THEN {Silence - c.heard} ELSE {}
    IN IF SendGate(e) THEN sends \cup hears ELSE hears

Due(e) == \E left \in NextDeadline(e) : left <= 0

\* One Poll of PumpLive; the loop pumps until nothing is left to send.
Poll(e) ==
    LET c == ch[e]
        p == Other(e)
        k == RekeyIfNeeded(c)
        m == Chosen(k.chan)
        s == Seal(k.chan.sealer, m[1], SizeOf(m[1]))
    IN /\ Up(e) /\ (c.awake \/ Due(e))
       /\ IF PeerSilent(c) THEN Hang(e, "PeerSilent")
          ELSE IF ~SendGate(e)
          THEN ch' = [ch EXCEPT ![e].awake = FALSE] /\ UNCHANGED <<wire, old>>
          ELSE IF k.err # "ok" THEN Hang(e, k.err)
          ELSE IF m = <<>>
          THEN ch' = [ch EXCEPT ![e] = Idle(k.chan)] /\ UNCHANGED <<wire, old>>
          ELSE IF s.err # "ok" THEN Hang(e, s.err)
          ELSE /\ ch' = [ch EXCEPT ![e] = [Sent(k.chan, m[1]) EXCEPT
                                             !.sealer = s.sealer, !.awake = TRUE]]
               /\ wire' = IF Up(p) \/ cut THEN [wire EXCEPT ![p] = Append(@, s.frame)] ELSE wire
               /\ UNCHANGED old
       /\ UNCHANGED <<cut, load>>
-------------------------------------------------------------------------------
(* The owners, the network and the clock *)

\* The shell writes, or the user types.
Write(e) ==
    /\ Up(e) /\ load[e] > 0
    /\ load' = [load EXCEPT ![e] = @ - 1]
    /\ ch' = [ch EXCEPT ![e] = [ch[e] EXCEPT !.out.log = Append(@, 0), !.awake = TRUE]]
    /\ UNCHANGED <<wire, old, cut>>

\* WritePty: the shell took a keystroke, which may now be acknowledged.
TakenByPty ==
    /\ Up("agent") /\ ch["agent"].in.pending > 0
    /\ ch' = [ch EXCEPT !["agent"] = [ch["agent"] EXCEPT !.in = MarkDelivered(@, 1),
                                                          !.awake = TRUE]]
    /\ UNCHANGED <<wire, old, cut, load>>

\* Fault: the silence while the gate was shut counts.
SetReadGateCounts(c, open) == [c EXCEPT !.reading = open]

SetReadGate(c, open) ==
    [c EXCEPT !.reading = open, !.heard = IF open /\ ~c.reading THEN 0 ELSE @]

\* UpdateInterest of the client: the terminal is full, or has room again.
Stall ==
    /\ Up("client") /\ ch["client"].reading /\ load.stalls > 0
    /\ ch' = [ch EXCEPT !["client"] = SetReadGate(@, FALSE)]
    /\ load' = [load EXCEPT !.stalls = @ - 1]
    /\ UNCHANGED <<wire, old, cut>>

Unstall ==
    /\ Up("client") /\ ~ch["client"].reading
    /\ ch' = [ch EXCEPT !["client"] = SetReadGate(@, TRUE)]
    /\ UNCHANGED <<wire, old, cut, load>>

\* The end of the stream, once what was sent before it has been read.
SeeClosed(e) ==
    /\ Up(e) /\ ~Up(Other(e)) /\ ~cut /\ wire[e] = <<>> /\ ch[e].reading
    /\ Hang(e, "PeerClosed")
    /\ UNCHANGED <<cut, load>>

\* Packets are dropped from now on, without a reset.
Cut ==
    /\ ~cut /\ \A e \in Ends : Up(e)
    /\ cut' = TRUE
    /\ UNCHANGED <<ch, wire, old, load>>

Aged(n, limit) == IF n > limit THEN n ELSE n + 1

Older(c) ==
    [c EXCEPT !.heard = Aged(@, Silence), !.sent = Aged(@, Keepalive),
              !.epoch = Aged(@, RekeyInterval),
              !.ack = IF @ = Never THEN @ ELSE Aged(@, AckDelay)]

\* Time passes while every loop sleeps, on a working path never so long that a
\* frame is under way for two ticks.
Tick ==
    /\ \E e \in Ends : Up(e)
    /\ \A e \in Ends : Up(e) => ~ch[e].awake /\ ~Due(e)
    /\ \A e \in Ends : Up(e) /\ ch[e].reading /\ ~cut => old[e] = 0 /\ Up(Other(e))
    /\ ch' = [e \in Ends |-> IF Up(e) THEN Older(ch[e]) ELSE ch[e]]
    /\ old' = [e \in Ends |-> IF cut THEN 0 ELSE Len(wire[e])]
    /\ UNCHANGED <<wire, cut, load>>

ChanInit ==
    /\ ch = [e \in Ends |-> NewChannel(e)]
    /\ wire = [e \in Ends |-> <<>>] /\ old = [e \in Ends |-> 0]
    /\ cut = FALSE /\ load = [agent |-> 0, client |-> 0, stalls |-> 0]

ChanNext ==
    \/ \E e \in Ends : ReceiveFrame(e) \/ Poll(e) \/ Write(e) \/ SeeClosed(e)
    \/ TakenByPty \/ Stall \/ Unstall \/ Cut \/ Tick
-------------------------------------------------------------------------------
(* Properties *)

\* Up, with room to send, and its loop asleep.
AtRest(e) == Up(e) /\ SendGate(e) /\ ~ch[e].awake

\* As long as the path works, neither end gives the other up as silent: a
\* keepalive always arrives before PEER_SILENCE_TIMEOUT, and a client that held
\* back for its own terminal starts the silence anew (Poll, SetReadGate).
NoFalseSilence == ~cut => \A e \in Ends : ch[e].why # "PeerSilent"

\* An end that reads never waits longer than PEER_SILENCE_TIMEOUT for a frame,
\* even while its own queue is full and every send timer is left out of
\* NextDeadline: that is how a path that drops packets is noticed.
SilenceIsNoticed ==
    \A e \in Ends : Up(e) /\ ch[e].reading => ch[e].heard <= Silence

\* With room to send, no end is quiet for longer than KEEPALIVE_INTERVAL: the
\* loop is woken in time for the keepalive (NextDeadline, PollOnce).
KeepsTalking == \A e \in Ends : AtRest(e) => ch[e].sent <= Keepalive

\* What the peer has not been told of the bytes taken here is on its way to it,
\* or the timer of the bare Ack runs and has not passed ACK_IDLE_DELAY.
AckIsOnItsWay ==
    \A e \in Ends :
        LET p == Other(e)
            mine == AckOffset(ch[e].in)
        IN AtRest(e) /\ Up(p) /\ ch[p].out.base < mine =>
             \/ \E i \in DOMAIN wire[p] : /\ wire[p][i].plain.type \in {"Data", "Ack"}
                                          /\ wire[p][i].plain.ack >= mine
             \/ ch[e].ack \in 0..AckDelay

\* A loop that sleeps with room to send has nothing to send, now or overdue: no
\* wakeup is lost when a full queue drains (WriteSocket, SetSendGate), or when
\* a timer is due.
NoLostWakeup ==
    /\ \A e \in Ends : AtRest(e) => Unsent(ch[e].out) = 0 /\ ~ch[e].pong
    /\ KeepsTalking
    /\ AckIsOnItsWay

\* Between two ends that follow the protocol a frame never fails to open and
\* never breaks a rule, however their rekeys by count, bytes and time interleave
\* with frames in flight: a connection ends with its path, its peer or its keys.
EveryFrameOpens ==
    \A e \in Ends :
        ch[e].why \in {"up", "PeerSilent", "PeerClosed", "EpochsExhausted"}

=============================================================================
