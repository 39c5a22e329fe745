---------------------------- MODULE StreamLifecycle ----------------------------
(***************************************************************************)
(* One StreamState and everyone who calls it: the local writer, the        *)
(* connections that attach, acknowledge and close, the clock.  This is the *)
(* life cycle of src/src/session/stream_state on the agent, whose overflow *)
(* policy follows the last authenticated peer.                             *)
(***************************************************************************)
EXTENDS StreamState, FiniteSets

CONSTANTS ResendMax,       \* RESEND_BUFFER_MAX
          DisconnectMax,   \* DISCONNECT_BUFFER_MAX
          OrphanTimeout,   \* 0: never
          MaxWrite,        \* bytes per Write
          MaxTaken,        \* bound on the bytes the writer hands over
          MaxConns,        \* bound on attached connections
          MaxGen,          \* bound on output generations
          MaxTime          \* bound on the clock

ASSUME LimitsAssumption ==
    /\ ResendMax \in Nat \ {0} /\ DisconnectMax \in Nat \ {0}
    /\ OrphanTimeout \in Nat /\ MaxWrite \in Nat \ {0}
    /\ MaxTaken \in Nat /\ MaxConns \in Nat /\ MaxGen \in Nat /\ MaxTime \in Nat

VARIABLES st,        \* the stream state
          now,       \* the clock
          open,      \* attached connections whose owner has not closed them
          taken,     \* bytes Write reported as taken in this generation
          lastLive   \* the last instant at which a connection was live

vars == <<st, now, open, taken, lastLive>>

Limits == [resend |-> ResendMax, disconnect |-> DisconnectMax,
           orphan |-> OrphanTimeout]

Chunk(n) == [i \in 1..n |-> taken + i]

LiveAt(s, t, last) == IF s.state = "Live" THEN t ELSE last

Init ==
    /\ st = NewStream("Reap", TRUE, 0)
    /\ now = 0 /\ open = {} /\ taken = 0 /\ lastLive = 0

\* The pty loop writes only while AcceptsWrites says so.
WriterWrites(n) ==
    /\ taken + n <= MaxTaken
    /\ AcceptsWrites(st, Limits)
    /\ LET w == Write(st, Chunk(n), Limits)
       IN st' = w.stream /\ taken' = taken + w.taken
    /\ UNCHANGED <<now, open, lastLive>>

\* An offset beyond End changes nothing here: it fails the connection, and the
\* owner closes that in a later step (ConnectionCloses).
PeerAcknowledges(ack) ==
    /\ st.state = "Live"
    /\ st' = [st EXCEPT !.out = Acknowledge(st.out, ack).buf]
    /\ UNCHANGED <<now, open, taken, lastLive>>

ChannelSends(n) ==
    /\ st.state = "Live" /\ n <= Unsent(st.out)
    /\ st' = [st EXCEPT !.out = AdvanceSendNext(@, n)]
    /\ UNCHANGED <<now, open, taken, lastLive>>

PeerAuthenticates(grid) ==
    /\ st' = SetOverflowMode(st, grid)
    /\ UNCHANGED <<now, open, taken, lastLive>>

\* A connection attaches with result r, or is refused; a refusal whose
\* disposition is KillSession reaps the session (AgentConnection::Refuse).
ConnectionAttaches(r) ==
    /\ st.conn < MaxConns
    /\ st' = IF r.err \in KillReasons THEN Reap(st, r.err) ELSE r.stream
    /\ open' = IF r.err = "ok" THEN open \cup {r.stream.conn} ELSE open
    /\ lastLive' = LiveAt(st', now, lastLive)
    /\ UNCHANGED <<now, taken>>

AttachPathA(peer) == ConnectionAttaches(Attach(st, peer))

AttachForSnapshot == ConnectionAttaches(AttachPathB(st))

\* SupplySnapshot on the connection that is live.
SnapshotSupplied ==
    /\ st.state = "Live" /\ st.out.gen < MaxGen
    /\ st' = [st EXCEPT !.out = NewGeneration(@)]
    /\ taken' = 0
    /\ UNCHANGED <<now, open, lastLive>>

\* Any attached connection may close, the superseded ones included.
ConnectionCloses(c) ==
    /\ open' = open \ {c}
    /\ st' = Detach(st, c, now)
    /\ UNCHANGED <<now, taken, lastLive>>

Tick ==
    /\ now < MaxTime
    /\ now' = now + 1
    /\ lastLive' = LiveAt(st, now + 1, lastLive)
    /\ UNCHANGED <<st, open, taken>>

TimerFires ==
    /\ OrphanExpired(st, Limits, now)
    /\ st' = OnTimer(st, Limits, now)
    /\ UNCHANGED <<now, open, taken, lastLive>>

Next ==
    \/ \E n \in 1..MaxWrite : WriterWrites(n) \/ ChannelSends(n)
    \/ \E a \in 0..Len(st.out.log) + 1 : PeerAcknowledges(a) \/ AttachPathA(a)
    \/ \E grid \in BOOLEAN : PeerAuthenticates(grid)
    \/ AttachForSnapshot \/ SnapshotSupplied
    \/ \E c \in open : ConnectionCloses(c)
    \/ Tick \/ TimerFires

Spec == Init /\ [][Next]_vars
-------------------------------------------------------------------------------
TypeOK ==
    /\ st \in Streams
    /\ now \in Nat /\ open \subseteq Nat /\ taken \in Nat /\ lastLive \in Nat

(***************************************************************************)
(* The invariant send_buffer.hpp states for every call boundary, through   *)
(* every acknowledgement, resend, overflow and generation change: Base <=  *)
(* SendNext <= End, and the window fits the ring.                          *)
(***************************************************************************)
WindowFits ==
    /\ st.out.base <= st.out.next /\ st.out.next <= End(st.out)
    /\ Size(st.out) <= Capacity(Limits)

(***************************************************************************)
(* stream_state.cpp never drops a byte silently: whatever Write reported   *)
(* as taken in this generation is in the stream, unless the buffer is      *)
(* marked as overflowed, which makes the next resume a snapshot.           *)
(***************************************************************************)
TakenIsHeldOrMarked == st.out.overflowed \/ End(st.out) = taken

(***************************************************************************)
(* The session is live exactly while the last attached connection is open: *)
(* the late close of a superseded connection never detaches the one that   *)
(* replaced it, and closing the live one always starts the orphan clock.   *)
(***************************************************************************)
LiveIffCarried ==
    st.state # "Reaped" => (st.state = "Live" <=> st.conn \in open)

(***************************************************************************)
(* OnTimer reaps only a session that nobody has carried for the whole of   *)
(* OrphanTimeout, however often connections came and went before.          *)
(***************************************************************************)
OrphanedOnlyAfterTimeout ==
    st.reason = "OrphanTimeout" =>
        OrphanTimeout # 0 /\ now >= lastLive + OrphanTimeout

(***************************************************************************)
(* A reaped session is over: no later write, attach, close or timer moves  *)
(* its state or changes the reason it was reaped for.                      *)
(***************************************************************************)
ReapedIsFinal ==
    [][st.state = "Reaped" =>
         st'.state = "Reaped" /\ st'.reason = st.reason
         /\ st'.conn = st.conn]_vars

(***************************************************************************)
(* Backpressure while live: whatever piled up while detached, a live       *)
(* session never lets the unacknowledged window grow past ResendMax.       *)
(***************************************************************************)
LiveWindowBounded ==
    [][st.state = "Live" /\ st'.state = "Live" /\ Size(st'.out) > Size(st.out)
         => Size(st'.out) <= ResendMax]_vars

(***************************************************************************)
(* docs/design.md section 9 and the comment in AcceptsWrites: a detached   *)
(* session whose peer takes snapshots keeps draining the pty, so that the  *)
(* shell does not block on a client that is away.                          *)
(***************************************************************************)
DetachedResyncKeepsDraining ==
    st.state = "Detached" /\ st.overflow = "Resync" => AcceptsWrites(st, Limits)
===============================================================================
