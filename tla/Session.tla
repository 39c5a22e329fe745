-------------------------------- MODULE Session --------------------------------
(***************************************************************************)
(* A whole zet session: the client process, the agent process and the TCP  *)
(* connections between them.  It composes                                  *)
(*   - ClientSession and ClientConnection (src/src/session) as the client  *)
(*     of src/src/client drives them, one connection at a time;            *)
(*   - AgentSession and its AgentConnections as the event loop of          *)
(*     src/src/agent drives them, several connections at a time;           *)
(*   - one Channel per connection and end.                                 *)
(*                                                                         *)
(* Data is abstracted to what the properties tell apart: the i-th byte the *)
(* shell writes is the number i and so is the i-th byte the user types; a  *)
(* screen, a grid or a snapshot is the sequence of shell bytes it reflects.*)
(* Hello, Challenge, Auth and AuthOk are one exchange: between the routing *)
(* of the Hello, which copies s_recv_offset, and the Resume nothing of the *)
(* session moves but the overflow mode.  Ping, Pong and the timers appear  *)
(* as what they cause: an end may close a connection at any moment.        *)
(***************************************************************************)
EXTENDS StreamState

CONSTANTS MaxConns,        \* TCP connections in a behaviour, at most
          ResendMax,       \* RESEND_BUFFER_MAX of both ends
          PtyQueueMax,     \* the limit of Agent::PtyInput_
          Sizes,           \* window sizes, as SnapshotEstimateBytes sees them
          Plans            \* the circumstances and bounds to choose from

\* What a behaviour may contain: TCP connections, bytes the shell writes and
\* the user types, changes of the window; bytes of one ReadPty and one Data
\* frame, frames in flight before the send gate closes, DISCONNECT_BUFFER_MAX;
\* the first window size; whether GRID_CAPABLE is negotiated, whether a snapshot
\* may find the parser outside Ground, and whether the client may reconnect
\* before the agent has seen the end of its previous connection.  No stream is
\* longer than the largest offset.
ASSUME BoundsAssumption ==
    /\ MaxConns \in Nat \ {0} /\ ResendMax \in Nat \ {0}
    /\ PtyQueueMax \in Nat \ {0} /\ Sizes \subseteq Nat \ {0}
    /\ Plans \subseteq [conns : 1..MaxConns, out : 0..OffsetMax,
                        in : 0..OffsetMax, resizes : Nat, read : Nat \ {0},
                        payload : Nat \ {0}, link : Nat \ {0},
                        disconnect : Nat \ {0}, size : Sizes, grid : BOOLEAN,
                        waits : BOOLEAN, overlap : BOOLEAN]

Conns == 1..MaxConns

NoConn == 0

Unknown == 0

VARIABLES
    plan,       \* the member of Plans this behaviour follows
    \* ---- the agent
    a,          \* its stream state (AgentSession::Streams_)
    fed,        \* shell bytes read from the pty, all of them fed to the grid
    ptyBuf,     \* PtyRead_[PtyFrom_ .. PtyTo_): read, not yet taken by Write
    ptyIn,      \* PtyInput_: keystrokes the pty has not taken
    ptyGot,     \* what the shell has read, in order
    shell,      \* "running", "exited", "ended" (Session_.End was called)
    size,       \* LastKnownSize_, Unknown before the first Resize
    snapWait,   \* SnapWaitConn_
    ac,         \* the agent's end of every connection
    done,       \* EndDelivered_: the agent has exited
    \* ---- the client
    c,          \* its stream state (ClientSession::Streams_)
    cGen,       \* StreamGen_: the output generation last applied
    cConn,      \* the connection it is on, NoConn between connections
    cLive,      \* Resume has been sent on it
    cc,         \* the client's Channel on it
    used,       \* connections opened so far
    window,     \* the size of its terminal, and how often it has changed
    screen,     \* what was queued for the terminal (Stdout_), in order
    pendApply,  \* the generation of a snapshot not yet drained to it
    cEnd,       \* SessionEnd has been recorded
    fatal,      \* Fatal_: the client gave the session up
    \* ---- the network and history
    up, down,   \* frames in flight on each connection, client to agent and back
    errors      \* protocol errors raised so far, with the end that raised them

ptyVars == <<fed, ptyBuf, ptyIn, ptyGot, shell>>

snapVars == <<size, snapWait>>

agentVars == <<a, ptyVars, snapVars, ac, done>>

clientVars == <<c, cGen, cConn, cLive, cc, used, window, screen, pendApply,
                cEnd, fatal>>

netVars == <<up, down, errors>>

vars == <<plan, agentVars, clientVars, netVars>>

Limits == [resend |-> ResendMax, disconnect |-> plan.disconnect, orphan |-> 0]
-------------------------------------------------------------------------------
(* Frames *)

Hello == [type |-> "Hello"]
AuthOk(off) == [type |-> "AuthOk", off |-> off]
Resume(gen, off) == [type |-> "Resume", gen |-> gen, off |-> off]
Data(ack, off, bytes) ==
    [type |-> "Data", ack |-> ack, off |-> off, bytes |-> bytes]
Ack(ack) == [type |-> "Ack", ack |-> ack]
Resize(sz) == [type |-> "Resize", size |-> sz]
GridBegin(gen) == [type |-> "GridBegin", gen |-> gen]
GridChunk(snap) == [type |-> "GridChunk", snap |-> snap]
GridEnd == [type |-> "GridEnd"]
GridApplied(gen) == [type |-> "GridApplied", gen |-> gen]
SessionEnd == [type |-> "SessionEnd"]

Arrived(link, k, type) == link[k] # <<>> /\ Head(link[k]).type = type

Popped(link, k) == [link EXCEPT ![k] = Tail(@)]

Pushed(link, k, frame) == [link EXCEPT ![k] = Append(@, frame)]

HasRoom(link, k) == Len(link[k]) < plan.link

\* What the agent writes to a connection that the client has left is lost.
Answered(k, frame) == IF k = cConn THEN Pushed(down, k, frame) ELSE down

\* The first n bytes the shell wrote: what a grid fed with them shows.
Shown(n) == [i \in 1..n |-> i]
-------------------------------------------------------------------------------
(* The agent's end of a connection.  `handle' is SessionHandle::Generation_;  *)
(* the rest is the state of AgentConnection and its Channel.                  *)

NewAgentConn ==
    [stage |-> "new", handle |-> 0, lastAcked |-> 0, suppress |-> FALSE,
     asked |-> FALSE, awaiting |-> FALSE, emit |-> "none", gen |-> 0,
     snap |-> 0, endSent |-> FALSE]

\* A Channel over the session's streams, just after the handle attached.
AgentChannel(stage, s) ==
    [NewAgentConn EXCEPT !.stage = stage, !.handle = s.conn,
                         !.lastAcked = AckOffset(s.in),
                         !.suppress = (stage = "snapshot")]

AgentRuns == a.state # "Reaped" /\ ~done

Current(k) ==
    ac[k].stage \in {"snapshot", "live"} /\ IsCurrent(a, ac[k].handle)

\* Connection k fails or is dropped: DropClosed closes the link, which
\* detaches stream s if k is what carries it.
AgentDrops(k, s) ==
    /\ ac' = [ac EXCEPT ![k] = [NewAgentConn EXCEPT !.stage = "closed"]]
    /\ a' = Detach(s, ac[k].handle, 0)
    /\ up' = [up EXCEPT ![k] = <<>>]

AgentFails(k, s, err) ==
    /\ AgentDrops(k, s)
    /\ errors' = errors \cup {<<"agent", err>>}

\* Fault: what Write did not take is dropped.
MovePtyOutputDropsRest(s, buf) ==
    [stream |-> IF AcceptsWrites(s, Limits) THEN Write(s, buf, Limits).stream
                ELSE s,
     buf |-> <<>>]

\* MovePtyOutput on a stream s and the bytes still to be written.
MovePtyOutput(s, buf) ==
    LET w == Write(s, buf, Limits)
    IN IF buf = <<>> \/ ~AcceptsWrites(s, Limits)
       THEN [stream |-> s, buf |-> buf]
       ELSE [stream |-> w.stream, buf |-> SubSeq(buf, w.taken + 1, Len(buf))]

\* ReadPty reads only into an empty buffer; the loop feeds the grid at once.
ShellWrites(n) ==
    /\ AgentRuns /\ shell = "running" /\ ptyBuf = <<>> /\ fed + n <= plan.out
    /\ fed' = fed + n
    /\ LET m == MovePtyOutput(a, [i \in 1..n |-> fed + i])
       IN a' = m.stream /\ ptyBuf' = m.buf
    /\ UNCHANGED <<ptyIn, ptyGot, shell, snapVars, ac, done>>
    /\ UNCHANGED <<clientVars, netVars>>

PtyOutputMoves ==
    /\ AgentRuns /\ ptyBuf # <<>> /\ AcceptsWrites(a, Limits)
    /\ LET m == MovePtyOutput(a, ptyBuf)
       IN a' = m.stream /\ ptyBuf' = m.buf
    /\ UNCHANGED <<fed, ptyIn, ptyGot, shell, snapVars, ac, done>>
    /\ UNCHANGED <<clientVars, netVars>>

ShellExits ==
    /\ AgentRuns /\ shell = "running"
    /\ shell' = "exited"
    /\ UNCHANGED <<a, fed, ptyBuf, ptyIn, ptyGot, snapVars, ac, done>>
    /\ UNCHANGED <<clientVars, netVars>>

\* Session_.End, once the pty has been read to its end and all of it written.
SessionEnds ==
    /\ AgentRuns /\ shell = "exited" /\ ptyBuf = <<>>
    /\ shell' = "ended"
    /\ UNCHANGED <<a, fed, ptyBuf, ptyIn, ptyGot, snapVars, ac, done>>
    /\ UNCHANGED <<clientVars, netVars>>

\* WritePty: the shell reads a keystroke, and only now is it acknowledged.
PtyTakesInput ==
    /\ AgentRuns /\ shell = "running" /\ ptyIn # <<>>
    /\ ptyGot' = Append(ptyGot, Head(ptyIn))
    /\ ptyIn' = Tail(ptyIn)
    /\ a' = [a EXCEPT !.in = MarkDelivered(@, 1)]
    /\ UNCHANGED <<fed, ptyBuf, shell, snapVars, ac, done>>
    /\ UNCHANGED <<clientVars, netVars>>

\* DiscardPtyInput: a shell that has gone reads nothing.
PtyInputDiscarded ==
    /\ AgentRuns /\ shell # "running" /\ ptyIn # <<>>
    /\ ptyIn' = <<>>
    /\ a' = [a EXCEPT !.in = MarkDelivered(@, Len(ptyIn))]
    /\ UNCHANGED <<fed, ptyBuf, ptyGot, shell, snapVars, ac, done>>
    /\ UNCHANGED <<clientVars, netVars>>

-------------------------------------------------------------------------------
(* The agent: the handshake, Resume and what ends a connection *)

\* Auth verified: Route copied s_recv_offset, and the peer's announcement
\* decides what a full buffer does from now on.
AgentRoutes(k) ==
    /\ AgentRuns /\ ac[k].stage = "new" /\ Arrived(up, k, "Hello")
    /\ ac' = [ac EXCEPT ![k].stage = "resume"]
    /\ a' = SetOverflowMode(a, plan.grid)
    /\ up' = Popped(up, k)
    /\ down' = Answered(k, AuthOk(AckOffset(a.in)))
    /\ UNCHANGED <<ptyVars, snapVars, done, clientVars, errors>>

\* The choice between replay and snapshot: feasibility first, then cost.
UsesSnapshot(m) ==
    LET cost == IF End(a.out) > m.off THEN End(a.out) - m.off ELSE 0
    IN /\ plan.grid
       /\ \/ a.out.overflowed \/ m.gen < a.out.gen
          \/ size # Unknown /\ cost > size

\* Path A attaches and replays, path B attaches and waits for a snapshot; a
\* refusal that means KillSession reaps the session.
AgentResumes(k) ==
    LET m     == Head(up[k])
        snap  == UsesSnapshot(m)
        r     == IF snap THEN AttachPathB(a) ELSE Attach(a, m.off)
        err   == IF m.gen > a.out.gen THEN "MalformedField" ELSE r.err
        stage == IF snap THEN "snapshot" ELSE "live"
    IN /\ AgentRuns /\ ac[k].stage = "resume" /\ Arrived(up, k, "Resume")
       /\ IF err = "ok"
          THEN /\ a' = r.stream
               /\ ac' = [ac EXCEPT ![k] = AgentChannel(stage, r.stream)]
               /\ up' = Popped(up, k)
               /\ UNCHANGED errors
          ELSE AgentFails(k, IF err \in KillReasons THEN Reap(a, err) ELSE a,
                          err)
       /\ UNCHANGED <<ptyVars, snapVars, done, clientVars, down>>

\* A newer connection took the streams: Pump refuses before it touches them.
AgentSuperseded(k) ==
    /\ AgentRuns /\ ac[k].stage \in {"snapshot", "live"} /\ ~Current(k)
    /\ AgentDrops(k, a)
    /\ UNCHANGED <<ptyVars, snapVars, done, clientVars, down, errors>>

\* Silence, a deadline of the handshake or of a snapshot, a socket error.
AgentCloses(k) ==
    /\ AgentRuns /\ k <= used /\ ac[k].stage # "closed"
    /\ AgentDrops(k, a)
    /\ UNCHANGED <<ptyVars, snapVars, done, clientVars, down, errors>>

\* The end of the client's stream: PeerClosed in DropClosed.  DeliveredEnd is
\* what the last Pump of the connection saw, so a connection superseded since
\* then still counts.
AgentSeesClose(k) ==
    /\ AgentRuns /\ k <= used /\ k # cConn /\ up[k] = <<>>
    /\ ac[k].stage # "closed"
    /\ AgentDrops(k, a)
    /\ done' = (ac[k].stage = "live" /\ ac[k].endSent)
    /\ UNCHANGED <<ptyVars, snapVars, clientVars, down, errors>>
-------------------------------------------------------------------------------
(* The agent: frames of a live connection *)

AgentReads(k, type) == AgentRuns /\ Current(k) /\ Arrived(up, k, type)

\* Output acknowledgements are ignored while GridApplied is awaited.
AckedOutput(k, ack) ==
    IF ac[k].awaiting THEN Outcome("ok", a.out) ELSE Acknowledge(a.out, ack)

\* The piggybacked Ack, then the payload, then the queue of the pty; a payload
\* the queue has no room for was not received, and the connection closes.
AgentReceivesData(k) ==
    LET m     == Head(up[k])
        acked == AckedOutput(k, m.ack)
        got   == Receive(a.in, m.off, m.bytes)
        s     == [a EXCEPT !.out = acked.buf, !.in = got.cur]
        err   == IF acked.err # "ok" THEN acked.err ELSE got.err
        fits  == Len(ptyIn) + Len(got.new) <= PtyQueueMax
    IN /\ AgentReads(k, "Data")
       /\ IF err # "ok"
          THEN /\ AgentFails(k, [a EXCEPT !.out = acked.buf], err)
               /\ UNCHANGED ptyIn
          ELSE IF ~fits
          THEN /\ AgentDrops(k, [s EXCEPT !.in = Unreceive(@, Len(got.new))])
               /\ UNCHANGED <<ptyIn, errors>>
          ELSE /\ a' = s
               /\ ptyIn' = ptyIn \o got.new
               /\ up' = Popped(up, k)
               /\ UNCHANGED <<ac, errors>>
       /\ UNCHANGED <<fed, ptyBuf, ptyGot, shell, snapVars, done>>
       /\ UNCHANGED <<clientVars, down>>

AgentReceivesAck(k) ==
    LET acked == AckedOutput(k, Head(up[k]).ack)
    IN /\ AgentReads(k, "Ack")
       /\ IF acked.err = "ok"
          THEN /\ a' = [a EXCEPT !.out = acked.buf]
               /\ up' = Popped(up, k)
               /\ UNCHANGED <<ac, errors>>
          ELSE AgentFails(k, a, acked.err)
       /\ UNCHANGED <<ptyVars, snapVars, done, clientVars, down>>

AgentReceivesResize(k) ==
    /\ AgentReads(k, "Resize")
    /\ size' = Head(up[k]).size
    /\ ac' = [ac EXCEPT ![k].asked = FALSE]
    /\ up' = Popped(up, k)
    /\ UNCHANGED <<a, ptyVars, snapWait, done>>
    /\ UNCHANGED <<clientVars, down, errors>>

AgentReceivesGridApplied(k) ==
    LET m   == Head(up[k])
        err == IF ~ac[k].awaiting \/ ac[k].emit # "none"
               THEN "UnexpectedMessage"
               ELSE IF m.gen # ac[k].gen THEN "MalformedField" ELSE "ok"
    IN /\ AgentReads(k, "GridApplied")
       /\ IF err = "ok"
          THEN /\ ac' = [ac EXCEPT ![k].awaiting = FALSE]
               /\ up' = Popped(up, k)
               /\ UNCHANGED <<a, errors>>
          ELSE AgentFails(k, a, err)
       /\ UNCHANGED <<ptyVars, snapVars, done, clientVars, down>>
-------------------------------------------------------------------------------
(* The agent: Poll, in the order of its priorities *)

AgentSends(k) == AgentRuns /\ Current(k) /\ HasRoom(down, k)

DataDue(k) ==
    Unsent(a.out) > 0 /\ ~ac[k].awaiting /\ ~ac[k].suppress

EndDue(k) ==
    /\ shell = "ended" /\ ac[k].stage = "live"
    /\ ~ac[k].endSent /\ Size(a.out) = 0

\* GridBegin, GridChunk (one for all of them) and GridEnd.
AgentSendsGrid(k) ==
    LET Emit(frame, next) ==
            /\ down' = Answered(k, frame)
            /\ ac' = [ac EXCEPT ![k].emit = next]
    IN /\ AgentSends(k)
       /\ \/ ac[k].emit = "begin" /\ Emit(GridBegin(ac[k].gen), "chunk")
          \/ ac[k].emit = "chunk" /\ Emit(GridChunk(ac[k].snap), "end")
          \/ ac[k].emit = "end" /\ Emit(GridEnd, "none")
       /\ UNCHANGED <<a, ptyVars, snapVars, done, clientVars, up, errors>>

AgentSendsData(k) ==
    LET bytes == CopyOut(a.out, a.out.next, AtMost(plan.payload, Unsent(a.out)))
    IN /\ AgentSends(k) /\ ac[k].emit = "none" /\ DataDue(k)
       /\ down' = Answered(k, Data(AckOffset(a.in), a.out.next, bytes))
       /\ a' = [a EXCEPT !.out = AdvanceSendNext(@, Len(bytes))]
       /\ ac' = [ac EXCEPT ![k].lastAcked = AckOffset(a.in)]
       /\ UNCHANGED <<ptyVars, snapVars, done, clientVars, up, errors>>

AgentSendsEnd(k) ==
    /\ AgentSends(k) /\ ac[k].emit = "none" /\ ~DataDue(k) /\ EndDue(k)
    /\ down' = Answered(k, SessionEnd)
    /\ ac' = [ac EXCEPT ![k].endSent = TRUE]
    /\ UNCHANGED <<a, ptyVars, snapVars, done, clientVars, up, errors>>

AgentSendsAck(k) ==
    /\ AgentSends(k) /\ ac[k].emit = "none" /\ ~DataDue(k) /\ ~EndDue(k)
    /\ AckOffset(a.in) > ac[k].lastAcked
    /\ down' = Answered(k, Ack(AckOffset(a.in)))
    /\ ac' = [ac EXCEPT ![k].lastAcked = AckOffset(a.in)]
    /\ UNCHANGED <<a, ptyVars, snapVars, done, clientVars, up, errors>>

-------------------------------------------------------------------------------
(* The agent: supplying a snapshot.  The grid has seen every byte read from   *)
(* the pty, so a snapshot taken now stands for all `fed' of them.             *)

\* Fault: the bytes held back, which the snapshot shows, are sent after it.
SnapshotSuppliedKeepsRest(k) ==
    /\ UNCHANGED ptyBuf
    /\ IF Current(k)
       THEN /\ a' = [a EXCEPT !.out = NewGeneration(@)]
            /\ ac' = [ac EXCEPT ![k] =
                         [ac[k] EXCEPT !.stage = "live", !.suppress = FALSE,
                                       !.awaiting = TRUE, !.emit = "begin",
                                       !.gen = a.out.gen + 1, !.snap = fed]]
       ELSE UNCHANGED <<a, ac>>

\* SupplySnapshot on connection k, and the `PtyFrom_ = PtyTo_' after it, which
\* its callers execute whether or not k could still be supplied.
SnapshotSupplied(k) ==
    /\ ptyBuf' = <<>>
    /\ IF Current(k)
       THEN /\ a' = [a EXCEPT !.out = NewGeneration(@)]
            /\ ac' = [ac EXCEPT ![k] =
                         [ac[k] EXCEPT !.stage = "live", !.suppress = FALSE,
                                       !.awaiting = TRUE, !.emit = "begin",
                                       !.gen = a.out.gen + 1, !.snap = fed]]
       ELSE UNCHANGED <<a, ac>>

\* NeedsSnapshot in Agent::Pump: at once if the parser is in Ground, and
\* otherwise the connection waits.
AgentNeedsSnapshot(k) ==
    /\ AgentRuns /\ Current(k) /\ ac[k].stage = "snapshot" /\ ~ac[k].asked
    /\ \/ SnapshotSupplied(k) /\ snapWait' = NoConn
       \/ /\ plan.waits
          /\ ac' = [ac EXCEPT ![k].asked = TRUE]
          /\ snapWait' = k
          /\ UNCHANGED <<a, ptyBuf>>
    /\ UNCHANGED <<fed, ptyIn, ptyGot, shell, size, done>>
    /\ UNCHANGED <<clientVars, netVars>>

\* TrySupplySnapshot at the top of a turn of the loop, after MovePtyOutput.
TrySupplySnapshot ==
    /\ AgentRuns /\ snapWait # NoConn
    /\ ptyBuf = <<>> \/ ~AcceptsWrites(a, Limits)
    /\ snapWait' = NoConn
    /\ IF ac[snapWait].stage = "snapshot" THEN SnapshotSupplied(snapWait)
       ELSE UNCHANGED <<a, ptyBuf, ac>>
    /\ UNCHANGED <<fed, ptyIn, ptyGot, shell, size, done>>
    /\ UNCHANGED <<clientVars, netVars>>
-------------------------------------------------------------------------------
(* The client: connecting, and what ends a connection *)

NewClientChannel ==
    [rx |-> "none", rxGen |-> 0, rxSnap |-> 0, agentGen |-> 0,
     lastAcked |-> 0, applied |-> 0, resize |-> Unknown]

ClientRuns == ~cEnd /\ ~fatal

On(k) == ClientRuns /\ cConn = k

\* Fault: a snapshot of the lost connection stays to be confirmed.
ClientLeavesPending(s) ==
    /\ c' = Detach(s, s.conn, 0)
    /\ cConn' = NoConn /\ cLive' = FALSE /\ UNCHANGED pendApply
    /\ cc' = NewClientChannel
    /\ down' = [down EXCEPT ![cConn] = <<>>]

\* Drop, or the exit of the client: its connection is closed with stream s.
ClientLeaves(s) ==
    /\ c' = Detach(s, s.conn, 0)
    /\ cConn' = NoConn /\ cLive' = FALSE /\ pendApply' = 0
    /\ cc' = NewClientChannel
    /\ down' = [down EXCEPT ![cConn] = <<>>]

ClientFails(s, err) ==
    /\ ClientLeaves(IF err \in KillReasons THEN Reap(s, err) ELSE s)
    /\ fatal' = (err \in KillReasons)
    /\ errors' = errors \cup {<<"client", err>>}

ClientConnects ==
    /\ ClientRuns /\ AgentRuns /\ cConn = NoConn /\ used < plan.conns
    /\ plan.overlap \/ \A k \in 1..used : ac[k].stage = "closed"
    /\ used' = used + 1
    /\ cConn' = used + 1
    /\ up' = Pushed(up, used + 1, Hello)
    /\ UNCHANGED <<c, cGen, cLive, cc, window, screen, pendApply, cEnd, fatal>>
    /\ UNCHANGED <<agentVars, down, errors>>

\* SendResume: attach at the offset the agent answered with, and report ours.
ClientReceivesAuthOk(k) ==
    LET r == Attach(c, Head(down[k]).off)
    IN /\ On(k) /\ ~cLive /\ Arrived(down, k, "AuthOk")
       /\ IF r.err = "ok"
          THEN /\ c' = r.stream
               /\ cLive' = TRUE
               /\ cc' = [NewClientChannel EXCEPT !.agentGen = cGen,
                                                 !.lastAcked = AckOffset(c.in),
                                                 !.resize = window.size]
               /\ up' = Pushed(up, k, Resume(cGen, c.in.recv))
               /\ down' = Popped(down, k)
               /\ UNCHANGED <<cConn, pendApply, fatal, errors>>
          ELSE ClientFails(c, r.err) /\ UNCHANGED up
       /\ UNCHANGED <<cGen, used, window, screen, cEnd, agentVars>>

\* Silence, a deadline, a socket error, or the end of the agent's stream.
ClientDrops ==
    /\ ClientRuns /\ cConn # NoConn
    /\ ClientLeaves(c)
    /\ UNCHANGED <<cGen, used, window, screen, cEnd, fatal>>
    /\ UNCHANGED <<agentVars, up, errors>>

-------------------------------------------------------------------------------
(* The client: frames of a live connection *)

ClientReads(k, type) == On(k) /\ cLive /\ Arrived(down, k, type)

\* What every handled frame leaves alone.
ClientKeeps == UNCHANGED <<cConn, cLive, pendApply, fatal, errors>>

\* Output goes to the terminal's queue as it arrives.
ClientReceivesData(k) ==
    LET m     == Head(down[k])
        acked == Acknowledge(c.out, m.ack)
        got   == Receive(c.in, m.off, m.bytes)
        err   == IF cc.rx # "none" THEN "UnexpectedMessage"
                 ELSE IF acked.err # "ok" THEN acked.err ELSE got.err
    IN /\ ClientReads(k, "Data")
       /\ IF err = "ok"
          THEN /\ c' = [c EXCEPT !.out = acked.buf, !.in = got.cur]
               /\ screen' = screen \o got.new
               /\ down' = Popped(down, k)
               /\ UNCHANGED cc /\ ClientKeeps
          ELSE ClientFails(c, err) /\ UNCHANGED screen
       /\ UNCHANGED <<cGen, used, window, cEnd, agentVars, up>>

ClientReceivesAck(k) ==
    LET acked == Acknowledge(c.out, Head(down[k]).ack)
    IN /\ ClientReads(k, "Ack")
       /\ IF acked.err = "ok"
          THEN /\ c' = [c EXCEPT !.out = acked.buf]
               /\ down' = Popped(down, k)
               /\ UNCHANGED cc /\ ClientKeeps
          ELSE ClientFails(c, acked.err)
       /\ UNCHANGED <<cGen, used, window, screen, cEnd, agentVars, up>>

\* GridBegin and GridChunk: reassembly, refused out of order.
ClientReceivesGrid(k) ==
    LET m == Head(down[k])
        begins == m.type = "GridBegin" /\ cc.rx = "none" /\ m.gen > cc.agentGen
        goesOn == m.type = "GridChunk" /\ cc.rx = "begun"
    IN /\ ClientReads(k, "GridBegin") \/ ClientReads(k, "GridChunk")
       /\ IF begins \/ goesOn
          THEN /\ cc' = IF begins
                        THEN [cc EXCEPT !.rx = "begun", !.rxGen = m.gen]
                        ELSE [cc EXCEPT !.rx = "whole", !.rxSnap = m.snap]
               /\ down' = Popped(down, k)
               /\ UNCHANGED c /\ ClientKeeps
          ELSE ClientFails(c, "UnexpectedMessage")
       /\ UNCHANGED <<cGen, used, window, screen, cEnd, agentVars, up>>

\* GridEnd: the cursor starts the new generation, and the snapshot, which
\* redraws the whole terminal, is queued to be confirmed once it is drained.
ClientReceivesGridEnd(k) ==
    /\ ClientReads(k, "GridEnd")
    /\ IF cc.rx = "whole"
       THEN /\ c' = [c EXCEPT !.in = Reset(@, 0)]
            /\ cc' = [cc EXCEPT !.rx = "none", !.lastAcked = 0,
                                !.agentGen = cc.rxGen]
            /\ screen' = Shown(cc.rxSnap)
            /\ pendApply' = cc.rxGen
            /\ down' = Popped(down, k)
            /\ UNCHANGED <<cConn, cLive, fatal, errors>>
       ELSE /\ ClientFails(c, "UnexpectedMessage")
            /\ UNCHANGED screen
    /\ UNCHANGED <<cGen, used, window, cEnd, agentVars, up>>

\* ConfirmApply, when the last byte of the snapshot has been written out.
SnapshotDrained ==
    /\ ClientRuns /\ pendApply # 0
    /\ cGen' = pendApply
    /\ cc' = [cc EXCEPT !.applied = pendApply]
    /\ pendApply' = 0
    /\ UNCHANGED <<c, cConn, cLive, used, window, screen, cEnd, fatal>>
    /\ UNCHANGED <<agentVars, netVars>>

\* SessionEnd: the client flushes its terminal, closes and exits.
ClientReceivesEnd(k) ==
    /\ ClientReads(k, "SessionEnd")
    /\ cEnd' = TRUE
    /\ ClientLeaves(c)
    /\ UNCHANGED <<cGen, used, window, screen, fatal, agentVars, up, errors>>
-------------------------------------------------------------------------------
(* The client: Poll, in the order of its priorities, and the user *)

ClientSends(k) == On(k) /\ cLive /\ HasRoom(up, k)

ClientSent(k, frame) ==
    /\ up' = Pushed(up, k, frame)
    /\ UNCHANGED <<cGen, cConn, cLive, used, window, screen, pendApply, cEnd,
                   fatal, agentVars, down, errors>>

ClientSendsGridApplied(k) ==
    /\ ClientSends(k) /\ cc.applied # 0
    /\ cc' = [cc EXCEPT !.applied = 0]
    /\ UNCHANGED c
    /\ ClientSent(k, GridApplied(cc.applied))

ClientSendsData(k) ==
    LET bytes == CopyOut(c.out, c.out.next, AtMost(plan.payload, Unsent(c.out)))
    IN /\ ClientSends(k) /\ cc.applied = 0 /\ Unsent(c.out) > 0
       /\ c' = [c EXCEPT !.out = AdvanceSendNext(@, Len(bytes))]
       /\ cc' = [cc EXCEPT !.lastAcked = AckOffset(c.in)]
       /\ ClientSent(k, Data(AckOffset(c.in), c.out.next, bytes))

ClientSendsResize(k) ==
    /\ ClientSends(k) /\ cc.applied = 0 /\ Unsent(c.out) = 0
    /\ cc.resize # Unknown
    /\ cc' = [cc EXCEPT !.resize = Unknown]
    /\ UNCHANGED c
    /\ ClientSent(k, Resize(cc.resize))

\* Fault: a single unacknowledged byte is not worth an Ack.
ClientSendsAckLate(k) ==
    /\ ClientSends(k) /\ cc.applied = 0 /\ Unsent(c.out) = 0
    /\ cc.resize = Unknown /\ AckOffset(c.in) > cc.lastAcked + 1
    /\ cc' = [cc EXCEPT !.lastAcked = AckOffset(c.in)]
    /\ UNCHANGED c
    /\ ClientSent(k, Ack(AckOffset(c.in)))

ClientSendsAck(k) ==
    /\ ClientSends(k) /\ cc.applied = 0 /\ Unsent(c.out) = 0
    /\ cc.resize = Unknown /\ AckOffset(c.in) > cc.lastAcked
    /\ cc' = [cc EXCEPT !.lastAcked = AckOffset(c.in)]
    /\ UNCHANGED c
    /\ ClientSent(k, Ack(AckOffset(c.in)))

\* FeedStdin: input is read only while the buffer takes it.
UserTypes ==
    /\ ClientRuns /\ Len(c.out.log) < plan.in /\ AcceptsWrites(c, Limits)
    /\ c' = Write(c, <<Len(c.out.log) + 1>>, Limits).stream
    /\ UNCHANGED <<cGen, cConn, cLive, cc, used, window, screen, pendApply>>
    /\ UNCHANGED <<cEnd, fatal, agentVars, netVars>>

\* SIGWINCH: the size is queued on the connection, or for the next one.
UserResizes(sz) ==
    /\ ClientRuns /\ window.size # sz /\ window.changes < plan.resizes
    /\ window' = [size |-> sz, changes |-> window.changes + 1]
    /\ cc' = IF cLive THEN [cc EXCEPT !.resize = sz] ELSE cc
    /\ UNCHANGED <<c, cGen, cConn, cLive, used, screen, pendApply, cEnd, fatal>>
    /\ UNCHANGED <<agentVars, netVars>>
-------------------------------------------------------------------------------
Init ==
    /\ plan \in Plans
    /\ a = NewStream("Reap", TRUE, 0)
    /\ fed = 0 /\ ptyBuf = <<>> /\ ptyIn = <<>> /\ ptyGot = <<>>
    /\ shell = "running" /\ size = Unknown /\ snapWait = NoConn
    /\ ac = [k \in Conns |-> NewAgentConn] /\ done = FALSE
    /\ c = NewStream("Backpressure", FALSE, 0)
    /\ cGen = 0 /\ cConn = NoConn /\ cLive = FALSE /\ cc = NewClientChannel
    /\ used = 0 /\ window = [size |-> plan.size, changes |-> 0]
    /\ screen = <<>> /\ pendApply = 0
    /\ cEnd = FALSE /\ fatal = FALSE
    /\ up = [k \in Conns |-> <<>>] /\ down = [k \in Conns |-> <<>>]
    /\ errors = {}

ShellSteps ==
    \/ \E n \in 1..plan.read : ShellWrites(n)
    \/ PtyOutputMoves \/ ShellExits \/ SessionEnds
    \/ PtyTakesInput \/ PtyInputDiscarded

AgentReceives(k) ==
    \/ AgentRoutes(k) \/ AgentResumes(k) \/ AgentReceivesData(k)
    \/ AgentReceivesAck(k) \/ AgentReceivesResize(k)
    \/ AgentReceivesGridApplied(k) \/ AgentSuperseded(k) \/ AgentSeesClose(k)

AgentPolls(k) ==
    \/ AgentSendsGrid(k) \/ AgentSendsData(k) \/ AgentSendsEnd(k)
    \/ AgentSendsAck(k)

ClientReceives(k) ==
    \/ ClientReceivesAuthOk(k) \/ ClientReceivesData(k)
    \/ ClientReceivesAck(k) \/ ClientReceivesGrid(k)
    \/ ClientReceivesGridEnd(k) \/ ClientReceivesEnd(k)

ClientPolls(k) ==
    \/ ClientSendsGridApplied(k) \/ ClientSendsData(k)
    \/ ClientSendsResize(k) \/ ClientSendsAck(k)

Next ==
    /\ \/ ShellSteps \/ TrySupplySnapshot
       \/ \E k \in Conns : \/ AgentReceives(k) \/ AgentPolls(k) \/ AgentCloses(k)
                           \/ AgentNeedsSnapshot(k)
                           \/ ClientReceives(k) \/ ClientPolls(k)
       \/ ClientConnects \/ ClientDrops \/ SnapshotDrained
       \/ UserTypes \/ \E sz \in Sizes : UserResizes(sz)
    /\ UNCHANGED plan

Spec == Init /\ [][Next]_vars

AgentLoop ==
    /\ \/ PtyOutputMoves \/ SessionEnds \/ PtyInputDiscarded \/ TrySupplySnapshot
       \/ \E k \in Conns : AgentReceives(k) \/ AgentPolls(k) \/ AgentNeedsSnapshot(k)
    /\ UNCHANGED plan

ClientLoop ==
    /\ \/ SnapshotDrained
       \/ \E k \in Conns : ClientReceives(k) \/ ClientPolls(k)
    /\ UNCHANGED plan

(***************************************************************************)
(* Each event loop goes on while a descriptor is ready or a pump has work; *)
(* what it serves first is left open.  Nothing is assumed of the user, of  *)
(* the shell (which need not read its input), or of the connections, which *)
(* may be cut for ever.                                                    *)
(***************************************************************************)
FairSpec == Spec /\ WF_vars(AgentLoop) /\ WF_vars(ClientLoop)
-------------------------------------------------------------------------------
Frames ==
    [type : {"Hello", "GridEnd", "SessionEnd"}]
    \cup [type : {"AuthOk"}, off : Nat]
    \cup [type : {"Resume"}, gen : Nat, off : Nat]
    \cup [type : {"Data"}, ack : Nat, off : Nat, bytes : Seq(Nat)]
    \cup [type : {"Ack"}, ack : Nat] \cup [type : {"Resize"}, size : Sizes]
    \cup [type : {"GridBegin", "GridApplied"}, gen : Nat]
    \cup [type : {"GridChunk"}, snap : Nat]

AgentConns ==
    [stage : {"new", "resume", "snapshot", "live", "closed"}, handle : Nat,
     lastAcked : Nat, suppress : BOOLEAN, asked : BOOLEAN, awaiting : BOOLEAN,
     emit : {"begin", "chunk", "end", "none"}, gen : Nat, snap : Nat,
     endSent : BOOLEAN]

ClientChannels ==
    [rx : {"none", "begun", "whole"}, rxGen : Nat, rxSnap : Nat,
     agentGen : Nat, lastAcked : Nat, applied : Nat,
     resize : Sizes \cup {Unknown}]

\* Queues, cursors and stages stay what the code declares them to be.
TypeOK ==
    /\ a \in Streams /\ c \in Streams /\ fed \in Nat /\ ptyBuf \in Seq(Nat)
    /\ ptyIn \in Seq(Nat) /\ ptyGot \in Seq(Nat)
    /\ shell \in {"running", "exited", "ended"}
    /\ size \in Sizes \cup {Unknown} /\ snapWait \in Conns \cup {NoConn}
    /\ ac \in [Conns -> AgentConns] /\ done \in BOOLEAN
    /\ cGen \in Nat /\ cConn \in Conns \cup {NoConn} /\ cLive \in BOOLEAN
    /\ cc \in ClientChannels /\ used \in 0..MaxConns
    /\ window \in [size : Sizes, changes : 0..plan.resizes]
    /\ screen \in Seq(Nat) /\ pendApply \in Nat
    /\ cEnd \in BOOLEAN /\ fatal \in BOOLEAN
    /\ up \in [Conns -> Seq(Frames)] /\ down \in [Conns -> Seq(Frames)]

(***************************************************************************)
(* No silent corruption (docs/design.md section 9): while a connection     *)
(* replays or carries the stream, and the buffer is not marked as          *)
(* overflowed, what the agent holds of this generation runs without a hole *)
(* up to the last byte read from the pty.                                  *)
(***************************************************************************)
NoSilentHole ==
    LET held == a.out.log \o ptyBuf
    IN (\E k \in Conns : Current(k) /\ ac[k].stage = "live")
          /\ ~a.out.overflowed =>
       \A i \in 1..Len(held) : held[i] = fed - Len(held) + i

(***************************************************************************)
(* Neither end forgets a byte the other may still ask for: what the client *)
(* has dropped from its buffer, a running shell has read.                  *)
(***************************************************************************)
AckedInputWasRead == shell = "running" => c.out.base <= Len(ptyGot)

(***************************************************************************)
(* Honest peers never accuse each other of a stream gap, a frame out of    *)
(* place or a field out of range, and the client never gives up a session  *)
(* that the agent still carries.                                           *)
(***************************************************************************)
NoProtocolError ==
    /\ \A e \in errors : e[2] \notin {"StreamGap", "UnexpectedMessage",
                                      "MalformedField"}
    /\ ~fatal

(***************************************************************************)
(* The session implements the terminal it promises.                        *)
(***************************************************************************)
Promise == INSTANCE Terminal WITH typed <- c.out.log, read <- ptyGot,
                                  written <- fed, shown <- screen,
                                  gone <- shell # "running", over <- cEnd

ImplementsTerminal == Promise!Spec

\* Connection k joins the two ends.
Joins(k) == AgentRuns /\ cConn = k /\ cLive /\ Current(k)

(***************************************************************************)
(* A connection that lasts brings the terminal up to date and tells the    *)
(* client of the shell's end, even if the shell never reads its input: the *)
(* agent does not gate its sockets on the pty (Agent::UpdateInterest).     *)
(***************************************************************************)
LastingConnectionShows ==
    \A k \in Conns :
        <>[]Joins(k) => <>[](screen = Shown(fed) /\ shell # "ended")

(***************************************************************************)
(* A connection that lasts brings the shell everything typed, provided the *)
(* shell keeps emptying the pty's queue.                                   *)
(***************************************************************************)
LastingConnectionTypes ==
    \A k \in Conns :
        <>[]Joins(k) /\ []<>(ptyIn = <<>>) =>
            <>[](shell = "running" => ptyGot = c.out.log)

(***************************************************************************)
(* docs/design.md section 9 and channel.cpp: received bytes are            *)
(* acknowledged by a Data frame or, when idle, by an Ack of their own, so  *)
(* the client of a lasting connection forgets all that the shell has read. *)
(***************************************************************************)
InputIsAcknowledged ==
    \A k \in Conns :
        <>[]Joins(k) /\ []<>(ptyIn = <<>>) => <>[](Size(c.out) = 0)

(***************************************************************************)
(* docs/design.md section 9: acknowledgements of an older generation are   *)
(* ignored, not answered by closing the connection.                        *)
(***************************************************************************)
NoStaleAck == <<"agent", "AckBeyondSent">> \notin errors

(***************************************************************************)
(* PeerBehindBuffer means that the peer lost state it had confirmed        *)
(* holding (session/error.hpp); a client that lost nothing never ends its  *)
(* session that way.                                                       *)
(***************************************************************************)
HonestSessionSurvives == a.reason # "PeerBehindBuffer"

(***************************************************************************)
(* While every connection is served after its predecessor has ended, the   *)
(* agent never reaps the session of a client that lost nothing, whatever   *)
(* is cut and however long a snapshot waits.                               *)
(***************************************************************************)
SurvivesInOrder == ~plan.overlap => HonestSessionSurvives

\* Two honest ends never find fault with each other.
HonestPeersAgree == NoProtocolError /\ SurvivesInOrder

(***************************************************************************)
(* The agent exits as done only when the client has the whole session, as  *)
(* DropClosed and RunLoop in agent.cpp say.                                *)
(***************************************************************************)
DoneMeansWhole == done => cEnd
===============================================================================
