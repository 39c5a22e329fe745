--------------------------- MODULE SnapshotSupply ---------------------------
(***************************************************************************)
(* How a waiting connection gets its snapshot: the agent's loop            *)
(* (src/src/agent/agent.cpp), its GridPump (src/src/agent/grid_pump.cpp),  *)
(* the AwaitSnapshot stage of AgentConnection (src/src/session/            *)
(* connection.cpp) and the emission in Channel (channel.cpp).              *)
(*                                                                         *)
(* The loop is single-threaded: Turn is one pass over it, the other agent  *)
(* actions are events between two passes.  The bytes of the pty feed the   *)
(* grid's parser and, through the stream of the generation, the parser of  *)
(* the client's terminal.  Session models what is in between; here the     *)
(* stream arrives in order.  Deadlines are ticks left.                     *)
(***************************************************************************)
EXTENDS VtParser

CONSTANTS
    Chunks,         \* what one read of the pty may return
    Addresses,      \* where a Connection may be allocated: positive numbers
    StreamMax,      \* bound of the output buffer
    SnapFrames,     \* grid frames of a snapshot
    QueueMax,       \* frames the output queue of a connection takes
    GroundTicks, GroundBytes,   \* GROUND_WAIT_TIMEOUT and GROUND_WAIT_BYTES
    ResizeTicks,    \* RESIZE_WAIT_TIMEOUT
    SupplyTicks,    \* SUPPLY_SNAPSHOT_TIMEOUT and GRID_APPLIED_TIMEOUT
    MaxReads, MaxOpened     \* bounds: reads of the pty, connections

\* The defaults: a queue of RESEND_BUFFER_MAX + SOCKET_OUTPUT_SLACK, 5 MiB, takes
\* a snapshot of SNAPSHOT_MAX_BYTES, 4 MiB, and both waits end in SupplyTicks.
ASSUME SupplyAssumption ==
    /\ {StreamMax, SnapFrames, QueueMax, GroundTicks, ResizeTicks, SupplyTicks} \subseteq Nat \ {0}
    /\ SnapFrames <= QueueMax
    /\ ResizeTicks + GroundTicks < SupplyTicks

VARIABLES
    agent,      \* the loop's state, see Init
    terminal,   \* the parser of the client's terminal
    settled,    \* the loop has nothing left to do before a deadline
    reads, opened

vars == <<agent, terminal, settled, reads, opened>>

NoAddress == 0
NewConnection(addr) ==
    [addr |-> addr, stage |-> "handshake", inbox |-> <<>>, sized |-> FALSE,
     asked |-> FALSE, ticks |-> 0, left |-> 0, awaiting |-> FALSE,
     queued |-> 0, closing |-> FALSE]

\* parser, wait and snap are GridPump's Parser_, SnapWait_ and Snap_, and lentTo
\* the connection that has a span of Snap_; held is PtyRead_ from PtyFrom_ to
\* PtyTo_, fresh what the grid has not seen of it; owner is the connection whose
\* handle is current.
\* The rest describes the generation: stream is its output not yet shown,
\* overflowed the ring's flag, applied that the client has its snapshot, cut that
\* it began inside a character, lost that a snapshot its connection did not take
\* has cost output, or the grid the rest of a sequence.
Init ==
    /\ agent = [parser |-> NewParser, wait |-> <<>>, snap |-> FALSE,
                lentTo |-> NoAddress, waitConn |-> NoAddress, conns |-> <<>>, owner |-> NoAddress,
                fresh |-> <<>>, held |-> <<>>, stream |-> <<>>,
                overflowed |-> FALSE, applied |-> TRUE, cut |-> FALSE, lost |-> FALSE]
    /\ terminal = NewParser
    /\ settled = FALSE
    /\ reads = 0 /\ opened = 0

Set(a, i, c) == [a EXCEPT !.conns[i] = c]
IsCurrent(a, c) == a.owner = c.addr

(***************************************************************************)
(* The steps of a pass, as functions of the agent's state.                 *)
(***************************************************************************)
\* The grid sees every byte first.  A live session takes what has room; a
\* detached one takes everything and overflows.
MovePtyOutput(a) ==
    LET fed == [a EXCEPT !.parser = Feed(@, a.fresh), !.fresh = <<>>,
                         !.wait = [i \in DOMAIN a.wait |->
                             [a.wait[i] EXCEPT !.bytes = IF @ > Len(a.fresh) THEN @ - Len(a.fresh) ELSE 0]]]
        room == StreamMax - Len(a.stream)
        n == IF Len(a.held) < room THEN Len(a.held) ELSE room
        over == Len(a.held) > room
    IN  IF a.owner # NoAddress
        THEN [fed EXCEPT !.stream = @ \o SubSeq(a.held, 1, n),
                         !.held = SubSeq(@, n + 1, Len(@))]
        ELSE [fed EXCEPT !.stream = IF over \/ a.overflowed THEN <<>> ELSE @ \o a.held,
                         !.overflowed = @ \/ over, !.held = <<>>]

\* delete Snap_: whoever still emits from it holds a dangling span.
DeleteSnap(a) == [a EXCEPT !.snap = FALSE, !.lentTo = NoAddress]

\* DoBuild: only the parser's state is looked at, not a character begun.
DoBuild(a) ==
    LET ground == a.parser.state = "ground"
        b == DeleteSnap(a)
    IN  [b EXCEPT !.parser = [IF ground THEN @ ELSE Reset(@) EXCEPT !.diverged = FALSE],
                  !.snap = TRUE, !.wait = <<>>, !.lost = @ \/ ~ground]

\* Fault: what the grid has seen is also left for the new generation.
SupplyKeepsHeld(a, i) ==
    LET c == a.conns[i]
        started == [c EXCEPT !.stage = "live", !.left = SnapFrames, !.awaiting = TRUE,
                             !.ticks = SupplyTicks]
    IN  IF c.stage = "await" /\ IsCurrent(a, c)
        THEN [Set(a, i, started) EXCEPT
                !.lentTo = c.addr, !.stream = <<>>, !.overflowed = FALSE,
                !.applied = FALSE, !.cut = a.parser.utf8 > 0, !.lost = FALSE]
        ELSE a

\* AgentConnection::SupplySnapshot, NewGeneration and StartGrid, for the i-th
\* connection, and the caller's PtyFrom_ = PtyTo_, which also happens when the
\* connection refuses the snapshot.
SupplySnapshot(a, i) ==
    LET c == a.conns[i]
        taken == c.stage = "await" /\ IsCurrent(a, c)
        started == [c EXCEPT !.stage = "live", !.left = SnapFrames, !.awaiting = TRUE,
                             !.ticks = SupplyTicks]
    IN  IF taken
        THEN [Set(a, i, started) EXCEPT
                !.lentTo = c.addr, !.stream = <<>>, !.overflowed = FALSE, !.applied = FALSE,
                !.cut = a.parser.utf8 > 0, !.lost = FALSE, !.held = <<>>]
        ELSE [a EXCEPT !.lost = @ \/ a.held # <<>>, !.held = <<>>]

\* GridEmissionDone: true from StartGrid on.
GridEmissionDone(c) == c.awaiting

\* Fault: a wait that has run out is not looked at.
MayBuildGround(a) == a.wait # <<>> /\ a.parser.state = "ground"

\* TryBuild: in Ground, or when the wait has run out.
MayBuild(a) ==
    a.wait # <<>> /\ (a.parser.state = "ground" \/ a.wait[1].left = 0 \/ a.wait[1].bytes = 0)

CancelPendingSnap(a) == [a EXCEPT !.wait = <<>>]

\* Called once a pass, before the connections are pumped.
TrySupplySnapshot(a) ==
    LET here == {i \in DOMAIN a.conns : a.conns[i].addr = a.waitConn /\ ~a.conns[i].closing}
        i == CHOOSE j \in here : TRUE
    IN  CASE a.waitConn = NoAddress -> a
          [] a.waitConn # NoAddress /\ here = {} ->
               [CancelPendingSnap(a) EXCEPT !.waitConn = NoAddress]
          [] here # {} /\ a.snap ->
               IF GridEmissionDone(a.conns[i])
               THEN [DeleteSnap(a) EXCEPT !.waitConn = NoAddress] ELSE a
          [] here # {} /\ ~a.snap ->
               IF MayBuild(a) THEN SupplySnapshot(DoBuild(a), i) ELSE a

\* PumpResume: path B if it must be, or the client's Resume says it is cheaper.
PumpResume(a, i) ==
    LET c == a.conns[i]
        pathB == a.overflowed \/ ~a.applied \/ Head(c.inbox) = "resumeB"
        live == [c EXCEPT !.inbox = Tail(@), !.stage = IF pathB THEN "await" ELSE "live",
                          !.ticks = IF pathB THEN SupplyTicks ELSE 0]
    IN  IF c.stage # "handshake" \/ c.inbox = <<>> \/ c.closing THEN a
        ELSE [Set(a, i, live) EXCEPT !.owner = c.addr]

\* OnNeedsSnapshot, called by the agent's Pump: arm the wait, build at once in
\* Ground.
OnNeedsSnapshot(a, i) ==
    LET armed == [a EXCEPT !.waitConn = a.conns[i].addr,
                           !.wait = <<[left |-> GroundTicks, bytes |-> GroundBytes]>>]
    IN  IF a.parser.state = "ground" THEN SupplySnapshot(DoBuild(armed), i) ELSE armed

\* PumpAwaitSnapshot: superseded or out of time it closes; a Resize, or its
\* deadline, has it ask (again) for a snapshot.
PumpAwaitSnapshot(a, i) ==
    LET c == a.conns[i]
        resized == c.inbox # <<>>
        sized == c.sized \/ resized \/ c.ticks <= SupplyTicks - ResizeTicks
        ask == sized /\ (resized \/ ~c.asked)
        b == Set(a, i, [c EXCEPT !.inbox = <<>>, !.sized = sized, !.asked = @ \/ ask])
    IN  CASE c.stage # "await" \/ c.closing -> a
          [] c.stage = "await" /\ ~c.closing /\ (~IsCurrent(a, c) \/ c.ticks = 0) ->
               Set(a, i, [c EXCEPT !.closing = TRUE])
          [] OTHER -> IF ask THEN OnNeedsSnapshot(b, i) ELSE b

\* Fault: one grid frame a pass.
EmitOne(c) == IF c.left > 0 THEN [c EXCEPT !.left = @ - 1, !.queued = @ + 1] ELSE c

\* Channel's emission, as long as the output queue has room.
Emit(c) ==
    LET room == QueueMax - c.queued
        n == IF c.left < room THEN c.left ELSE room
    IN  [c EXCEPT !.left = @ - n, !.queued = @ + n]

\* PumpLive of the agent, with the deadline for GridApplied.
PumpLive(a, i) ==
    LET c == a.conns[i]
        applied == c.inbox # <<>> /\ Head(c.inbox) = "applied"
        told == [c EXCEPT !.inbox = <<>>, !.awaiting = @ /\ ~applied,
                          !.ticks = IF applied THEN 0 ELSE @]
    IN  CASE c.stage # "live" \/ c.closing -> a
          [] c.stage = "live" /\ ~c.closing /\ (~IsCurrent(a, c) \/ (c.awaiting /\ c.ticks = 0)) ->
               Set(a, i, [c EXCEPT !.closing = TRUE])
          [] OTHER -> Set(a, i, Emit(told))

\* Pump: one connection through whatever stages it passes in this turn.
Pump(a, i) == PumpLive(PumpAwaitSnapshot(PumpResume(a, i), i), i)
PumpAll(a) ==
    LET f[i \in 0..Len(a.conns)] == IF i = 0 THEN a ELSE Pump(f[i - 1], i)
    IN  f[Len(a.conns)]

\* DropClosed: the session is detached with its owner.  waitConn keeps the
\* address, which the next connection may be given.
DropClosed(a) ==
    [a EXCEPT !.conns = SelectSeq(@, LAMBDA c : ~c.closing),
              !.owner = IF \E i \in DOMAIN a.conns : a.conns[i].addr = @ /\ ~a.conns[i].closing
                        THEN @ ELSE NoAddress]

(***************************************************************************)
(* Actions.                                                                *)
(***************************************************************************)
\* One pass of RunLoop.
Turn ==
    /\ ~settled
    /\ agent' = DropClosed(PumpAll(TrySupplySnapshot(MovePtyOutput(agent))))
    /\ settled' = (agent' = agent)
    /\ UNCHANGED <<terminal, reads, opened>>

Event(a) == agent' = a /\ settled' = FALSE

ReadPty ==
    /\ agent.held = <<>> /\ reads < MaxReads
    /\ \E s \in Chunks : Event([agent EXCEPT !.fresh = s, !.held = s])
    /\ reads' = reads + 1
    /\ UNCHANGED <<terminal, opened>>

\* AcceptAll, or a connection handed over by the mux.
Accept ==
    /\ opened < MaxOpened /\ opened' = opened + 1
    /\ \E addr \in Addresses :
         /\ \A i \in DOMAIN agent.conns : agent.conns[i].addr # addr
         /\ Event([agent EXCEPT !.conns = Append(@, NewConnection(addr))])
    /\ UNCHANGED <<terminal, reads>>

Receive(i, msgs) ==
    /\ ~agent.conns[i].closing /\ agent.conns[i].inbox = <<>>
    /\ Event([agent EXCEPT !.conns[i].inbox = msgs])

\* The client's Resume, with the Resize that follows it or before it.
ReceiveResume ==
    /\ \E i \in DOMAIN agent.conns, path \in {"resumeA", "resumeB"} :
         /\ agent.conns[i].stage = "handshake"
         /\ Receive(i, <<path>>) \/ Receive(i, <<path, "resize">>)
    /\ UNCHANGED <<terminal, reads, opened>>

ReceiveResize ==
    /\ \E i \in DOMAIN agent.conns : agent.conns[i].stage = "await" /\ Receive(i, <<"resize">>)
    /\ UNCHANGED <<terminal, reads, opened>>

WriteSocket ==
    /\ \E i \in DOMAIN agent.conns :
         /\ agent.conns[i].queued > 0 /\ ~agent.conns[i].closing
         /\ Event([agent EXCEPT !.conns[i].queued = 0])
    /\ UNCHANGED <<terminal, reads, opened>>

\* ReadSocket or WriteSocket finds the connection broken.
ReadSocketFails ==
    /\ \E i \in DOMAIN agent.conns :
         ~agent.conns[i].closing /\ Event([agent EXCEPT !.conns[i].closing = TRUE])
    /\ UNCHANGED <<terminal, reads, opened>>

\* A deadline comes nearer once the loop sleeps.
Less(n) == IF n = 0 THEN 0 ELSE n - 1
Tick ==
    /\ settled
    /\ Event([agent EXCEPT
         !.wait = [i \in DOMAIN agent.wait |-> [agent.wait[i] EXCEPT !.left = Less(@)]],
         !.conns = [i \in DOMAIN agent.conns |-> [agent.conns[i] EXCEPT !.ticks = Less(@)]]])
    /\ UNCHANGED <<terminal, reads, opened>>

\* The client has the whole snapshot, writes it to the terminal (it starts with
\* CAN and ESC \) and answers GridApplied.
SnapshotStart == <<"can", "esc", "final">>
ClientApplies ==
    \E i \in DOMAIN agent.conns :
        LET c == agent.conns[i]
        IN  /\ c.awaiting /\ c.left = 0 /\ c.queued = 0 /\ ~agent.applied /\ IsCurrent(agent, c)
            /\ ~c.closing /\ c.inbox = <<>>
            /\ Event([agent EXCEPT !.applied = TRUE, !.conns[i].inbox = <<"applied">>])
            /\ terminal' = Feed(terminal, SnapshotStart)
            /\ UNCHANGED <<reads, opened>>

\* The client shows the output of the generation it has.
ClientShows ==
    /\ agent.stream # <<>>
    /\ \E i \in DOMAIN agent.conns :
         LET c == agent.conns[i]
         IN  c.stage = "live" /\ IsCurrent(agent, c) /\ ~c.awaiting /\ ~c.closing
    /\ terminal' = Feed(terminal, agent.stream)
    /\ Event([agent EXCEPT !.stream = <<>>])
    /\ UNCHANGED <<reads, opened>>

Next ==
    \/ Turn \/ ReadPty \/ Accept \/ ReceiveResume \/ ReceiveResize \/ WriteSocket
    \/ ReadSocketFails \/ Tick \/ ClientApplies \/ ClientShows

Spec == Init /\ [][Next]_vars

-----------------------------------------------------------------------------
\* The parsers hold nothing that their state does not use, and the wait belongs
\* to a connection.
TypeOK ==
    /\ ParserClean(agent.parser) /\ ParserClean(terminal)
    /\ Len(agent.stream) <= StreamMax /\ Len(agent.wait) <= 1
    /\ agent.wait # <<>> => agent.waitConn # NoAddress
    /\ \A i \in DOMAIN agent.conns : agent.conns[i].queued \in 0..QueueMax

(***************************************************************************)
(* grid_pump.hpp:87: the snapshot is released after GridEnd.  Although     *)
(* GridEmissionDone is true earlier, and any new snapshot deletes the last *)
(* one, no channel is left emitting from a deleted snapshot.               *)
(***************************************************************************)
SnapshotOutlivesEmission ==
    \A i \in DOMAIN agent.conns : agent.conns[i].left > 0 => agent.lentTo = agent.conns[i].addr

\* Parsers, wait and snapshot belong to what they are kept for.
PumpInStep == TypeOK /\ SnapshotOutlivesEmission

Sync(p) == [p EXCEPT !.diverged = FALSE]

(***************************************************************************)
(* docs/design.md section 9: from a snapshot on, the terminal reads the    *)
(* output as the grid did.  What the generation still has to show brings   *)
(* its parser, fresh from the snapshot or not, to the state of the grid's. *)
(* Not if the generation began inside a character, or after SessionHole's  *)
(* loss.                                                                   *)
(***************************************************************************)
TerminalInStep ==
    LET fed == SubSeq(agent.held, 1, Len(agent.held) - Len(agent.fresh))
        from == IF agent.applied THEN terminal ELSE NewParser
    IN  ~agent.overflowed /\ ~agent.cut /\ ~agent.lost
          => Sync(Feed(from, agent.stream \o fed)) = Sync(agent.parser)

\* The connection the pump waits for, asleep although its wait is over.
Overdue ==
    /\ settled /\ agent.wait # <<>> /\ agent.wait[1].left = 0
    /\ \E i \in DOMAIN agent.conns :
         agent.conns[i].addr = agent.waitConn /\ agent.conns[i].stage = "await"

(***************************************************************************)
(* docs/design.md section 9, path B: the agent waits for Ground no longer  *)
(* than GROUND_WAIT_TIMEOUT, then resets the parser and builds.  Here for  *)
(* a pump that holds no earlier snapshot.                                  *)
(***************************************************************************)
GroundWaitEnds == Overdue => agent.snap

\* The same without condition.  A snapshot left by a connection that closed
\* before it was released blocks the next one that has to wait.
GroundWaitAlwaysEnds == ~Overdue

\* docs/design.md section 9: a generation starts on a character boundary.
GenerationStartsOnBoundary == ~agent.cut
=============================================================================
