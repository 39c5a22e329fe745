# zet in TLA+

A verification project for zet, a remote terminal that survives broken
connections. A session is a shell on a host, kept by an *agent*, and a *client*
that shows it. They exchange keys once over ssh and then talk over TCP
connections that may break at any moment. After a break the client reconnects
and the agent either replays what the client lacks (path A) or sends a snapshot
of the screen and starts a new generation of the output (path B). A host where
many agents share one port runs *zet-muxd*, which reads the first message of a
connection and passes the socket to its agent.

Paths below are relative to `src/src/`, documents to `src/docs/`.

## Parts and modules

| part | source | module | what the module holds |
|---|---|---|---|
| send buffer | `session/send_buffer` | `SendBuffer`, `SendRing` | one operator per method on the unbounded stream; the same in `Cap` slots with wrapped copies |
| receive cursor | `session/receive_cursor` | `ReceiveCursor` | duplicates cut, acknowledgement behind delivery |
| stream state | `session/stream_state` | `StreamState`, `StreamLifecycle` | Detached, Live, Reaped; several connections that close late, the orphan clock, overflow |
| sessions | `session/agent_session`, `client_session` | `SeedRatchet`, `Session` | seeds, handles, generations, the end |
| the whole session | `session/connection`, `channel`, `agent/agent`, `client/client` | `Session` | both streams across cuts, replays, snapshots, window changes and the end |
| the promise | | `Terminal` | bytes typed are read in order, bytes written are shown in order, the end comes after the last byte |
| armor, key exchange | `wire/armor`, `session/bootstrap` | `Armor`, `Bootstrap` | base64 and armor by character, both scanners, a login shell that prints |
| frame stream | `wire/frame_stream`, `frame` | `FrameStream` | reassembly from reads of any size |
| handshake | `wire/handshake`, `session/connection` | `Handshake` | four messages, versions, transcripts, nonce memory, decoy, a network that changes messages |
| sealed frames | `wire/sealed_frame`, `key_schedule` | `FrameKeys` | epochs, counters, prepared keys |
| channel | `session/channel` | `Channel` | Data, Ack, Ping, Pong, rekeying, gates, every deadline on a clock |
| one connection | | `Connection` | Bootstrap, then Handshake, then Channel |
| delivery | `client/deliver`, `wire/probe` | `Deliver` | the installer script command by command, two at once in one cache |
| client loop | `client/client`, `escape` | `ClientLink`, `Client` | reconnection, backoff, giving up, queues, escape, exit; `Client` is delivery and then the loop |
| mux | `session/mux_router`, `mux/mux`, `agent/mux_link` | `MuxRouter`, `Mux` | registration, routing, descriptor passing in pieces, deadlines, restart of zet-muxd |
| snapshot supply | `agent/agent`, `agent/grid_pump` | `SnapshotSupply`, `VtParser` | who waits, who is supplied, how long the memory is kept, what both parsers have read |
| grid | `grid/grid`, `vt_parser` | `GridLine`, `Sgr`, `Grid`, `VtDispatch` | two screens, scrollback, wide characters, margins, modes, pens, resizing |
| snapshot | `grid/snapshot` | `Snapshot`, `Screen` | the encoding, the ladder of reductions, and a terminal that plays it |

Values are operators over records (`SendBuffer`, `MuxRouter`, `Grid` ...), so
that several owners can hold one. State machines take one action per handler of
an event loop; where a loop does work at its top, that is an action `Turn`.

Data are abstracted as follows. The i-th byte of a stream is the number i, a
screen or snapshot in `Session` is the sequence of bytes it shows. A key is how
it was derived, a tag is the triple of key, label and transcript. In `Screen` a
snapshot is the sequence of terminal sequences that rebuilds the grid. In
`SnapshotSupply` a byte is its class to the parser. In `Mux` a frame is a number
of pieces and a descriptor rides on the first.

Modules named `MC...` give the constants of a run values. Definitions whose
comment calls them a fault are wrong variants of the definition after them,
kept to show that the properties can fail.

## Runs

Every property has a comment in its module that states it.

| run | distinct states | shows |
|---|---|---|
| SendRing | 10,240 | the ring holds exactly the window; CopyOut is exact |
| StreamLifecycle | 35,636 | no silent drop, live iff carried, no early orphan, reaping is final, live ceiling |
| SeedRatchet | 1,614,735 | with handshakes in any order: the client is never ahead, how far the agent can be, old seeds are gone |
| Session | 841,200 | honest peers never find fault with each other, acknowledged input was read, no silent hole, `Terminal` is implemented |
| SessionLive | 165,420 | a lasting connection brings the screen, and a reading shell, up to date |
| Connection | 963,134 | the client finds its agent; the ends agree; keys are fresh; honest handshakes end well; silence is noticed, never imagined; no wakeup is lost; every frame opens |
| Client | 907,716 | only whole agents are offered, a transfer is not cleaned away, installer and client never wait for each other; received output is kept, the escape quits and nothing else does, reconnection in measure |
| Mux | 14,175 | tables, router and sockets agree; a connection goes to one agent, its own; every connection settles; a lost link returns |
| SnapshotSupply | 1,310,402 | no emission from a deleted snapshot; the terminal parses in step with the grid; the wait for Ground ends |
| Screen | 22,414 | cursor, margins and wide pairs stay well formed; a snapshot restores the screen, a reduced one what it keeps; the first rung that fits is chosen |
| SessionLateResume | violated | the Resume of an abandoned connection reaps the session |
| SessionHole | violated | a snapshot for a superseded connection drops live output |

Several properties are conjunctions of related ones, each with its own
definition and comment: HonestPeersAgree, FindsItsAgent, HonestHandshake,
NoLostWakeup, InstallersGetAlong, OutputIsKept, ReconnectsInMeasure, RouterInStep, HandedOverOnce,
PumpInStep, GridWellFormed. That base64 has one spelling for every sequence of
bytes is an ASSUME of `Bootstrap` over bounded inputs, which TLC evaluates.

### Session: what the runs cover and what they do not say

A *plan* fixes what may happen in a behaviour: connections, bytes each way,
window changes, frame sizes, whether connections overlap and whether snapshots
wait. `MCSession` lists the plans; each puts two or three hazards together.

Exactness of the screen is **not** a property of the code without conditions.
It fails when connections overlap *and* a snapshot has to wait for the parser
(SessionHole). There NoSilentHole fails, and so does ImplementsTerminal: the
client is told of the end without all of the output. With two connections
neither fails (163,720 states), because the hole needs one connection that
waits and a later one that replays. The plans of run Session therefore leave
out one of the two conditions each. HonestPeersAgree likewise claims that a
session is never reaped only for connections served in order; SessionLateResume
is the other case.

### SeedRatchet: overlapping handshakes

A handshake works on copies of the agent's seeds while other Resumes may open.
Two history variables record what that does and guard nothing: `crossed[k]`, the
connections between Hello and Resume when the Resume of k opened, and
`outdated`, how often a Resume opened on a copy of the present seed that another
had outdated. SeedAgreement says that nothing but the latter drives the ends
apart: a Resume on the previous seed leaves the agent where it is, however old
its copies. Without one, the client is on one of the agent's two seeds.
OldSeedsGone leaves out the handshakes a connection crossed: they keep the
copies they took until their Auth or their deadline.

ImplementsTerminal is refinement with `typed`, `read`, `written`, `shown`,
`gone` and `over` read off the two ends. It says that no byte of either
direction is lost, repeated or out of order, and that the end means the whole.

### Bounds

Buffers of one to three bytes reach backpressure, overflow, exact fill and
wrap-around; a change of generation needs two connections, a stale one three.
Plans that are too slow to keep were run once without a violation: three
overlapping connections with three bytes and a buffer of two (1,659,122 states),
three with input only (2,378,847), output after a snapshot with overlap
(167,726), two and two bytes without a grid (645,635). Three connections with
input and output together did not finish.

Connection counts small: epochs 0 and 1, three frames per key, a clock of a few
ticks, so that rekeying by count, bytes and time, the last epoch and the silence
limit all occur. FrameLimit 2 with three epochs (5,074,253 states), a queue of
one frame (991,533) and Bootstrap with three pieces of noise (183,273) pass too.

Mux has one agent, two clients, one fault. Two agents pass for the invariants
with two clients (916,673 states) and for the liveness properties with one
(67,931); three clients from two addresses pass as well (750,176). The limit on
registrations is not reached with one agent.

Screen takes at most three sequences from four prepared screens of 3 x 3 with
two lines of scrollback, among them full ones, a pair at the right edge and the
alternate screen. The sizes it is changed to are out of range and reach each of
the clamps; one leaves a single column. A parameter above 255 reaches the
eight bits that EL looks at. The ladder is compared with its reference at every size limit
that tells two rungs apart.

Deadlock is checked in SendRing; elsewhere the bounds, the end of the session
or the end of a process stop the system.

### Fairness

- Session: each of the two event loops goes on while it has something to do;
  what it serves first is left open. Nothing is assumed of user, shell or
  network. A lasting connection is a premise of the properties.
- Mux: both loops handle what the poller reports, deadlines pass, the service
  manager starts zet-muxd again. Nothing is assumed of clients.

### Divergences without a run

Each is a definition in the module named, which TLC finds violated on the
instance given.

- **DetachedResyncKeepsDraining** (StreamLifecycle; the run's constants with
  MaxTime = 0 and OrphanTimeout = 0). A detached Resync session filled exactly is
  full but not marked, so the pty is no longer read. `docs/design.md:450` says
  the agent marks the overflow and goes on reading.
- **CutLeavesSeedsMeeting** (SeedRatchet; MaxConns = 3). Two
  overlapping handshakes make the agent advance twice; if its frames are cut the
  client holds neither seed. `docs/design.md:401` says that a cut leaves both
  ends on the former seed.
- **DoneMeansWhole** (Session; plan MCLate). The agent takes the close of a
  connection for proof that SessionEnd arrived (`agent/agent.cpp:832`).
- **NoStaleAck** (Session; MaxConns = 3, Sizes = {9}; three connections in
  order, three bytes out and one in, read 2, payload 1, disconnect 1, with a
  grid). Data read between the choice of path B and the snapshot acknowledges
  beyond the restarted buffer and closes the connection (`channel.cpp:155`);
  `docs/design.md:466` says that acknowledgements of an older generation are no
  reason to close. It can be read as speaking only of the time after GridBegin.
- **InputIsAcknowledged** (Session; FairSpec, one byte each way, no grid). The
  Channel starts from the offset at the Resume, not the one AuthOk told
  (`channel.cpp:56`): input taken in between is not acknowledged while idle.
  `docs/design.md:438` promises an Ack after 200 ms.
- **GroundWaitAlwaysEnds** (SnapshotSupply; the run's constants). A snapshot
  left by a closed connection holds up the next wait beyond the time
  `docs/design.md:464` gives. GroundWaitEnds excludes that case.
- **GenerationStartsOnBoundary** (SnapshotSupply). A snapshot may be taken
  inside a character: `grid_pump.cpp:55` asks for the state Ground only.
  `docs/design.md:553` says a generation starts on a boundary.
- **RoundTrip** (Screen). With a wrap pending, the reprint of the last column
  goes wrong when G0 and G1 are both line drawing and SO is in force, or when
  DECOM holds the cursor in a region it is outside of. `grid/snapshot.cpp:1`
  promises an exact copy. SnapshotRestores excludes these screens.
- **EscapeIsRead** (ClientLink). While the window of unacknowledged input is
  full the client does not read its terminal, so the `~.` it offers at a loss
  (`client/client.cpp:123`) has no effect.
- **UnknownIsTold** (Handshake). An agent that does not know the session closes
  after a decoy and the client sees a close, not the failed AuthOk of which the
  comment at `client/client.cpp:1138` speaks.

Seen while modelling and stated nowhere: attempts that fail before the first
connection never start the clock after which the client gives up
(`client/client.cpp:894`); an installer's directory without a part file yet may
be removed by another installer's clean-up (`client/deliver.hpp:45`), and so may
a part file made between the look and the removal, which TransfersAreSpared
leaves out with `late`.

## Proofs

For every value of the constants:

- **RingCorrect, RingReadsExact** (Storage_proofs): the ring represents the
  stream. Offsets less than `Cap` apart fall in different slots.
- **LifecycleCorrect, LiveWhileCarried, NoEarlyOrphan, ReapIsForEver,
  BackpressureHolds** (StreamLifecycle_proofs): the properties of that run, and
  that the window fits. The inductive invariant adds ClockKept, which ties
  `since` to the last instant a connection was live; without it the orphan
  result is not inductive.
- **ClientFollowsAgent, SeedsAgree, OldSeedsAreForgotten** (SeedRatchet_proofs):
  for handshakes that overlap in any order. AheadInv says the agent moved before
  it sent a frame, and that only the last connection can be confirmed. AgreeInv
  adds that the copies of a handshake no Resume has crossed are still the
  session's seeds, and that those of one begun after a Resume are later than the
  seed of that Resume. A Resume on a fresh copy then finds the client on the very
  same seed, because the client only moves forward and never ahead. Also proved:
  until a Resume opens on an outdated copy, every honest Resume opens.
- **EraseKeepsPairs, InsertKeepsPairs, DeleteKeepsPairs, PlaceKeepsPairs,
  ResizeKeepsPairs** (Storage_proofs): each edit of a line keeps wide characters
  whole, on a screen of any width. The argument computes the width of every cell
  after the edit and compares neighbours.

- **PathsStayOpen, SilenceEndsThem, LoopsSleepWithNothingDue, HonestFramesOpen**
  (Channel_proofs, Connection_proofs): the four invariants of Channel, for a
  connection from its bootstrap on. ChanInv adds, for each direction: the frames
  on the wire open one after the other and the sealer stands where they end;
  what the receiver misses is in one of them, and what an end has heard is no
  older than what its peer has sent, up to the tick a frame may travel. Without
  the last, a keepalive sent in time proves nothing about when it is heard.
- **ClientAgreesWithAgent, NoncesAreFresh** (Handshake_proofs,
  Connection_proofs): Agreement and FreshKeys, whatever is changed on the way and
  however the bytes are cut. ShakeInv says what each stage has folded into its
  transcript, and that every AuthOk tag on its way or half read is the agent's
  own note of this connection.
- **SessionTyped, ForgottenInputWasRead, KeystrokesInOrder, InputIsNeverRefused**
  (SessionAgent_proofs for the agent's steps, Session_proofs for the client's and
  the theorems): the input of a session, over any number of connections that
  are cut, overlap and resume. InputInv ties the agent's cursor, the queue of the
  pty and the client's buffer together, and says of every connection the agent
  has not closed that its frames leave no gap after what the agent has received;
  of the client's own, that what it sends next leaves none either. Old
  connections must be in the invariant: a frame of theirs may arrive after the
  client has moved on, and it is the duplicate that Receive drops.

Assumptions are the named ASSUMEs on constants: limits and times are positive; a
keepalive and the tick it travels fit into the silence timeout, and an epoch is
longer than a keepalive; the nonce memory holds the two nonces of a connection;
no stream is longer than the largest offset, 2^64 - 1. The values in `limits.hpp`
satisfy them. Updates of several fields are written
`![k] = [f[k] EXCEPT !.a = x, !.b = y]`, the form the provers treat reliably.

Model-checked only, and why:

- Liveness: out of the prover's reach.
- Session's output (HonestPeersAgree, NoSilentHole) and its refinement of
  Terminal. The refinement and NoSilentHole are stated for the plans of their
  runs; with an overflow in the wrong place NoSilentHole does not hold, as the
  run SessionHole shows.
- HonestHandshake, which needs that a handshake nobody touches arrives whole,
  and FindsItsAgent, OutputIsKept, QuitIsAsked: they are about what a fold over
  the bytes computes, and induction over data is out of reach.
- Mux, Sgr, Snapshot and VtDispatch have recursive operators, about which nothing
  can be proved; Screen and its snapshots rest on them.
- Client, Deliver and SnapshotSupply: not attempted.

## Not modelled

- Session: keepalive, rekeying and deadlines (either end may close at any moment
  instead; they are in Channel), the overflow notice to the peer of a reaped
  session, the ZET_TEST_FORCE_PATH hook, the limit of 8 connections.
- Agent: Start, signals, Hangup, the spawn of the shell, failure to allocate a
  snapshot.
- Client: which address is tried, the end of stdin, options. A client whose
  terminal stays stalled does not notice a dead path; `docs/design.md:478` says
  so, and NoFalseSilence depends on it.
- `io`, `crypto`, `core`: system calls, libsodium and byte readers. What they may
  return is the environment of the models. The cryptography is ideal.
- The Unicode tables (a width is an input) and the encoding of messages other
  than what the mux reads of a Hello.

## Plan

1. Lift GridLine's theorems to the operations of Grid.
2. Prove the counts of MuxRouter, and the output of Session: the frames to the
   client follow the grammar of a replay or of a snapshot.
