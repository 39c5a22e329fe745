---------------------------------- MODULE Mux ----------------------------------
(***************************************************************************)
(* zet-muxd (src/src/mux/mux.cpp) and the agents registered with it        *)
(* (src/src/agent/mux_link.cpp).  Clients connect to the mux, which reads  *)
(* their Hello and passes the socket to the agent that registered the      *)
(* session.  Each event the mux's loop handles is an action, and so is the *)
(* top of the loop (Turn).  A frame travels in pieces; the descriptor of a *)
(* handoff rides on its first piece.  A descriptor is named by the token   *)
(* of its connection.  Clients and agents draw theirs from two counters    *)
(* here, and a new mux goes on where the last one stopped: tokens only     *)
(* name sockets.                                                           *)
(***************************************************************************)
EXTENDS MuxRouter, Sequences, Functions, FiniteSetsExt, TLC

CONSTANTS Agents,        \* agent processes, each with one session
          UidOf,         \* the user each runs as
          Addresses,     \* addresses clients connect from
          Limits,        \* the router's limits
          MaxPeers, MaxPeersPerUid,  \* MAX_AGENT_CONNECTIONS, .._PER_UID
          MaxQueued,     \* MAX_QUEUED_HANDOFFS
          MaxDecoys, MaxConnections,
          SocketRoom,    \* pieces the kernel holds on one unix socket
          MaxWaitingDescriptors,
          MaxClients,    \* bound on client connections
          MaxSockets,    \* bound on connections of agents to the mux
          MaxFaults      \* bound on deaths of the mux and losses of a link

VARIABLES router,
          pending,   \* Pending_: token -> whether it is closing, holds its fd
          decoys,    \* Decoys_
          peers,     \* AgentPeers_: token -> the agent's connection
          perUid,    \* AgentsPerUid_
          running,   \* whether there is a mux
          link,      \* each agent's MuxLink
          wire,      \* the unix sockets between them
          wish,      \* client connection -> the session its Hello names
          adopted,   \* connections agents took over
          sockets,   \* connections of agents made so far
          faults

vars == <<router, pending, decoys, peers, perUid, running, link, wire, wish,
          adopted, sockets, faults>>

NoSocket == 0

Frame(kind, conn) == [kind |-> kind, conn |-> conn, sent |-> 0]

\* A handoff is two pieces long, the other frames one.
LengthOf(frame) == IF frame.kind = "handoff" THEN 2 ELSE 1

Piece(frame) == [kind |-> frame.kind, conn |-> frame.conn,
                 part |-> frame.sent + 1]

HasFd(piece) == piece.kind = "handoff" /\ piece.part = 1

NewLink == [mode |-> "boot", socket |-> NoSocket, registered |-> FALSE,
            descriptors |-> <<>>, reader |-> <<>>, output |-> FALSE,
            retry |-> "due"]

Init ==
    /\ router = NewRouter
    /\ pending = <<>> /\ decoys = {} /\ peers = <<>> /\ wire = <<>>
    /\ perUid = [u \in Range(UidOf) |-> 0]
    /\ running = TRUE
    /\ link = [a \in Agents |-> NewLink]
    /\ wish = <<>> /\ adopted = {} /\ sockets = 0 /\ faults = 0
-------------------------------------------------------------------------------
\* Writing to an agent: WriteAgent sends until the socket is full.

RECURSIVE Written(_, _, _)
Written(output, sent, room) ==
    IF output = <<>> \/ room = 0 THEN [output |-> output, sent |-> sent]
    ELSE LET f == Head(output)
             g == [f EXCEPT !.sent = @ + 1]
         IN Written(IF g.sent = LengthOf(g) THEN Tail(output)
                    ELSE <<g>> \o Tail(output),
                    Append(sent, Piece(f)), room - 1)

\* WriteAgent on the connections in S; an agent that has gone is EPIPE.
AgentsWritten(ps, ws, S) ==
    LET Result(t) == Written(ps[t].output, ws[t].toAgent,
                             SocketRoom - Len(ws[t].toAgent))
        Broken(t) == ~ws[t].agentOpen /\ ps[t].output # <<>>
    IN [peers |-> [t \in DOMAIN ps |->
                     IF t \notin S THEN ps[t]
                     ELSE IF Broken(t) THEN [ps[t] EXCEPT !.closing = TRUE]
                     ELSE [ps[t] EXCEPT !.output = Result(t).output]],
        wire |-> [t \in DOMAIN ws |->
                     IF t \notin S \/ Broken(t) THEN ws[t]
                     ELSE [ws[t] EXCEPT !.toAgent = Result(t).sent]]]

\* The sockets that one end at least still has.
Open(ws) ==
    Restrict(ws, {t \in DOMAIN ws : ws[t].mux # "closed" \/ ws[t].agentOpen})
-------------------------------------------------------------------------------
\* AcceptTcp: a client connects from an address; its Hello will name `id'.
AcceptTcp(from, id) ==
    /\ running /\ Len(wish) < MaxClients
    /\ id \in Agents => link[id].mode = "loop"
    /\ LET c == Len(wish) + 1
           r == Accept(router, c, from, Limits)
       IN /\ router' = r.router
          /\ pending' = IF r.err = "ok"
                        THEN c :> [closing |-> FALSE, fd |-> TRUE] @@ pending
                        ELSE pending
    /\ wish' = Append(wish, id)
    /\ UNCHANGED <<decoys, peers, perUid, running, link, wire, adopted,
                   sockets, faults>>

\* Decide: what the router says becomes of connection c.
Decide(c, d) ==
    LET taken == [pending EXCEPT ![c] = [closing |-> TRUE, fd |-> FALSE]]
        agent == d.agent
        able  == /\ agent \in DOMAIN peers /\ ~peers[agent].closing
                 /\ Len(peers[agent].output) < MaxQueued
        queued == [peers EXCEPT ![agent].output =
                       Append(@, Frame("handoff", c))]
        sent  == AgentsWritten(queued, wire, {agent})
    IN CASE d.decision = "NeedMore" ->
              UNCHANGED <<pending, peers, wire, decoys>>
         [] d.decision = "Handoff" /\ able ->
              /\ pending' = taken
              /\ peers' = sent.peers /\ wire' = sent.wire
              /\ UNCHANGED decoys
         [] d.decision = "Decoy" /\ Cardinality(decoys) < MaxDecoys ->
              /\ pending' = taken
              /\ decoys' = decoys \cup {[conn |-> c, closing |-> FALSE]}
              /\ UNCHANGED <<peers, wire>>
         [] OTHER ->
              /\ pending' = [pending EXCEPT ![c].closing = TRUE]
              /\ UNCHANGED <<peers, wire, decoys>>

\* ReadPending: up to the room of the slot is read and fed to the router.
ReadPending(c, n) ==
    /\ running /\ ~pending[c].closing
    /\ n <= RoomOf(router, c, Limits)
    /\ LET d == Feed(router, c, wish[c], n, Limits)
       IN router' = d.router /\ Decide(c, d)
    /\ UNCHANGED <<perUid, running, link, wish, adopted, sockets, faults>>

\* ReadPending on a connection the client has closed.
PendingEnds(c) ==
    /\ running /\ ~pending[c].closing
    /\ router' = Closed(router, c)
    /\ pending' = [pending EXCEPT ![c].closing = TRUE]
    /\ UNCHANGED <<decoys, peers, perUid, running, link, wire, wish, adopted,
                   sockets, faults>>

\* UpdateInterest: the poller refuses a pending connection.  Its slot stays
\* with the router until the deadline.
PollerRefuses(c) ==
    /\ running /\ ~pending[c].closing /\ faults < MaxFaults
    /\ pending' = [pending EXCEPT ![c].closing = TRUE]
    /\ faults' = faults + 1
    /\ UNCHANGED <<router, decoys, peers, perUid, running, link, wire, wish,
                   adopted, sockets>>

\* A decoy answers until the client gives up, errs or HANDSHAKE_TIMEOUT.
PumpDecoy(d) ==
    /\ running /\ ~d.closing
    /\ decoys' = (decoys \ {d}) \cup {[d EXCEPT !.closing = TRUE]}
    /\ UNCHANGED <<router, pending, peers, perUid, running, link, wire, wish,
                   adopted, sockets, faults>>

\* AcceptAgents takes a connection off the backlog, or drops it at a limit.
AcceptAgents(t) ==
    /\ running /\ wire[t].mux = "backlog"
    /\ LET uid == UidOf[wire[t].agent]
       IN IF \/ Cardinality(DOMAIN peers) >= MaxPeers
             \/ perUid[uid] >= MaxPeersPerUid
          THEN /\ wire' = Open([wire EXCEPT ![t].mux = "closed"])
               /\ UNCHANGED <<peers, perUid>>
          ELSE /\ wire' = [wire EXCEPT ![t].mux = "open"]
               /\ perUid' = [perUid EXCEPT ![uid] = @ + 1]
               /\ peers' = t :> [uid |-> uid, closing |-> FALSE,
                                 output |-> <<>>] @@ peers
    /\ UNCHANGED <<router, pending, decoys, running, link, wish, adopted,
                   sockets, faults>>

\* Mux::Register and Answer.  The connection that held the session before is
\* closed; the answer goes out at the next Turn.
Answer(t) ==
    LET a        == wire[t].agent
        previous == Find(router, a)
        r        == Register(router, t, peers[t].uid, a, Limits)
        ok       == r.err = "ok"
        replaced == {p \in DOMAIN peers : ok /\ p = previous /\ p # t}
        full     == Len(peers[t].output) >= MaxQueued
        answer   == Frame(IF ok THEN "registered" ELSE "refused", 0)
    IN /\ router' = r.router
       /\ peers' = [p \in DOMAIN peers |->
                      IF p \in replaced THEN [peers[p] EXCEPT !.closing = TRUE]
                      ELSE IF p # t THEN peers[p]
                      ELSE IF full THEN [peers[t] EXCEPT !.closing = TRUE]
                      ELSE [peers[t] EXCEPT !.output = Append(@, answer)]]

\* ReadAgent: a registration, or the end of the agent's connection.
ReadAgent(t) ==
    /\ running /\ ~peers[t].closing
    /\ \/ /\ wire[t].toMux
          /\ wire' = [wire EXCEPT ![t].toMux = FALSE]
          /\ Answer(t)
       \/ /\ ~wire[t].toMux /\ ~wire[t].agentOpen
          /\ peers' = [peers EXCEPT ![t].closing = TRUE]
          /\ UNCHANGED <<router, wire>>
    /\ UNCHANGED <<pending, decoys, perUid, running, link, wish, adopted,
                   sockets, faults>>

\* The agents' connections with the closing ones in S dropped.
WithoutPeers(r, S) == FoldSet(LAMBDA t, acc : Unregister(acc, t), r, S)

CountWithout(S) ==
    [u \in DOMAIN perUid |->
        perUid[u] - Cardinality({t \in S : peers[t].uid = u})]

\* The top of the loop in Run: Expire, WriteAgent, DropClosed.
Turn ==
    /\ running
    /\ LET e       == ExpireAll(router)
           written == AgentsWritten(peers, wire, DOMAIN peers)
           stale   == {t \in DOMAIN peers : written.peers[t].closing}
           closing == {c \in DOMAIN pending :
                         pending[c].closing \/ c \in e.expired}
       IN /\ router' = WithoutPeers(e.router, stale)
          /\ pending' = Restrict(pending, DOMAIN pending \ closing)
          /\ decoys' = {d \in decoys : ~d.closing}
          /\ peers' = Restrict(written.peers, DOMAIN peers \ stale)
          /\ wire' = Open([t \in DOMAIN wire |->
                             IF t \in stale
                             THEN [written.wire[t] EXCEPT !.mux = "closed"]
                             ELSE written.wire[t]])
          /\ perUid' = CountWithout(stale)
    /\ UNCHANGED <<running, link, wish, adopted, sockets, faults>>

\* A signal or a crash: nothing of a mux outlives it.  Sockets not yet
\* accepted stay with systemd, or go with the mux's own listener.
MuxDies(activated) ==
    /\ running /\ faults < MaxFaults
    /\ running' = FALSE /\ faults' = faults + 1
    /\ router' = NewRouter
    /\ pending' = <<>> /\ decoys' = {} /\ peers' = <<>>
    /\ perUid' = [u \in DOMAIN perUid |-> 0]
    /\ wire' = Open([t \in DOMAIN wire |->
                       IF wire[t].mux = "backlog" /\ activated THEN wire[t]
                       ELSE [wire[t] EXCEPT !.mux = "closed", !.toMux = FALSE]])
    /\ UNCHANGED <<link, wish, adopted, sockets>>

MuxStarts ==
    /\ ~running /\ running' = TRUE
    /\ UNCHANGED <<router, pending, decoys, peers, perUid, link, wire, wish,
                   adopted, sockets, faults>>

HandshakeTimeout(w) ==
    /\ running /\ ~w.due
    /\ router' = DeadlinePasses(router, w)
    /\ UNCHANGED <<pending, decoys, peers, perUid, running, link, wire, wish,
                   adopted, sockets, faults>>
-------------------------------------------------------------------------------
\* The agent's side.

\* Fault: no retry is scheduled.
LostForGood(l) ==
    [l EXCEPT !.socket = NoSocket, !.registered = FALSE, !.descriptors = <<>>,
              !.output = FALSE, !.retry = "none",
              !.mode = IF @ = "boot" THEN "own" ELSE @]

\* Lose: the link closes and will try again; during the bootstrap the agent
\* gives the mux up instead and listens on a port of its own.
Lost(l) ==
    [l EXCEPT !.socket = NoSocket, !.registered = FALSE, !.descriptors = <<>>,
              !.output = FALSE, !.retry = "waiting",
              !.mode = IF @ = "boot" THEN "own" ELSE @]

\* Close on the wire: what was not read goes, descriptors included.
WireWithout(t) ==
    Open([wire EXCEPT ![t] = [@ EXCEPT !.agentOpen = FALSE, !.toAgent = <<>>]])

\* Connect; OnTimer calls it once the backoff has passed, RegisterNow at the
\* start.  While the mux is away it fails, or waits in systemd's backlog.
LinkConnects(a) ==
    /\ link[a].mode # "own" /\ link[a].socket = NoSocket
    /\ link[a].retry = "due"
    /\ \/ /\ sockets < MaxSockets
          /\ link' = [link EXCEPT ![a] =
                        [@ EXCEPT !.socket = sockets + 1, !.reader = <<>>,
                                  !.descriptors = <<>>, !.registered = FALSE,
                                  !.output = TRUE, !.retry = "none"]]
          /\ wire' = sockets + 1 :> [agent |-> a, toMux |-> FALSE,
                                   toAgent |-> <<>>, mux |-> "backlog",
                                   agentOpen |-> TRUE] @@ wire
          /\ sockets' = sockets + 1
       \/ /\ ~running
          /\ link' = [link EXCEPT ![a] = Lost(@)]
          /\ UNCHANGED <<wire, sockets>>
    /\ UNCHANGED <<router, pending, decoys, peers, perUid, running, wish,
                   adopted, faults>>

BackoffPasses(a) ==
    /\ link[a].retry = "waiting" /\ link[a].mode = "loop"
    /\ link' = [link EXCEPT ![a].retry = "due"]
    /\ UNCHANGED <<router, pending, decoys, peers, perUid, running, wire,
                   wish, adopted, sockets, faults>>

\* Write: the MuxRegister goes out.
LinkWrites(a) ==
    /\ link[a].socket # NoSocket /\ link[a].output
    /\ IF wire[link[a].socket].mux = "closed"
       THEN /\ link' = [link EXCEPT ![a] = Lost(@)]
            /\ wire' = WireWithout(link[a].socket)
       ELSE /\ link' = [link EXCEPT ![a].output = FALSE]
            /\ wire' = [wire EXCEPT ![link[a].socket].toMux = TRUE]
    /\ UNCHANGED <<router, pending, decoys, peers, perUid, running, wish,
                   adopted, sockets, faults>>

\* Fault: the descriptor that came last goes with the frame.
TakeLast(s) ==
    LET l == s.link
        m == Head(l.reader)
        n == Len(l.descriptors)
    IN IF m.kind = "registered" /\ ~l.registered
       THEN [s EXCEPT !.link = [l EXCEPT !.reader = Tail(@), !.mode = "loop",
                                         !.registered = TRUE]]
       ELSE IF m.kind = "handoff" /\ l.registered /\ n > 0
       THEN [s EXCEPT !.out = Append(@, [fd |-> l.descriptors[n],
                                         prefix |-> m.conn]),
                      !.link = [l EXCEPT !.descriptors = SubSeq(@, 1, n - 1),
                                         !.reader = SubSeq(@, 3, Len(@))]]
       ELSE [s EXCEPT !.ok = FALSE]

\* Take one message off the reader; `out' collects the handoffs.
TakeOne(s) ==
    LET l == s.link
        m == Head(l.reader)
    IN IF m.kind = "registered" /\ ~l.registered
       THEN [s EXCEPT !.link = [l EXCEPT !.reader = Tail(@), !.mode = "loop",
                                         !.registered = TRUE]]
       ELSE IF m.kind = "handoff" /\ l.registered /\ l.descriptors # <<>>
       THEN [s EXCEPT !.out = Append(@, [fd |-> Head(l.descriptors),
                                         prefix |-> m.conn]),
                      !.link = [l EXCEPT !.descriptors = Tail(@),
                                         !.reader = SubSeq(@, 3, Len(@))]]
       ELSE [s EXCEPT !.ok = FALSE]

\* MuxFrameReader::Next finds a whole frame.
Whole(reader) ==
    /\ reader # <<>>
    /\ Head(reader).kind = "handoff" => Len(reader) >= 2

RECURSIVE TakeAll(_)
TakeAll(s) ==
    IF s.ok /\ Whole(s.link.reader) THEN TakeAll(TakeOne(s)) ELSE s

\* Adopt: the agent takes a connection over while it has room for one.
AdoptAll(a, out) ==
    LET free == MaxConnections - Cardinality({x \in adopted : x.agent = a})
    IN {[agent |-> a, fd |-> out[i].fd, prefix |-> out[i].prefix] :
           i \in {j \in 1..Len(out) : j <= free}}

\* Read: k pieces, of which only the last may carry a descriptor; the kernel
\* ends a read there.
LinkReads(a, k) ==
    LET t     == link[a].socket
        got   == SubSeq(wire[t].toAgent, 1, k)
        fds   == SelectSeq(got, HasFd)
        l     == [link[a] EXCEPT !.reader = @ \o got,
                     !.descriptors = IF fds = <<>> THEN @
                                     ELSE Append(@, fds[1].conn)]
        took  == TakeAll([link |-> l, out |-> <<>>, ok |-> TRUE])
        keeps == /\ took.ok
                 /\ Len(took.link.descriptors) <= MaxWaitingDescriptors
    IN /\ t # NoSocket
       /\ k <= Len(wire[t].toAgent)
       /\ \A i \in 1..(k - 1) : ~HasFd(wire[t].toAgent[i])
       /\ link' = [link EXCEPT ![a] = IF keeps THEN took.link
                                      ELSE Lost(took.link)]
       /\ wire' = IF keeps
                  THEN [wire EXCEPT ![t].toAgent = SubSeq(@, k + 1, Len(@))]
                  ELSE WireWithout(t)
       /\ adopted' = adopted \cup AdoptAll(a, took.out)
       /\ UNCHANGED <<router, pending, decoys, peers, perUid, running, wish,
                      sockets, faults>>

LinkLost(a) ==
    /\ link' = [link EXCEPT ![a] = Lost(@)]
    /\ wire' = WireWithout(link[a].socket)
    /\ UNCHANGED <<router, pending, decoys, peers, perUid, running, wish,
                   adopted, sockets>>

\* Read finds the end of the connection.
LinkEnds(a) ==
    /\ link[a].socket # NoSocket
    /\ wire[link[a].socket].toAgent = <<>>
    /\ wire[link[a].socket].mux = "closed"
    /\ LinkLost(a) /\ UNCHANGED faults

\* An error of the socket or of the poller, or the bootstrap's deadline.
LinkFails(a) ==
    /\ link[a].socket # NoSocket /\ faults < MaxFaults
    /\ faults' = faults + 1
    /\ LinkLost(a)

\* A connection of the agent's own ends, whatever the mux does.
ConnectionEnds(x) ==
    /\ adopted' = adopted \ {x}
    /\ UNCHANGED <<router, pending, decoys, peers, perUid, running, link, wire,
                   wish, sockets, faults>>

Next ==
    \/ \E from \in Addresses, id \in Agents \cup {"nobody", "junk"} :
          AcceptTcp(from, id)
    \/ \E c \in DOMAIN pending :
          \/ \E n \in 1..Limits.hello : ReadPending(c, n)
          \/ PendingEnds(c) \/ PollerRefuses(c)
    \/ \E d \in decoys : PumpDecoy(d)
    \/ \E t \in DOMAIN wire : AcceptAgents(t)
    \/ \E t \in DOMAIN peers : ReadAgent(t)
    \/ \E w \in router.waiting : HandshakeTimeout(w)
    \/ Turn \/ MuxStarts \/ \E activated \in BOOLEAN : MuxDies(activated)
    \/ \E a \in Agents :
          \/ LinkConnects(a) \/ BackoffPasses(a) \/ LinkWrites(a)
          \/ LinkEnds(a) \/ LinkFails(a)
          \/ \E k \in 1..SocketRoom : LinkReads(a, k)
    \/ \E x \in adopted : ConnectionEnds(x)

Spec == Init /\ [][Next]_vars

(***************************************************************************)
(* Both loops handle what the poller reports, deadlines pass, and systemd  *)
(* starts a mux again.  Nothing is assumed of clients.                     *)
(***************************************************************************)
FairSpec ==
    /\ Spec
    /\ WF_vars(Turn) /\ WF_vars(MuxStarts)
    /\ WF_vars(\E t \in DOMAIN wire : AcceptAgents(t))
    /\ WF_vars(\E t \in DOMAIN peers : ReadAgent(t))
    /\ WF_vars(\E d \in decoys : PumpDecoy(d))
    /\ WF_vars(\E w \in router.waiting : HandshakeTimeout(w))
    /\ \A a \in Agents :
          /\ WF_vars(LinkConnects(a)) /\ WF_vars(BackoffPasses(a))
          /\ WF_vars(LinkWrites(a))
          /\ WF_vars(LinkEnds(a))
          /\ WF_vars(\E k \in 1..SocketRoom : LinkReads(a, k))
-------------------------------------------------------------------------------
\* Where the descriptor of client connection c is.
Holders(c) ==
    {<<"pending">> : x \in {y \in DOMAIN pending : y = c /\ pending[y].fd}}
    \cup {<<"decoy">> : d \in {x \in decoys : x.conn = c}}
    \cup {<<"output", t>> : t \in {x \in DOMAIN peers :
            \E i \in DOMAIN peers[x].output :
               LET f == peers[x].output[i]
               IN f.kind = "handoff" /\ f.conn = c /\ f.sent = 0}}
    \cup {<<"flight", t>> : t \in {x \in DOMAIN wire :
            \E i \in DOMAIN wire[x].toAgent :
               HasFd(wire[x].toAgent[i]) /\ wire[x].toAgent[i].conn = c}}
    \cup {<<"waiting", a>> : a \in {x \in Agents :
            \E i \in DOMAIN link[x].descriptors :
               link[x].descriptors[i] = c}}
    \cup {<<"adopted", x.agent>> : x \in {y \in adopted : y.fd = c}}

TypeOK ==
    /\ \A e \in router.regs : e.id \in Agents /\ e.owner \in Range(UidOf)
    /\ \A c \in DOMAIN pending : pending[c] \in [closing : BOOLEAN, fd : BOOLEAN]
    /\ \A a \in Agents : /\ link[a].mode \in {"boot", "loop", "own"}
                         /\ link[a].retry \in {"none", "waiting", "due"}
                         /\ link[a].socket \in {NoSocket} \cup DOMAIN wire
    /\ sockets \in 0..MaxSockets /\ faults \in 0..MaxFaults

(***************************************************************************)
(* The routing table of the mux (Mux::Register, DropClosed): a session has *)
(* at most one entry, which names a connection the mux still holds and     *)
(* which that session's agent opened, however often the agent came back    *)
(* before the mux saw its old connection end.                              *)
(***************************************************************************)
RoutesAreLive ==
    /\ \A e \in router.regs :
          e.agent \in DOMAIN peers /\ wire[e.agent].agent = e.id
    /\ \A e, f \in router.regs : e.id = f.id => e = f

(***************************************************************************)
(* Every counter of the mux agrees with what it counts, and no limit is    *)
(* exceeded (mux_router.cpp, Mux::AcceptAgents, DropClosed): a slot is     *)
(* released once, whether its Hello came, its client left or its deadline  *)
(* passed.                                                                 *)
(***************************************************************************)
CountsAgree ==
    /\ router.regCount = Cardinality(router.regs)
    /\ router.pending = Cardinality(router.waiting)
    /\ router.pending <= Limits.connections
    /\ \A x \in Addresses : Cardinality(From(router, x)) <= Limits.perAddress
    /\ \A u \in DOMAIN perUid :
          /\ perUid[u] = Cardinality({t \in DOMAIN peers : peers[t].uid = u})
          /\ Cardinality(OwnedBy(router, u)) <= Limits.perUid

(***************************************************************************)
(* A connection the mux still reads has a slot in the router, so it has    *)
(* somewhere to put the Hello and a deadline that ends it (ReadPending     *)
(* with no room returns without reading).                                  *)
(***************************************************************************)
PendingHasSlot ==
    \A c \in DOMAIN pending : ~pending[c].closing => FindWaiting(router, c) # {}

\* The mux's tables, its router and its sockets say the same.
RouterInStep == TypeOK /\ RoutesAreLive /\ CountsAgree /\ PendingHasSlot

(***************************************************************************)
(* A client's descriptor has one owner at a time, on its way from the mux  *)
(* through the unix socket to the agent (WriteAgent, MuxLink::Read): it is *)
(* never passed twice, and a lost link keeps none behind.                  *)
(***************************************************************************)
OneOwner == \A c \in DOMAIN wish : Cardinality(Holders(c)) <= 1

(***************************************************************************)
(* design.md, section 6: descriptors are matched with MuxHandoff frames in *)
(* order.  What an agent adopts is a connection whose Hello named its own  *)
(* session, with the bytes read off that very connection; across partial   *)
(* writes, lost links and restarts of the mux.                             *)
(***************************************************************************)
AdoptedIsOurs ==
    \A x \in adopted : x.fd = x.prefix /\ wish[x.fd] = x.agent

\* A client's connection goes to one agent, the one it asked for.
HandedOverOnce == OneOwner /\ AdoptedIsOurs

(***************************************************************************)
(* No client connection is stranded (HANDSHAKE_TIMEOUT, MuxRouter::Expire, *)
(* Mux::DropClosed, MuxLink::Close): it is handed over or closed.          *)
(***************************************************************************)
EveryConnectionSettles ==
    \A c \in 1..MaxClients :
       c \in DOMAIN pending ~>
          (Holders(c) = {} \/ \E x \in adopted : x.fd = c)

(***************************************************************************)
(* design.md, section 6: an agent that loses the mux comes back and        *)
(* registers again (MuxLink::Lose, OnTimer), unless the mux refuses it     *)
(* until the model is out of sockets.                                       *)
(***************************************************************************)
LostLinkReturns ==
    \A a \in Agents :
       (link[a].mode = "loop" /\ ~link[a].registered) ~>
          (link[a].registered \/ sockets = MaxSockets)
===============================================================================
