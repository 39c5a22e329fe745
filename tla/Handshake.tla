------------------------------ MODULE Handshake ------------------------------
(***************************************************************************)
(* From the Hello to the opened Resume: ClientConnection and               *)
(* AgentConnection (src/src/session/connection) up to Live, with the       *)
(* handshake automata inside them (src/src/wire/handshake), the nonce      *)
(* memories of the two sessions, and the frames as bytes that arrive in    *)
(* chunks.  Connections follow one another; SeedRatchet has overlapping    *)
(* ones, and the seeds.                                                    *)
(*                                                                         *)
(* A transcript is the sequence of the messages folded into it, a tag the  *)
(* triple of key, label and transcript.  The random generators may repeat  *)
(* a nonce, and a message may be changed on its way.                       *)
(***************************************************************************)
EXTENDS FrameStream, FiniteSetsExt

CONSTANTS Versions,         \* versions a changed message may name
          Offsets,          \* where the agent's input may stand at a Hello
          MaxNonces,        \* MAX_REMEMBERED_NONCES
          Trials            \* bounds: reconnects, messages changed on their way, and
                            \* whether the agent knows the session

\* The two nonces of a connection fit into a memory, which has room for 64.
ASSUME HandshakeAssumption ==
    /\ Versions \subseteq Nat /\ Offsets \subseteq Nat
    /\ MaxNonces \in Nat \ {0, 1} /\ Trials \subseteq [tries : Nat, changes : Nat, id : {"ours", "other"}]

VARIABLES
    build,      \* versions and options of the two programs, and the sid asked for
    conn,       \* the ClientConnection and the AgentConnection
    seen,       \* NonceMemory of the two sessions
    pipe,       \* bytes on their way to each end
    left,       \* connections and changes still to come
    changed,    \* whether a message was changed
    agreed      \* what the last two handshakes the agent finished agreed on

shakeVars == <<build, conn, seen, pipe, left, changed, agreed>>

Sides == {"client", "agent"}

Opposite(e) == IF e = "client" THEN "agent" ELSE "client"

VersionMin == 1         \* PROTOCOL_VERSION_MIN

NoNonce == 0

\* Nonces some end holds or remembers.
InUse == (Range(seen["client"]) \cup Range(seen["agent"])
          \cup {conn["client"].cn, conn["agent"].sn}) \ {NoNonce}

\* What a random generator returns: one of these again, or one that is new.
RandomNonce == InUse \cup {CHOOSE n \in 1..(Cardinality(InUse) + 1) : n \notin InUse}

NewClient(nonce) ==
    [stage |-> "SendHello", why |-> "none", frames |-> NewStream, cn |-> nonce,
     sn |-> NoNonce, version |-> 0, offset |-> 0, script |-> <<>>, spoke |-> FALSE]

NewAgent ==
    [stage |-> "AwaitHello", why |-> "none", frames |-> NewStream, cn |-> NoNonce,
     sn |-> NoNonce, version |-> 0, offset |-> 0, grid |-> FALSE, auth |-> "none",
     script |-> <<>>, spoke |-> FALSE]
-------------------------------------------------------------------------------
(* Messages and frames *)

HelloMessage(c) ==
    [type |-> "Hello", min |-> VersionMin, max |-> build.client, id |-> build.id,
     cn |-> c.cn, grid |-> build.grid]

ChallengeMessage(a) == [type |-> "Challenge", version |-> a.version, sn |-> a.sn]

AuthMessage(tag) == [type |-> "Auth", tag |-> tag]

AuthOkMessage(tag, offset) ==
    [type |-> "AuthOk", tag |-> tag, offset |-> offset]

\* DeriveConnectionKeys: of the same seed, the nonces tell keys apart.
ConnectionKeys(x) == <<x.cn, x.sn>>

ResumeMessage(c) == [type |-> "Resume", keys |-> ConnectionKeys(c)]

\* Any later frame of the channel: the largest there is.
LiveMessage(x) == [type |-> "Data", keys |-> ConnectionKeys(x)]

\* A Hello with options may fill a handshake frame, Data may fill a frame.
BodyLength(m) == CASE m.type = "Data" -> MaxFrame
                   [] m.type = "Hello" -> MaxHandshakeFrame
                   [] OTHER -> 1

FrameOf(m) == Bytes([length |-> BodyLength(m), body |-> m])

\* The ways a message may be changed: its type, or one of its fields.
Changes(m) ==
    {[m EXCEPT !.type = "unknown"]} \cup
    CASE m.type = "Hello" ->
            {[m EXCEPT !.max = v] : v \in Versions}
            \cup {[m EXCEPT !.cn = n] : n \in RandomNonce}
            \cup {[m EXCEPT !.grid = ~ @], [m EXCEPT !.id = "other"]}
      [] m.type = "Challenge" ->
            {[m EXCEPT !.version = v] : v \in Versions}
            \cup {[m EXCEPT !.sn = n] : n \in RandomNonce}
      [] m.type = "AuthOk" -> {[m EXCEPT !.offset = o] : o \in Offsets}
      [] m.type = "Auth" -> {[m EXCEPT !.tag = <<>>]}
      [] OTHER -> {[m EXCEPT !.keys = <<>>]}
-------------------------------------------------------------------------------
(* Transcript and NonceMemory *)

Absorb(script, message) == Append(script, message)

\* Fault: the offset is not folded in.
AbsorbNoOffset(script, offset) == script

AbsorbReceiveOffset(script, offset) == Append(script, offset)

Tag(auth, label, script) == <<auth, label, script>>

Verify(auth, label, script, tag) == tag = Tag(auth, label, script)

Seen(memory, nonce) == nonce \in Range(memory)

\* Fault: once full, the memory takes nothing more in.
RememberFirst(memory, nonce) ==
    IF Len(memory) = MaxNonces THEN memory ELSE Append(memory, nonce)

\* A ring: the newest MaxNonces of them.
Remember(memory, nonce) ==
    LET all == Append(memory, nonce)
    IN IF Len(all) > MaxNonces THEN Tail(all) ELSE all

NegotiateVersion(peerMin, peerMax, ourMax) ==
    IF peerMin > peerMax THEN [err |-> "MalformedField"]
    ELSE IF ourMax < VersionMin \/ peerMin > ourMax \/ VersionMin > peerMax
    THEN [err |-> "VersionMismatch"]
    ELSE [err |-> "ok", version |-> IF peerMax < ourMax THEN peerMax ELSE ourMax]
-------------------------------------------------------------------------------
(* Steps of the automata: the connection after it and what it sends *)

\* A refusal is for good: Spent, and the connection closes.
Refuse(x, err) ==
    [x EXCEPT !.stage = "Failed", !.why = err, !.frames = NewStream,
              !.script = <<>>]

Step(x, sent) == [to |-> x, sent |-> sent, done |-> FALSE]

Refused(x, err) == Step(Refuse(x, err), <<>>)

Start(c, memory) ==
    IF Seen(memory, c.cn) THEN Refused(c, "NonceReused")
    ELSE Step([c EXCEPT !.stage = "SentHello",
                        !.script = Absorb(@, HelloMessage(c))],
              FrameOf(HelloMessage(c)))

OnChallenge(c, memory, m) ==
    LET script == Absorb(c.script, m)
        auth == AuthMessage(Tag(build.id, "zet-c", script))
    IN IF m.version < VersionMin \/ m.version > build.client
       THEN Refused(c, "VersionMismatch")
       ELSE IF Seen(memory, m.sn) THEN Refused(c, "NonceReused")
       ELSE Step([c EXCEPT !.stage = "SentAuth", !.sn = m.sn,
                           !.version = m.version, !.script = Absorb(script, auth)],
                 FrameOf(auth))

\* OnAuthOk, Finish and SendResume.
OnAuthOk(c, memory, m) ==
    LET script == AbsorbReceiveOffset(c.script, m.offset)
    IN IF ~ Verify(build.id, "zet-s", script, m.tag)
       THEN Refused(c, "AuthenticationFailed")
       ELSE [to |-> [c EXCEPT !.stage = "Live", !.offset = m.offset,
                              !.script = <<>>, !.frames = RaiseLimit(@)],
             sent |-> FrameOf(ResumeMessage(c)), done |-> TRUE]

\* PumpHello and Route or RouteUnknown: the decoy has secrets of its own, an
\* empty memory and the offset 0.
Route(a, m, nonce, offset) ==
    LET ours == m.id = "ours"
    IN [a EXCEPT !.grid = m.grid, !.sn = nonce,
                 !.auth = IF ours THEN "ours" ELSE "decoy",
                 !.offset = IF ours THEN offset ELSE 0]

OnHello(a, memory, m) ==
    LET negotiated == NegotiateVersion(m.min, m.max, build.agent)
        next == [a EXCEPT !.version = negotiated.version, !.cn = m.cn]
        challenge == ChallengeMessage(next)
    IN IF negotiated.err # "ok" THEN Refused(a, negotiated.err)
       ELSE IF a.auth = "ours" /\ (Seen(memory, m.cn) \/ Seen(memory, a.sn))
       THEN Refused(a, "NonceReused")
       ELSE Step([next EXCEPT !.stage = "SentChallenge",
                              !.script = Absorb(Absorb(@, m), challenge)],
                 FrameOf(challenge))

\* OnAuth, Finish and the end of AgentConnection::PumpHandshake.
OnAuth(a, m) ==
    LET script == AbsorbReceiveOffset(Absorb(a.script, m), a.offset)
    IN IF ~ Verify(a.auth, "zet-c", a.script, m.tag)
       THEN Refused(a, "AuthenticationFailed")
       ELSE IF a.auth = "decoy" THEN Refused(a, "NotAuthenticated")
       ELSE [to |-> [a EXCEPT !.stage = "AwaitResume", !.script = <<>>,
                              !.frames = RaiseLimit(@)],
             sent |-> FrameOf(AuthOkMessage(Tag(a.auth, "zet-s", script), a.offset)),
             done |-> TRUE]

\* The first sealed frame has to be a Resume, the later ones are the channel's.
Opened(x, m, type) ==
    IF m.type \notin {"Resume", "Data"} \/ m.keys # ConnectionKeys(x)
    THEN Refused(x, "AuthenticationFailed")
    ELSE IF m.type # type THEN Refused(x, "UnexpectedMessage")
    ELSE Step([x EXCEPT !.stage = "Live"], <<>>)

HandleClient(c, m) ==
    CASE c.stage = "SentHello" /\ m.type = "Challenge" ->
            OnChallenge(c, seen["client"], m)
      [] c.stage = "SentAuth" /\ m.type = "AuthOk" ->
            OnAuthOk(c, seen["client"], m)
      [] c.stage = "Live" -> Opened(c, m, "Data")
      [] OTHER -> Refused(c, "UnexpectedMessage")

HandleAgent(a, m) ==
    CASE a.stage = "SentChallenge" /\ m.type = "Auth" -> OnAuth(a, m)
      [] a.stage = "AwaitResume" -> Opened(a, m, "Resume")
      [] a.stage = "Live" -> Opened(a, m, "Data")
      [] OTHER -> Refused(a, "UnexpectedMessage")
-------------------------------------------------------------------------------
(* The two event loops, the network and the clock *)

\* A frame the pump finds, or the reason it does not.
Found(e) == NextFrame(conn[e].frames)

\* Whether the pump has nothing to do: the loops read a socket only then.
PumpIdle(e) ==
    /\ conn[e].stage \notin {"SendHello", "Failed"}
    /\ Found(e).err = "Truncated"

\* A step at e: its connection, what it sends, and what it finished.
Does(e, step) ==
    /\ conn' = [conn EXCEPT ![e] = step.to]
    /\ pipe' = [pipe EXCEPT ![Opposite(e)] = @ \o step.sent]
    /\ seen' = IF step.done
               THEN [seen EXCEPT ![e] = Remember(Remember(@, step.to.cn), step.to.sn)]
               ELSE seen
    /\ agreed' = IF step.done /\ e = "agent"
                 THEN Append(IF agreed = <<>> THEN <<>> ELSE <<agreed[Len(agreed)]>>,
                             [try |-> left.tries, cn |-> step.to.cn, sn |-> step.to.sn,
                              version |-> step.to.version, grid |-> step.to.grid,
                              offset |-> step.to.offset])
                 ELSE agreed
    /\ UNCHANGED <<build, left, changed>>

\* ReadSocket: a byte, or as many as there are and the stream has room for.
ReadSocket(e) ==
    LET x == conn[e]
        most == Min({ReadRoom(x.frames), Len(pipe[e])})
    IN /\ PumpIdle(e) /\ most > 0
       /\ \E n \in {1, most} :
            LET r == Appended(x.frames, SubSeq(pipe[e], 1, n))
            IN /\ conn' = [conn EXCEPT ![e] =
                             IF r.err # "ok" THEN Refuse(x, r.err)
                             ELSE [x EXCEPT !.frames = r.stream]]
               /\ pipe' = [pipe EXCEPT ![e] = SubSeq(@, n + 1, Len(@))]
       /\ UNCHANGED <<build, seen, left, changed, agreed>>

SendHello ==
    /\ conn["client"].stage = "SendHello"
    /\ Does("client", Start(conn["client"], seen["client"]))

\* A frame that is refused before anyone looks into it.
PumpRefuses(e) ==
    /\ conn[e].stage \notin {"SendHello", "Failed"}
    /\ Found(e).err \notin {"ok", "Truncated"}
    /\ Does(e, Refused(conn[e], Found(e).err))

\* PumpHello asks for the session, the loop routes, and the Hello is answered.
PumpHello ==
    LET a == [conn["agent"] EXCEPT !.frames = Found("agent").stream]
        m == Found("agent").body
    IN /\ a.stage = "AwaitHello" /\ Found("agent").err = "ok"
       /\ IF m.type # "Hello" THEN Does("agent", Refused(a, "UnexpectedMessage"))
          ELSE \E nonce \in RandomNonce, offset \in Offsets :
                 Does("agent", OnHello(Route(a, m, nonce, offset), seen["agent"], m))

Pump(e) ==
    LET x == [conn[e] EXCEPT !.frames = Found(e).stream]
        m == Found(e).body
    IN /\ x.stage \notin {"SendHello", "AwaitHello", "Failed"}
       /\ Found(e).err = "ok"
       /\ Does(e, IF e = "client" THEN HandleClient(x, m) ELSE HandleAgent(x, m))

\* A live end sends a frame of full size.
Speak(e) ==
    /\ conn[e].stage = "Live" /\ ~ conn[e].spoke
    /\ Does(e, Step([conn[e] EXCEPT !.spoke = TRUE], FrameOf(LiveMessage(conn[e]))))

\* HandshakeExpired.
Expire(e) ==
    /\ conn[e].stage \notin {"Live", "Failed"}
    /\ Does(e, Refused(conn[e], "HandshakeTimeout"))

SeePeerClosed(e) ==
    /\ PumpIdle(e) /\ pipe[e] = <<>> /\ conn[Opposite(e)].stage = "Failed"
    /\ Does(e, Refused(conn[e], "PeerClosed"))

\* A message is changed on its way, or the length before it.
Change(e) ==
    /\ left.changes > 0 /\ left' = [left EXCEPT !.changes = @ - 1]
    /\ changed' = TRUE
    /\ \E i \in DOMAIN pipe[e] :
          LET f == pipe[e][i][1]
          IN /\ pipe[e][i][2] = 1
             /\ \E g \in {[f EXCEPT !.body = m] : m \in Changes(f.body)}
                          \cup {[f EXCEPT !.length = n] : n \in {0, MaxFrame + 1}} :
                  /\ g # f
                  /\ pipe' = [pipe EXCEPT ![e] = [k \in DOMAIN @ |->
                                IF @[k][1] = f THEN <<g, @[k][2]>> ELSE @[k]]]
    /\ UNCHANGED <<build, conn, seen, agreed>>

\* The path breaks, wherever the connection stands, and the client is back.
Reconnect ==
    /\ left.tries > 0 /\ left' = [left EXCEPT !.tries = @ - 1]
    /\ \E nonce \in RandomNonce :
          conn' = [client |-> NewClient(nonce), agent |-> NewAgent]
    /\ pipe' = [e \in Sides |-> <<>>]
    /\ UNCHANGED <<build, seen, changed, agreed>>

\* No connection yet.
ShakeInit ==
    /\ build = [client |-> VersionMin, agent |-> VersionMin, grid |-> FALSE, id |-> "ours"]
    /\ conn = [client |-> NewClient(NoNonce), agent |-> NewAgent]
    /\ seen = [e \in Sides |-> <<>>] /\ pipe = [e \in Sides |-> <<>>]
    /\ left = [tries |-> 0, changes |-> 0, id |-> "ours"] /\ changed = FALSE /\ agreed = <<>>

\* The first connection of the client's session, which the agent knows or not.
FirstConnect(client, agent) ==
    /\ left' \in Trials
    /\ build' \in [client : {client}, agent : {agent}, grid : BOOLEAN, id : {left'.id}]
    /\ conn' = [client |-> NewClient(1), agent |-> NewAgent]
    /\ UNCHANGED <<seen, pipe, changed, agreed>>

ShakeNext ==
    \/ SendHello \/ PumpHello \/ Reconnect
    \/ \E e \in Sides : \/ ReadSocket(e) \/ PumpRefuses(e) \/ Pump(e)
                        \/ Speak(e) \/ Expire(e) \/ SeePeerClosed(e) \/ Change(e)
-------------------------------------------------------------------------------
(* Properties *)

\* A client that sends its Resume and its input has agreed with this agent, in
\* this connection, on the nonces and so the keys, on the offset, on whether
\* snapshots are possible, and on the highest version both speak: whatever was
\* changed on its way (rules four and five of OnAuthOk and AbsorbReceiveOffset).
Agreement ==
    LET c == conn["client"]
    IN c.stage = "Live" =>
         /\ agreed # <<>> /\ build.id = "ours"
         /\ agreed[Len(agreed)] =
              [try |-> left.tries, cn |-> c.cn, sn |-> c.sn,
               version |-> Min({build.client, build.agent}),
               grid |-> build.grid, offset |-> c.offset]
         /\ c.version = agreed[Len(agreed)].version

\* Two connections in a row that got as far as keys share no nonce, although the
\* generators may repeat one: NonceMemory of either end refuses it, also when it
\* is full.
FreshKeys ==
    Len(agreed) = 2 =>
        {agreed[1].cn, agreed[1].sn} \cap {agreed[2].cn, agreed[2].sn} = {}

\* When nothing is changed on its way, connections fail for the reasons meant
\* for them: time, a repeated nonce, an unknown session.  However the bytes are
\* cut into chunks, no frame is refused for its size or put together wrongly:
\* the limit is raised before the first large frame can arrive.
FailsAsMeant ==
    ~ changed =>
        \A e \in Sides :
            conn[e].why \in {"none", "HandshakeTimeout", "NonceReused", "PeerClosed"}
                \cup (IF build.id = "other" /\ e = "agent"
                      THEN {"AuthenticationFailed"} ELSE {})

\* Both ends wait for each other only when both are live: a read is never held
\* back by a full stream, and no answer is forgotten.
NoMutualWait ==
    (\A e \in Sides : PumpIdle(e) /\ Min({ReadRoom(conn[e].frames), Len(pipe[e])}) = 0)
        => \A e \in Sides : conn[e].stage = "Live" /\ pipe[e] = <<>>

\* A handshake nobody tampers with is not refused and does not get stuck.
HonestHandshake == FailsAsMeant /\ NoMutualWait

\* What the comment on Fatal_ in the client says: a client whose session the
\* agent does not know learns it from an AuthOk that does not verify.
UnknownIsTold ==
    build.id = "other" /\ conn["agent"].why = "AuthenticationFailed" =>
        conn["client"].why # "PeerClosed"
=============================================================================
