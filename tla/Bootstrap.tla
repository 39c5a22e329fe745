------------------------------ MODULE Bootstrap ------------------------------
(***************************************************************************)
(* The key exchange over ssh (src/src/session/bootstrap, and Bootstrap of  *)
(* src/src/agent/agent.cpp and src/src/client/client.cpp): the client      *)
(* writes an Offer to the agent's stdin and looks for the Accept in what   *)
(* ssh prints, which begins with whatever the login shell says.            *)
(*                                                                         *)
(* Keys, nonces and ports are numbers of one byte.  The exchange gives     *)
(* both ends the set of their two keys.                                    *)
(***************************************************************************)
EXTENDS Armor

CONSTANTS BootVersions,     \* PROTOCOL_VERSION_MAX of the client and the agent
          NoiseMax          \* bound on what the shell prints

ASSUME BootAssumption ==
    BootVersions \subseteq [client : 1..255, agent : 1..255] /\ NoiseMax \in Nat

VARIABLES
    speaks,     \* the versions of the two programs
    muxed,      \* whether the agent finds a mux, and one that registers it
    boot,       \* BootstrapClient and BootstrapAgent
    tty,        \* characters on their way to each
    noise       \* pieces the shell has printed

bootVars == <<speaks, muxed, boot, tty, noise>>

Own == [client |-> [key |-> 11, nonce |-> 12], agent |-> [key |-> 21, nonce |-> 22]]

MuxPort == 80
OwnPort == 81

OfferType == 1
AcceptType == 2

\* A cleartext frame: the length of the body, the epoch, the body.
FrameBytes(body) == <<Len(body), 0>> \o body

OfferBytes(min, max, party) ==
    FrameBytes(<<OfferType, min, max, party.key, party.nonce>>)

AcceptBytes(a) ==
    FrameBytes(<<AcceptType, a.version, a.key, a.clientNonce, a.nonce, a.port>>)

\* Exactly one cleartext frame.
FrameBody(block) ==
    IF Len(block) < 2 \/ Len(block) # block[1] + 2 \/ block[1] = 0 \/ block[2] # 0
    THEN <<>> ELSE SubSeq(block, 3, Len(block))

PickVersion(peerMin, peerMax, ourMax) ==
    LET high == Min({peerMax, ourMax}) low == Max({peerMin, 1})
    IN IF low > high THEN 0 ELSE high

Master(keys, version, clientNonce, agentNonce) ==
    <<keys, version, clientNonce, agentNonce>>
-------------------------------------------------------------------------------
(* Consider: what a block found makes of the two ends *)

\* Fault: any Accept is taken for the answer.
ConsiderClientAny(c, body) ==
    IF body = <<>> \/ body[1] # AcceptType \/ Len(body) # 6 THEN c
    ELSE [c EXCEPT !.stage = "done", !.port = body[6], !.version = body[2],
            !.master = Master({Own["client"].key, body[3]}, body[2],
                              Own["client"].nonce, body[5])]

\* Anything that is not an Accept with our nonce is noise.
ConsiderClient(c, body) ==
    IF body = <<>> \/ body[1] # AcceptType \/ Len(body) # 6 THEN c
    ELSE IF body[4] # Own["client"].nonce THEN c
    ELSE IF body[2] < 1 \/ body[2] > speaks["client"] THEN [c EXCEPT !.stage = "failed"]
    ELSE [c EXCEPT !.stage = "done", !.port = body[6], !.version = body[2],
            !.master = Master({Own["client"].key, body[3]}, body[2],
                              Own["client"].nonce, body[5])]

ConsiderAgent(a, body) ==
    IF body = <<>> \/ body[1] # OfferType THEN a
    ELSE LET version == PickVersion(body[2], body[3], speaks["agent"])
         IN IF Len(body) # 5 \/ version = 0 THEN [a EXCEPT !.stage = "failed"]
            ELSE [a EXCEPT !.stage = "found", !.version = version,
                   !.accept = [version |-> version, key |-> Own["agent"].key,
                               clientNonce |-> body[5], nonce |-> Own["agent"].nonce,
                               port |-> a.port],
                   !.master = Master({Own["agent"].key, body[4]}, version,
                                     body[5], Own["agent"].nonce)]

\* Feed and Scan: a chunk is looked at up to the block that settles it.
Scan(e, x, chunk) ==
    LET Consider(y, body) == IF e = "client" THEN ConsiderClient(y, body)
                             ELSE ConsiderAgent(y, body)
        take(y, c) ==
            LET s == FeedChar(y.scanner, c)
                fed == [y EXCEPT !.scanner = s]
                next == IF s.ready.err = "ok"
                        THEN Consider(fed, FrameBody(s.ready.bytes)) ELSE fed
            IN IF y.stage # "waiting" THEN y
               ELSE IF next.stage # "waiting"
               THEN [next EXCEPT !.scanner = NewScanner] ELSE next
    IN FoldLeft(take, x, chunk)

AnnouncePort(a, port) == [a EXCEPT !.port = port, !.accept = [@ EXCEPT !.port = port]]
-------------------------------------------------------------------------------
(* The two programs *)

WriteOffer ==
    /\ boot["client"].stage = "offering"
    /\ boot' = [boot EXCEPT !["client"] = [@ EXCEPT !.stage = "waiting"]]
    /\ tty' = [tty EXCEPT !["agent"] =
                 @ \o WriteArmor(OfferBytes(1, speaks["client"], Own["client"]))]
    /\ UNCHANGED <<speaks, muxed, noise>>

\* The client reads what ssh has passed on: byte by byte, so cut anywhere.
ClientReads ==
    /\ boot["client"].stage = "waiting" /\ tty["client"] # <<>>
    /\ boot' = [boot EXCEPT !["client"] =
                  Scan("client", @, <<Head(tty["client"])>>)]
    /\ tty' = [tty EXCEPT !["client"] = Tail(@)]
    /\ UNCHANGED <<speaks, muxed, noise>>

AgentReads ==
    /\ boot["agent"].stage = "waiting" /\ tty["agent"] # <<>>
    /\ boot' = [boot EXCEPT !["agent"] = Scan("agent", @, tty["agent"])]
    /\ tty' = [tty EXCEPT !["agent"] = <<>>]
    /\ UNCHANGED <<speaks, muxed, noise>>

\* Registers with the mux, or falls back to a port of its own, then answers.
Answer ==
    LET port == IF muxed = "registers" THEN MuxPort ELSE OwnPort
        a == IF muxed = "none" THEN boot["agent"] ELSE AnnouncePort(boot["agent"], port)
    IN /\ boot["agent"].stage = "found"
       /\ boot' = [boot EXCEPT !["agent"] = [a EXCEPT !.stage = "done", !.serves = port]]
       /\ tty' = [tty EXCEPT !["client"] = @ \o WriteArmor(AcceptBytes(a.accept))]
       /\ UNCHANGED <<speaks, muxed, noise>>

\* BOOTSTRAP_TIMEOUT, a failed listen or write, the end of ssh.
GiveUp(e) ==
    /\ boot[e].stage \in {"waiting", "found"}
    /\ boot' = [boot EXCEPT ![e] = [@ EXCEPT !.stage = "failed", !.scanner = NewScanner]]
    /\ UNCHANGED <<speaks, muxed, tty, noise>>

\* A piece of what a login shell may print before the agent answers: prompts
\* without a newline, markers and base64 that mean nothing, the Offer echoed, a
\* block of another bootstrap, whole or cut short.
Word == <<"x", 0>>

StaleAccept ==
    WriteArmor(AcceptBytes([version |-> 1, key |-> 31, clientNonce |-> 32,
                            nonce |-> 33, port |-> 90]))

EchoedOffer == WriteArmor(OfferBytes(1, 1, Own["client"]))

Pieces ==
    {<<Word>>, <<Newline>>, <<Return>>, <<ArmorBegin>>, <<ArmorEnd, Newline>>, <<<<"c", 0>>>>,
     StaleAccept, SubSeq(StaleAccept, 1, LineWidth + 5),
     EchoedOffer}

ShellPrints ==
    /\ boot["agent"].stage = "waiting" /\ noise < NoiseMax
    /\ \E piece \in Pieces : tty' = [tty EXCEPT !["client"] = @ \o piece]
    /\ noise' = noise + 1
    /\ UNCHANGED <<speaks, muxed, boot>>

BootInit ==
    /\ speaks \in BootVersions
    /\ muxed \in {"none", "registers", "refuses"}
    /\ boot = [client |-> [stage |-> "offering", scanner |-> NewScanner, version |-> 0,
                           port |-> 0, master |-> <<>>],
               agent |-> [stage |-> "waiting", scanner |-> NewScanner, version |-> 0,
                          port |-> IF muxed = "none" THEN OwnPort ELSE 0,
                          master |-> <<>>, accept |-> <<>>, serves |-> 0]]
    /\ tty = [client |-> <<>>, agent |-> <<>>]
    /\ noise = 0

BootNext ==
    \/ WriteOffer \/ ClientReads \/ AgentReads \/ Answer \/ ShellPrints
    \/ \E e \in {"client", "agent"} : GiveUp(e)
-------------------------------------------------------------------------------
(* Properties *)

\* Whatever the shell printed before it, the client finds the Accept once it has
\* read it: the block begins on a line of its own, and blocks before it that are
\* cut short, foreign or nonsense do not swallow it.
AcceptIsFound ==
    boot["agent"].stage = "done" /\ tty["client"] = <<>> =>
        boot["client"].stage \in {"done", "failed"}

\* A client that goes on has this agent's secrets, the highest version both
\* speak, and a port this agent is reached at, mux or no mux.
SecretsAgree ==
    LET c == boot["client"] a == boot["agent"]
    IN c.stage = "done" =>
         /\ a.stage = "done" /\ c.master = a.master
         /\ c.version = Min({speaks["client"], speaks["agent"]})
         /\ c.port = a.serves

\* The client finds its agent, and nothing else, in what the terminal shows.
FindsItsAgent == AcceptIsFound /\ SecretsAgree

\* Base64 has one spelling for every sequence of bytes, and gives it back.
SomeBytes == UNION {[1..n -> {0, 1, 16, 255}] : n \in 0..4}
SomeTexts == [1..4 -> {<<"c", 0>>, <<"c", 1>>, <<"c", 16>>, <<"c", 63>>, Padding, Word}]

ASSUME OneSpelling ==
    /\ \A b \in SomeBytes : Base64Decode(Base64Encode(b)) = [err |-> "ok", bytes |-> b]
    /\ \A t \in SomeTexts : LET d == Base64Decode(t)
                            IN d.err = "ok" => Base64Encode(d.bytes) = t
=============================================================================
