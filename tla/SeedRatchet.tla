----------------------------- MODULE SeedRatchet -----------------------------
(***************************************************************************)
(* The two-phase ratchet of the connection seed: which of the seeds the    *)
(* client and the agent hold, and the keys each connection is opened with. *)
(*                                                                         *)
(* A seed is the number of times AdvanceConnectionSeed has been applied to *)
(* the first one.  Keys derived from two seeds are equal exactly when the  *)
(* seeds are, so "the frame opens" is an equality of seeds.                *)
(*                                                                         *)
(* The agent serves several connections of one session in one thread and   *)
(* in any order; each handshake works on copies of the seeds taken when    *)
(* the connection was routed, while ConfirmResume changes the seeds of the *)
(* session as they are when a Resume opens.  Two history variables record  *)
(* what the overlap of handshakes has done; no guard looks at them.        *)
(***************************************************************************)
EXTENDS Integers

CONSTANT MaxConns   \* bound: the connections the client ever opens

ASSUME ConnsAssumption == MaxConns \in Nat

VARIABLES
    cSeed,    \* ClientSession::Seed_
    aSeed,    \* AgentSession::Seed_
    aPrev,    \* AgentSession::PreviousSeed_
    carrier,  \* the connection whose Attach was the last: SessionHandle::IsCurrent
    used,     \* the connections the client has opened; the last is Connection_
    link,     \* the connections
    crossed,  \* history: by connection, those under way when its Resume opened
    outdated  \* history: how many Resumes opened on a copy of Seed_ that was outdated

vars == <<cSeed, aSeed, aPrev, carrier, used, link, crossed, outdated>>

Conns == 1..MaxConns

NoSeed == -1

Seeds == Nat \cup {NoSeed}

Messages == {"Challenge", "Auth", "AuthOk", "Resume", "Frame"}

(* client: where ClientConnection is; agent: where AgentConnection is (the *)
(* connection waits to be read, holds the seeds for the handshake, holds   *)
(* the keys made of them, has opened Resume, is closed); key, cur, prev:   *)
(* the seed of the client's handshake and the two of the agent's.          *)
Links == [client : {"none", "handshake", "live", "confirmed", "gone"},
          agent  : {"waiting", "routed", "keyed", "resumed", "closed"},
          key    : Nat,
          cur    : Nat,
          prev   : Seeds,
          sent   : SUBSET Messages]

TypeOK ==
    /\ cSeed \in Nat
    /\ aSeed \in Nat
    /\ aPrev \in Seeds
    /\ carrier \in 0..MaxConns
    /\ used \in 0..MaxConns
    /\ link \in [Conns -> Links]
    /\ crossed \in [Conns -> SUBSET Conns]
    /\ outdated \in Nat

Init ==
    /\ cSeed = 0
    /\ aSeed = 0
    /\ aPrev = NoSeed
    /\ carrier = 0
    /\ used = 0
    /\ link = [k \in Conns |-> [client |-> "none", agent |-> "waiting",
                                key |-> 0, cur |-> 0, prev |-> NoSeed,
                                sent |-> {}]]
    /\ crossed = [k \in Conns |-> {}]
    /\ outdated = 0

Sent(l, message) == [l EXCEPT !.sent = @ \cup {message}]

-----------------------------------------------------------------------------
(* The client.                                                             *)

(* FinishConnecting: the handshake starts from a copy of the present seed. *)
ClientConnects ==
    /\ used < MaxConns
    /\ used > 0 => link[used].client = "gone"
    /\ used' = used + 1
    /\ link' = [link EXCEPT ![used + 1] =
                   [@ EXCEPT !.client = "handshake", !.key = cSeed]]
    /\ UNCHANGED <<cSeed, aSeed, aPrev, carrier, crossed, outdated>>

ClientAnswersChallenge(k) ==
    /\ link[k].client = "handshake"
    /\ "Challenge" \in link[k].sent
    /\ link' = [link EXCEPT ![k] = Sent(@, "Auth")]
    /\ UNCHANGED <<cSeed, aSeed, aPrev, carrier, used, crossed, outdated>>

(* SendResume.                                                             *)
ClientSendsResume(k) ==
    /\ link[k].client = "handshake"
    /\ "AuthOk" \in link[k].sent
    /\ link' = [link EXCEPT ![k] =
                   [Sent(@, "Resume") EXCEPT !.client = "live"]]
    /\ UNCHANGED <<cSeed, aSeed, aPrev, carrier, used, crossed, outdated>>

(* A client that steps at every frame.                                     *)
ClientOpensFrameAgain(k) ==
    /\ link[k].client \in {"live", "confirmed"}
    /\ "Frame" \in link[k].sent
    /\ cSeed' = cSeed + 1
    /\ cSeed < MaxConns + 1
    /\ link' = [link EXCEPT ![k].client = "confirmed"]
    /\ UNCHANGED <<aSeed, aPrev, carrier, used, crossed, outdated>>

(* The first sealed frame of the agent opens: ConfirmAgentFrame, which     *)
(* acts once per connection.                                               *)
ClientOpensFrame(k) ==
    /\ link[k].client = "live"
    /\ "Frame" \in link[k].sent
    /\ cSeed' = cSeed + 1
    /\ link' = [link EXCEPT ![k].client = "confirmed"]
    /\ UNCHANGED <<aSeed, aPrev, carrier, used, crossed, outdated>>

(* Drop: the network, a deadline or an error ends the connection here.     *)
(* What is in flight towards the agent may still be read there.            *)
ClientDrops(k) ==
    /\ link[k].client \in {"handshake", "live", "confirmed"}
    /\ link' = [link EXCEPT ![k].client = "gone"]
    /\ UNCHANGED <<cSeed, aSeed, aPrev, carrier, used, crossed, outdated>>

-----------------------------------------------------------------------------
(* The agent.                                                              *)

(* The connections between Hello and Resume.                               *)
UnderWay == {k \in Conns : link[k].agent \in {"routed", "keyed"}}

(* Route and the answer to Hello: the attempt clones both seeds.           *)
AgentRoutes(k) ==
    /\ link[k].client # "none"
    /\ link[k].agent = "waiting"
    /\ link' = [link EXCEPT ![k] =
                   [Sent(@, "Challenge") EXCEPT !.agent = "routed", !.cur = aSeed, !.prev = aPrev]]
    /\ UNCHANGED <<cSeed, aSeed, aPrev, carrier, used, crossed, outdated>>

(* Auth verifies: the keys of both seeds are made, the attempt and its     *)
(* seeds are gone.                                                         *)
AgentAuthenticates(k) ==
    /\ link[k].agent = "routed"
    /\ "Auth" \in link[k].sent
    /\ link' = [link EXCEPT ![k] =
                   [Sent(@, "AuthOk") EXCEPT !.agent = "keyed"]]
    /\ UNCHANGED <<cSeed, aSeed, aPrev, carrier, used, crossed, outdated>>

(* ConfirmResume that does not go back to the previous seed.               *)
ConfirmResumeForward(previous) ==
    /\ aPrev' = aSeed
    /\ aSeed' = aSeed + 1

(* ConfirmResume that ratchets only the first time.                        *)
ConfirmResumeOnce(previous) ==
    /\ aPrev' = IF aPrev = NoSeed THEN aSeed ELSE aPrev
    /\ aSeed' = IF aPrev = NoSeed THEN aSeed + 1 ELSE aSeed

(* ConfirmResume, on the session's seeds: from the previous one when the   *)
(* client is a seed behind, else from the present one.                     *)
ConfirmResume(previous) ==
    LET from == IF previous THEN aPrev ELSE aSeed
    IN  /\ previous => aPrev # NoSeed
        /\ aPrev' = from
        /\ aSeed' = from + 1

(* PumpResume: the keys of the attempt's current seed, then of its         *)
(* previous one.  The seeds have moved by the time the path is chosen and  *)
(* the stream attached, which may still refuse the connection.             *)
AgentOpensResume(k) ==
    /\ link[k].agent = "keyed"
    /\ "Resume" \in link[k].sent
    /\ link[k].key \in {link[k].cur, link[k].prev}
    /\ ConfirmResume(link[k].key # link[k].cur)
    /\ \/ carrier' = k /\ link' = [link EXCEPT ![k].agent = "resumed"]
       \/ UNCHANGED carrier /\ link' = [link EXCEPT ![k].agent = "closed"]
    /\ crossed' = [crossed EXCEPT ![k] = UnderWay \ {k}]
    /\ outdated' = outdated + (IF link[k].key = link[k].cur /\ link[k].cur # aSeed THEN 1 ELSE 0)
    /\ UNCHANGED <<cSeed, used>>

(* The first sealed frame of a connection that carries the session.        *)
AgentSendsFrame(k) ==
    /\ link[k].agent = "resumed"
    /\ carrier = k
    /\ link' = [link EXCEPT ![k] = Sent(@, "Frame")]
    /\ UNCHANGED <<cSeed, aSeed, aPrev, carrier, used, crossed, outdated>>

(* Refuse or Close: Resume opens under neither key, a deadline, an error,  *)
(* Superseded, or the end of the socket.                                   *)
AgentCloses(k) ==
    /\ link[k].client # "none"
    /\ link[k].agent # "closed"
    /\ link' = [link EXCEPT ![k].agent = "closed"]
    /\ UNCHANGED <<cSeed, aSeed, aPrev, carrier, used, crossed, outdated>>

-----------------------------------------------------------------------------
ClientStep(k) ==
    \/ ClientAnswersChallenge(k)
    \/ ClientSendsResume(k)
    \/ ClientOpensFrame(k)
    \/ ClientDrops(k)

AgentStep(k) ==
    \/ AgentRoutes(k)
    \/ AgentAuthenticates(k)
    \/ AgentOpensResume(k)
    \/ AgentSendsFrame(k)
    \/ AgentCloses(k)

Next ==
    \/ ClientConnects
    \/ \E k \in Conns : ClientStep(k) \/ AgentStep(k)

Spec == Init /\ [][Next]_vars

-----------------------------------------------------------------------------
(* Properties.                                                             *)

(* The client is on one of the two seeds the agent remembers, so its next  *)
(* connection can be opened.                                               *)
SeedsMeet == cSeed \in {aSeed, aPrev}

(***************************************************************************)
(* ConfirmResume and ConfirmAgentFrame never drift apart, whatever is cut  *)
(* and however handshakes overlap, unless a Resume opens on a copy of the  *)
(* present seed that another Resume has outdated.  Each of those, and      *)
(* nothing else, puts the agent one seed further ahead; without one the    *)
(* client is always on a seed the agent remembers.                         *)
(***************************************************************************)
SeedAgreement ==
    /\ aSeed <= cSeed + 1 + outdated
    /\ outdated = 0 => SeedsMeet
    /\ (\A k \in Conns : crossed[k] = {}) => outdated = 0

(* Every connection is over on both sides.                                 *)
Quiet ==
    \A k \in Conns :
        \/ link[k].client = "none"
        \/ link[k].client = "gone" /\ link[k].agent = "closed"

(* Whatever was cut, once all connections are over the client's seed is    *)
(* one the agent would accept: the session can be resumed.  Overlapping    *)
(* handshakes break it.                                                    *)
CutLeavesSeedsMeeting == Quiet => SeedsMeet

(* A Resume that reached the agent opens with the keys of one of the two   *)
(* seeds its handshake copied: until a Resume has opened on an outdated    *)
(* copy, PumpResume refuses no honest client.                              *)
EveryResumeOpens ==
    outdated = 0 =>
        \A k \in Conns :
            "Resume" \in link[k].sent /\ link[k].agent = "keyed"
                => link[k].key \in {link[k].cur, link[k].prev}

(* The client advances only behind the agent: a sealed frame of the agent  *)
(* that opened means that the agent had opened Resume and moved first,     *)
(* whatever the connections did meanwhile (ConfirmAgentFrame).             *)
ClientNeverAhead == cSeed <= aSeed

(* The seeds the agent can derive keys from once the Resume of connection  *)
(* k is open: the session's, and the copies of handshakes begun since.     *)
(* One that k crossed keeps its copies until its Auth or its deadline.     *)
Held(k) ==
    {aSeed, aPrev} \cup
    UNION {{link[m].cur, link[m].prev} :
              m \in {j \in Conns \ crossed[k] : link[j].agent = "routed"}}

(* Forward secrecy between connections: once a connection on a later seed  *)
(* has been opened, neither the session nor a handshake begun since holds  *)
(* a seed from which the keys of an earlier connection could be derived.   *)
OldSeedsGone ==
    \A j, k \in Conns :
        /\ link[j].client # "none"
        /\ link[k].agent = "resumed"
        /\ link[j].key < link[k].key
        => \A s \in Held(k) \ {NoSeed} : s > link[j].key
=============================================================================
