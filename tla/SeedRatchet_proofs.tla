-------------------------- MODULE SeedRatchet_proofs --------------------------
(***************************************************************************)
(* Proofs about the seed ratchet for any number of connections.            *)
(*                                                                         *)
(* Nothing is assumed of the order in which the agent serves them.         *)
(* AheadInv gives ClientNeverAhead.  AgreeInv adds what a handshake's      *)
(* copies are worth once other Resumes may have opened beside it, and      *)
(* gives the agreement of the two sides and the end of the old seeds.      *)
(***************************************************************************)
EXTENDS SeedRatchet, TLAPS

(* A connection the client works on is the last it opened.                 *)
OnlyTheLast ==
    \A k \in Conns :
        /\ link[k].client \in {"handshake", "live", "confirmed"} => k = used
        /\ link[k].client \in {"handshake", "live"} => link[k].key = cSeed
        /\ link[k].client = "none" <=> k > used
        /\ link[k].client = "none" => link[k].agent = "waiting" /\ link[k].sent = {}

(* The seeds the agent works with are consecutive, and the copies of a     *)
(* handshake are never newer than the session's.                           *)
Consecutive ==
    /\ aPrev = aSeed - 1
    /\ \A k \in Conns : link[k].prev = link[k].cur - 1 /\ link[k].cur <= aSeed

(* An opened Resume has moved the agent past the seed of the connection.   *)
AgentMovedFirst ==
    \A k \in Conns :
        link[k].agent = "resumed" \/ "Frame" \in link[k].sent
            => link[k].key < aSeed

AheadInv ==
    TypeOK /\ OnlyTheLast /\ Consecutive /\ AgentMovedFirst /\ ClientNeverAhead

(***************************************************************************)
(* Every action of the two sides keeps the types.                          *)
(***************************************************************************)
LEMMA TypeInductive == TypeOK /\ [Next]_vars => TypeOK'
  <1> SUFFICES ASSUME TypeOK, [Next]_vars
               PROVE  TypeOK'
    OBVIOUS
  <1>0. cSeed \in Nat /\ aSeed \in Nat /\ aPrev \in Seeds /\ \A k \in Conns : link[k] \in Links
    BY DEF TypeOK
  <1>1. CASE ClientConnects
    <2>0. used + 1 \in Conns /\ used + 1 \in 0..MaxConns
      BY <1>1, ConnsAssumption DEF TypeOK, Conns, ClientConnects
    <2> DEFINE r == [link[used + 1] EXCEPT !.client = "handshake", !.key = cSeed]
    <2>1. r \in Links
      BY <1>0, <2>0 DEF Links
    <2>2. link' = [link EXCEPT ![used + 1] = r]
      BY <1>1 DEF ClientConnects
    <2> HIDE DEF r
    <2> QED BY <1>1, <2>0, <2>1, <2>2 DEF TypeOK, ClientConnects
  <1>2. ASSUME NEW k \in Conns, ClientAnswersChallenge(k)
        PROVE  TypeOK'
    <2> DEFINE r == Sent(link[k], "Auth")
    <2>1. r \in Links
      BY <1>0 DEF Links, Messages, Sent
    <2>2. link' = [link EXCEPT ![k] = r]
      BY <1>2 DEF ClientAnswersChallenge
    <2> HIDE DEF r
    <2> QED BY <1>2, <2>1, <2>2 DEF TypeOK, ClientAnswersChallenge
  <1>3. ASSUME NEW k \in Conns, ClientSendsResume(k)
        PROVE  TypeOK'
    <2> DEFINE r == [Sent(link[k], "Resume") EXCEPT !.client = "live"]
    <2>1. r \in Links
      BY <1>0 DEF Links, Messages, Sent
    <2>2. link' = [link EXCEPT ![k] = r]
      BY <1>3 DEF ClientSendsResume
    <2> HIDE DEF r
    <2> QED BY <1>3, <2>1, <2>2 DEF TypeOK, ClientSendsResume
  <1>4. ASSUME NEW k \in Conns, ClientOpensFrame(k)
        PROVE  TypeOK'
    <2> DEFINE r == [link[k] EXCEPT !.client = "confirmed"]
    <2>1. r \in Links
      BY <1>0 DEF Links
    <2>2. link' = [link EXCEPT ![k] = r]
      BY <1>4 DEF ClientOpensFrame
    <2> HIDE DEF r
    <2> QED BY <1>4, <2>1, <2>2 DEF TypeOK, ClientOpensFrame
  <1>5. ASSUME NEW k \in Conns, ClientDrops(k)
        PROVE  TypeOK'
    <2> DEFINE r == [link[k] EXCEPT !.client = "gone"]
    <2>1. r \in Links
      BY <1>0 DEF Links
    <2>2. link' = [link EXCEPT ![k] = r]
      BY <1>5 DEF ClientDrops
    <2> HIDE DEF r
    <2> QED BY <1>5, <2>1, <2>2 DEF TypeOK, ClientDrops
  <1>6. ASSUME NEW k \in Conns, AgentRoutes(k)
        PROVE  TypeOK'
    <2> DEFINE r == [Sent(link[k], "Challenge") EXCEPT !.agent = "routed", !.cur = aSeed, !.prev = aPrev]
    <2>1. r \in Links
      BY <1>0 DEF Links, Messages, Sent
    <2>2. link' = [link EXCEPT ![k] = r]
      BY <1>6 DEF AgentRoutes
    <2> HIDE DEF r
    <2> QED BY <1>6, <2>1, <2>2 DEF TypeOK, AgentRoutes
  <1>7. ASSUME NEW k \in Conns, AgentAuthenticates(k)
        PROVE  TypeOK'
    <2> DEFINE r == [Sent(link[k], "AuthOk") EXCEPT !.agent = "keyed"]
    <2>1. r \in Links
      BY <1>0 DEF Links, Messages, Sent
    <2>2. link' = [link EXCEPT ![k] = r]
      BY <1>7 DEF AgentAuthenticates
    <2> HIDE DEF r
    <2> QED BY <1>7, <2>1, <2>2 DEF TypeOK, AgentAuthenticates
  <1>8. ASSUME NEW k \in Conns, AgentOpensResume(k)
        PROVE  TypeOK'
    <2> DEFINE r == [link[k] EXCEPT !.agent = "resumed"]
               q == [link[k] EXCEPT !.agent = "closed"]
    <2>1. r \in Links /\ q \in Links
      BY <1>0 DEF Links
    <2>2. link' \in [Conns -> Links] /\ carrier' \in 0..MaxConns
      <3>1. \/ carrier' = k /\ link' = [link EXCEPT ![k] = r]
            \/ carrier' = carrier /\ link' = [link EXCEPT ![k] = q]
        BY <1>8 DEF AgentOpensResume
      <3> HIDE DEF r, q
      <3>2. link' \in [Conns -> Links]
        BY <2>1, <3>1 DEF TypeOK
      <3>3. carrier' \in 0..MaxConns
        BY <3>1, ConnsAssumption DEF TypeOK, Conns
      <3> QED BY <3>2, <3>3
    <2>3. aSeed' \in Nat /\ aPrev' \in Seeds
      BY <1>8 DEF TypeOK, AgentOpensResume, ConfirmResume, Seeds
    <2>4. crossed' \in [Conns -> SUBSET Conns]
      BY <1>8 DEF TypeOK, AgentOpensResume, UnderWay
    <2>5. outdated' \in Nat
      BY <1>8 DEF TypeOK, AgentOpensResume
    <2> QED BY <1>8, <2>2, <2>3, <2>4, <2>5 DEF TypeOK, AgentOpensResume
  <1>9. ASSUME NEW k \in Conns, AgentSendsFrame(k)
        PROVE  TypeOK'
    <2> DEFINE r == Sent(link[k], "Frame")
    <2>1. r \in Links
      BY <1>0 DEF Links, Messages, Sent
    <2>2. link' = [link EXCEPT ![k] = r]
      BY <1>9 DEF AgentSendsFrame
    <2> HIDE DEF r
    <2> QED BY <1>9, <2>1, <2>2 DEF TypeOK, AgentSendsFrame
  <1>10. ASSUME NEW k \in Conns, AgentCloses(k)
        PROVE  TypeOK'
    <2> DEFINE r == [link[k] EXCEPT !.agent = "closed"]
    <2>1. r \in Links
      BY <1>0 DEF Links
    <2>2. link' = [link EXCEPT ![k] = r]
      BY <1>10 DEF AgentCloses
    <2> HIDE DEF r
    <2> QED BY <1>10, <2>1, <2>2 DEF TypeOK, AgentCloses
  <1>11. CASE UNCHANGED vars
    BY <1>11 DEF TypeOK, vars
  <1> QED
    BY <1>1, <1>2, <1>3, <1>4, <1>5, <1>6, <1>7, <1>8, <1>9, <1>10, <1>11
    DEF Next, ClientStep, AgentStep

(***************************************************************************)
(* What AgentOpensResume does, in either branch of ConfirmResume: the      *)
(* agent ends one seed past the connection's or further, and only the      *)
(* stage of that connection changes.                                       *)
(***************************************************************************)
LEMMA OpenedResume ==
    ASSUME AheadInv, NEW k \in Conns, AgentOpensResume(k)
    PROVE  /\ aSeed' \in {aSeed, aSeed + 1} /\ aPrev' = aSeed' - 1
           /\ link[k].key < aSeed'
           /\ cSeed' = cSeed /\ used' = used
           /\ link'[k].agent \in {"resumed", "closed"} /\ link[k].agent = "keyed"
           /\ \A j \in Conns :
                 /\ link'[j].client = link[j].client /\ link'[j].key = link[j].key
                 /\ link'[j].cur = link[j].cur /\ link'[j].prev = link[j].prev
                 /\ link'[j].sent = link[j].sent
                 /\ j # k => link'[j].agent = link[j].agent
  <1>1. /\ aSeed \in Nat /\ aPrev = aSeed - 1 /\ link[k].key \in Nat
        /\ link[k].cur \in Nat /\ link[k].prev = link[k].cur - 1 /\ link[k].cur <= aSeed
    BY DEF AheadInv, TypeOK, Links, Consecutive
  <1>2. link[k].key \in {link[k].cur, link[k].prev} /\ ConfirmResume(link[k].key # link[k].cur)
    BY DEF AgentOpensResume
  <1>3. CASE link[k].key = link[k].cur
    <2>1. aPrev' = aSeed /\ aSeed' = aSeed + 1
      BY <1>2, <1>3 DEF ConfirmResume
    <2>2. aSeed' \in {aSeed, aSeed + 1} /\ aPrev' = aSeed' - 1 /\ link[k].key < aSeed'
      BY <1>1, <1>3, <2>1
    <2> QED BY <2>2 DEF AheadInv, TypeOK, Links, AgentOpensResume
  <1>4. CASE link[k].key # link[k].cur
    <2>1. aPrev' = aPrev /\ aSeed' = aPrev + 1 /\ link[k].key = link[k].prev
      BY <1>2, <1>4 DEF ConfirmResume
    <2>2. aSeed' \in {aSeed, aSeed + 1} /\ aPrev' = aSeed' - 1 /\ link[k].key < aSeed'
      BY <1>1, <2>1
    <2> QED BY <2>2 DEF AheadInv, TypeOK, Links, AgentOpensResume
  <1> QED BY <1>3, <1>4

(***************************************************************************)
(* AheadInv is inductive, action by action.                                *)
(***************************************************************************)
LEMMA AheadInductive == AheadInv /\ [Next]_vars => AheadInv'
  <1> SUFFICES ASSUME AheadInv, [Next]_vars
               PROVE  AheadInv'
    OBVIOUS
  <1> USE DEF AheadInv
  <1>0. TypeOK /\ TypeOK'
    BY TypeInductive
  <1>1. CASE ClientConnects
    <2>1. OnlyTheLast'
      BY <1>1, ConnsAssumption DEF TypeOK, Links, OnlyTheLast, ClientConnects, Conns
    <2>2. Consecutive'
      BY <1>1, ConnsAssumption DEF TypeOK, Links, Consecutive, ClientConnects, Conns
    <2>3. AgentMovedFirst'
      BY <1>1, ConnsAssumption DEF TypeOK, Links, AgentMovedFirst, OnlyTheLast, ClientConnects, Conns
    <2>4. ClientNeverAhead'
      BY <1>1, ConnsAssumption DEF TypeOK, Links, ClientNeverAhead, ClientConnects, Conns
    <2> QED BY <1>0, <2>1, <2>2, <2>3, <2>4
  <1>2. ASSUME NEW k \in Conns, ClientAnswersChallenge(k)
        PROVE  AheadInv'
    <2>1. OnlyTheLast'
      BY <1>2 DEF TypeOK, Links, OnlyTheLast, ClientAnswersChallenge, Sent
    <2>2. Consecutive'
      BY <1>2 DEF TypeOK, Links, Consecutive, ClientAnswersChallenge, Sent
    <2>3. AgentMovedFirst'
      BY <1>2 DEF TypeOK, Links, AgentMovedFirst, ClientAnswersChallenge, Sent
    <2>4. ClientNeverAhead'
      BY <1>2 DEF TypeOK, Links, ClientNeverAhead, ClientAnswersChallenge, Sent
    <2> QED BY <1>0, <2>1, <2>2, <2>3, <2>4
  <1>3. ASSUME NEW k \in Conns, ClientSendsResume(k)
        PROVE  AheadInv'
    <2>1. OnlyTheLast'
      BY <1>3 DEF TypeOK, Links, OnlyTheLast, ClientSendsResume, Sent
    <2>2. Consecutive'
      BY <1>3 DEF TypeOK, Links, Consecutive, ClientSendsResume, Sent
    <2>3. AgentMovedFirst'
      BY <1>3 DEF TypeOK, Links, AgentMovedFirst, ClientSendsResume, Sent
    <2>4. ClientNeverAhead'
      BY <1>3 DEF TypeOK, Links, ClientNeverAhead, ClientSendsResume, Sent
    <2> QED BY <1>0, <2>1, <2>2, <2>3, <2>4
  <1>4. ASSUME NEW k \in Conns, ClientOpensFrame(k)
        PROVE  AheadInv'
    <2>1. OnlyTheLast'
      BY <1>4 DEF TypeOK, Links, OnlyTheLast, ClientOpensFrame
    <2>2. Consecutive'
      BY <1>4 DEF TypeOK, Links, Consecutive, ClientOpensFrame
    <2>3. AgentMovedFirst'
      BY <1>4 DEF TypeOK, Links, AgentMovedFirst, ClientOpensFrame
    <2>4. ClientNeverAhead'
      BY <1>4 DEF TypeOK, Links, ClientNeverAhead, AgentMovedFirst, OnlyTheLast, ClientOpensFrame
    <2> QED BY <1>0, <2>1, <2>2, <2>3, <2>4
  <1>5. ASSUME NEW k \in Conns, ClientDrops(k)
        PROVE  AheadInv'
    <2>1. OnlyTheLast'
      BY <1>5 DEF TypeOK, Links, OnlyTheLast, ClientDrops
    <2>2. Consecutive'
      BY <1>5 DEF TypeOK, Links, Consecutive, ClientDrops
    <2>3. AgentMovedFirst'
      BY <1>5 DEF TypeOK, Links, AgentMovedFirst, ClientDrops
    <2>4. ClientNeverAhead'
      BY <1>5 DEF TypeOK, Links, ClientNeverAhead, ClientDrops
    <2> QED BY <1>0, <2>1, <2>2, <2>3, <2>4
  <1>6. ASSUME NEW k \in Conns, AgentRoutes(k)
        PROVE  AheadInv'
    <2>1. OnlyTheLast'
      BY <1>6 DEF TypeOK, Links, OnlyTheLast, AgentRoutes, Sent
    <2>2. Consecutive'
      BY <1>6 DEF TypeOK, Links, Consecutive, AgentRoutes, Sent
    <2>3. AgentMovedFirst'
      BY <1>6 DEF TypeOK, Links, AgentMovedFirst, AgentRoutes, Sent
    <2>4. ClientNeverAhead'
      BY <1>6 DEF TypeOK, Links, ClientNeverAhead, AgentRoutes, Sent
    <2> QED BY <1>0, <2>1, <2>2, <2>3, <2>4
  <1>7. ASSUME NEW k \in Conns, AgentAuthenticates(k)
        PROVE  AheadInv'
    <2>1. OnlyTheLast'
      BY <1>7 DEF TypeOK, Links, OnlyTheLast, AgentAuthenticates, Sent
    <2>2. Consecutive'
      BY <1>7 DEF TypeOK, Links, Consecutive, AgentAuthenticates, Sent
    <2>3. AgentMovedFirst'
      BY <1>7 DEF TypeOK, Links, AgentMovedFirst, AgentAuthenticates, Sent
    <2>4. ClientNeverAhead'
      BY <1>7 DEF TypeOK, Links, ClientNeverAhead, AgentAuthenticates, Sent
    <2> QED BY <1>0, <2>1, <2>2, <2>3, <2>4
  <1>8. ASSUME NEW k \in Conns, AgentOpensResume(k)
        PROVE  AheadInv'
    <2>1. OnlyTheLast'
      BY <1>8, OpenedResume DEF OnlyTheLast
    <2>2. Consecutive'
      <3>1. aSeed \in Nat /\ aSeed' \in {aSeed, aSeed + 1} /\ aPrev' = aSeed' - 1
        BY <1>0, <1>8, OpenedResume DEF TypeOK
      <3>2. ASSUME NEW j \in Conns
            PROVE  link'[j].prev = link'[j].cur - 1 /\ link'[j].cur <= aSeed'
        <4>1. /\ link'[j].cur = link[j].cur /\ link'[j].prev = link[j].prev
              /\ link[j].cur \in Nat /\ link[j].prev = link[j].cur - 1
              /\ link[j].cur <= aSeed
          BY <1>0, <1>8, OpenedResume DEF TypeOK, Links, Consecutive
        <4> QED BY <3>1, <4>1
      <3> QED BY <3>1, <3>2 DEF Consecutive
    <2>3. AgentMovedFirst'
      BY <1>0, <1>8, OpenedResume DEF TypeOK, Links, AgentMovedFirst
    <2>4. ClientNeverAhead'
      BY <1>0, <1>8, OpenedResume DEF TypeOK, ClientNeverAhead
    <2> QED BY <1>0, <2>1, <2>2, <2>3, <2>4
  <1>9. ASSUME NEW k \in Conns, AgentSendsFrame(k)
        PROVE  AheadInv'
    <2>1. OnlyTheLast'
      BY <1>9 DEF TypeOK, Links, OnlyTheLast, AgentSendsFrame, Sent
    <2>2. Consecutive'
      BY <1>9 DEF TypeOK, Links, Consecutive, AgentSendsFrame, Sent
    <2>3. AgentMovedFirst'
      BY <1>9 DEF TypeOK, Links, AgentMovedFirst, AgentSendsFrame, Sent
    <2>4. ClientNeverAhead'
      BY <1>9 DEF TypeOK, Links, ClientNeverAhead, AgentSendsFrame, Sent
    <2> QED BY <1>0, <2>1, <2>2, <2>3, <2>4
  <1>10. ASSUME NEW k \in Conns, AgentCloses(k)
        PROVE  AheadInv'
    <2>1. OnlyTheLast'
      BY <1>10 DEF TypeOK, Links, OnlyTheLast, AgentCloses
    <2>2. Consecutive'
      BY <1>10 DEF TypeOK, Links, Consecutive, AgentCloses
    <2>3. AgentMovedFirst'
      BY <1>10 DEF TypeOK, Links, AgentMovedFirst, AgentCloses
    <2>4. ClientNeverAhead'
      BY <1>10 DEF TypeOK, Links, ClientNeverAhead, AgentCloses
    <2> QED BY <1>0, <2>1, <2>2, <2>3, <2>4
  <1>11. CASE UNCHANGED vars
    BY <1>11 DEF TypeOK, OnlyTheLast, Consecutive, AgentMovedFirst, ClientNeverAhead, vars
  <1> QED
    BY <1>1, <1>2, <1>3, <1>4, <1>5, <1>6, <1>7, <1>8, <1>9, <1>10, <1>11
    DEF Next, ClientStep, AgentStep

(***************************************************************************)
(* The type invariant and, for every order of the agent's connections,     *)
(* that the client moves to a seed only after the agent has: a frame of    *)
(* the agent that opens proves that Resume was opened (ConfirmAgentFrame). *)
(***************************************************************************)
THEOREM ClientFollowsAgent == Spec => [](TypeOK /\ ClientNeverAhead)
  <1>1. Init => AheadInv
    BY ConnsAssumption DEF Init, AheadInv, TypeOK, Links, Seeds, Messages, NoSeed, Conns,
                           OnlyTheLast, Consecutive, AgentMovedFirst, ClientNeverAhead
  <1>2. AheadInv => TypeOK /\ ClientNeverAhead
    BY DEF AheadInv
  <1> QED BY <1>1, <1>2, AheadInductive, PTL DEF Spec

-----------------------------------------------------------------------------
(* The rest of the invariant.                                              *)

(* The client's seed only moves forward.                                   *)
KeysPast == \A k \in Conns : link[k].key <= cSeed

(* Nothing travels on a connection the agent has not read from, and one    *)
(* whose Resume has not opened has crossed nobody.                         *)
Untouched ==
    \A k \in Conns :
        /\ link[k].agent = "waiting" => link[k].sent = {}
        /\ link[k].agent \in {"waiting", "routed", "keyed"} => crossed[k] = {}

(* The copies of a handshake under way are the session's seeds, unless     *)
(* another's Resume has crossed it.                                        *)
CopiesFresh ==
    \A k \in Conns :
        link[k].agent \in {"routed", "keyed"} /\ (\A j \in Conns : k \notin crossed[j])
            => link[k].cur = aSeed

(* A handshake begun after a Resume opened has copied later seeds than the *)
(* one that Resume was on.                                                 *)
CopiesLater ==
    \A k, m \in Conns :
        link[k].agent = "resumed" /\ link[m].agent = "routed" /\ m \notin crossed[k]
            => link[k].key < link[m].cur

(* The agent can open what the client of a handshake under way sends, or   *)
(* has sent, as its Resume.                                                *)
ResumeKnown ==
    outdated = 0 =>
        \A k \in Conns :
            /\ link[k].agent \in {"routed", "keyed"}
            /\ link[k].client = "handshake" \/ "Resume" \in link[k].sent
            => link[k].key \in {link[k].cur, link[k].prev}

AgreeInv ==
    /\ AheadInv /\ KeysPast /\ Untouched
    /\ CopiesFresh /\ CopiesLater /\ ResumeKnown /\ SeedAgreement

(***************************************************************************)
(* AgentOpensResume: a Resume on the present copy moves the agent on, one  *)
(* on the previous copy leaves it where it is, however old the copies are. *)
(***************************************************************************)
LEMMA ResumeMoves ==
    ASSUME AheadInv, NEW k \in Conns, AgentOpensResume(k)
    PROVE  \/ /\ link[k].key = link[k].cur /\ link[k].cur = aSeed
              /\ aSeed' = aSeed + 1 /\ aPrev' = aSeed /\ outdated' = outdated
           \/ /\ link[k].cur # aSeed
              /\ aSeed' = aSeed + 1 /\ aPrev' = aSeed /\ outdated' = outdated + 1
           \/ aSeed' = aSeed /\ aPrev' = aPrev /\ outdated' = outdated
  <1>1. aSeed \in Nat /\ aPrev = aSeed - 1 /\ outdated \in Nat
    BY DEF AheadInv, TypeOK, Consecutive
  <1>2. /\ ConfirmResume(link[k].key # link[k].cur)
        /\ outdated' = outdated + (IF link[k].key = link[k].cur /\ link[k].cur # aSeed THEN 1 ELSE 0)
    BY DEF AgentOpensResume
  <1>3. CASE link[k].key = link[k].cur
    BY <1>1, <1>2, <1>3 DEF ConfirmResume
  <1>4. CASE link[k].key # link[k].cur
    BY <1>1, <1>2, <1>4 DEF ConfirmResume
  <1> QED BY <1>3, <1>4

(***************************************************************************)
(* AgreeInv is inductive, action by action.                                *)
(***************************************************************************)
LEMMA AgreeInductive == AgreeInv /\ [Next]_vars => AgreeInv'
  <1> SUFFICES ASSUME AgreeInv, [Next]_vars
               PROVE  AgreeInv'
    OBVIOUS
  <1> USE DEF AgreeInv
  <1>0. AheadInv /\ AheadInv' /\ TypeOK /\ TypeOK' /\ OnlyTheLast
    BY AheadInductive DEF AheadInv
  <1>1. CASE ClientConnects
    <2>0. /\ used + 1 \in Conns /\ cSeed' = cSeed /\ aSeed' = aSeed /\ aPrev' = aPrev
          /\ crossed' = crossed /\ outdated' = outdated /\ cSeed \in Nat
      BY <1>0, <1>1, ConnsAssumption DEF TypeOK, Conns, ClientConnects
    <2>a. ASSUME NEW j \in Conns
          PROVE  /\ link'[j].sent = link[j].sent /\ link'[j].agent = link[j].agent
                 /\ link'[j].cur = link[j].cur
                 /\ j # used + 1 => link'[j] = link[j]
                 /\ j = used + 1 => link'[j].key = cSeed
      BY <1>0, <1>1 DEF TypeOK, Links, ClientConnects
    <2>b. link[used + 1].agent = "waiting"
      <3>1. used + 1 > used
        BY <1>0 DEF TypeOK
      <3> QED BY <1>0, <2>0, <3>1 DEF OnlyTheLast
    <2>1. KeysPast'
      BY <2>0, <2>a DEF KeysPast
    <2>2. Untouched'
      BY <2>0, <2>a DEF Untouched
    <2>3. CopiesFresh'
      BY <2>0, <2>a DEF CopiesFresh
    <2>4. CopiesLater'
      BY <2>0, <2>a, <2>b DEF CopiesLater
    <2>5. ResumeKnown'
      BY <2>0, <2>a, <2>b DEF ResumeKnown
    <2>6. SeedAgreement'
      BY <2>0 DEF SeedAgreement, SeedsMeet
    <2> QED BY <1>0, <2>1, <2>2, <2>3, <2>4, <2>5, <2>6
  <1>2. ASSUME NEW k \in Conns, ClientAnswersChallenge(k)
        PROVE  AgreeInv'
    <2>1. KeysPast'
      BY <1>0, <1>2 DEF TypeOK, Links, KeysPast, ClientAnswersChallenge, Sent
    <2>2. Untouched'
      BY <1>0, <1>2 DEF TypeOK, Links, Untouched, ClientAnswersChallenge, Sent
    <2>3. CopiesFresh'
      BY <1>0, <1>2 DEF TypeOK, Links, CopiesFresh, ClientAnswersChallenge, Sent
    <2>4. CopiesLater'
      BY <1>0, <1>2 DEF TypeOK, Links, CopiesLater, ClientAnswersChallenge, Sent
    <2>5. ResumeKnown'
      BY <1>0, <1>2 DEF TypeOK, Links, ResumeKnown, ClientAnswersChallenge, Sent
    <2>6. SeedAgreement'
      BY <1>2 DEF SeedAgreement, SeedsMeet, ClientAnswersChallenge
    <2> QED BY <1>0, <2>1, <2>2, <2>3, <2>4, <2>5, <2>6
  <1>3. ASSUME NEW k \in Conns, ClientSendsResume(k)
        PROVE  AgreeInv'
    <2>1. KeysPast'
      BY <1>0, <1>3 DEF TypeOK, Links, KeysPast, ClientSendsResume, Sent
    <2>2. Untouched'
      BY <1>0, <1>3 DEF TypeOK, Links, Untouched, ClientSendsResume, Sent
    <2>3. CopiesFresh'
      BY <1>0, <1>3 DEF TypeOK, Links, CopiesFresh, ClientSendsResume, Sent
    <2>4. CopiesLater'
      BY <1>0, <1>3 DEF TypeOK, Links, CopiesLater, ClientSendsResume, Sent
    <2>5. ResumeKnown'
      BY <1>0, <1>3 DEF TypeOK, Links, ResumeKnown, ClientSendsResume, Sent
    <2>6. SeedAgreement'
      BY <1>3 DEF SeedAgreement, SeedsMeet, ClientSendsResume
    <2> QED BY <1>0, <2>1, <2>2, <2>3, <2>4, <2>5, <2>6
  <1>4. ASSUME NEW k \in Conns, ClientOpensFrame(k)
        PROVE  AgreeInv'
    <2>1. KeysPast'
      BY <1>0, <1>4 DEF TypeOK, Links, KeysPast, ClientOpensFrame
    <2>2. Untouched'
      BY <1>0, <1>4 DEF TypeOK, Links, Untouched, ClientOpensFrame
    <2>3. CopiesFresh'
      BY <1>0, <1>4 DEF TypeOK, Links, CopiesFresh, ClientOpensFrame
    <2>4. CopiesLater'
      BY <1>0, <1>4 DEF TypeOK, Links, CopiesLater, ClientOpensFrame
    <2>5. ResumeKnown'
      BY <1>0, <1>4 DEF TypeOK, Links, ResumeKnown, ClientOpensFrame
    <2>6. SeedAgreement'
      <3>1. /\ cSeed \in Nat /\ aSeed \in Nat /\ outdated \in Nat /\ aPrev = aSeed - 1
            /\ cSeed < aSeed
        BY <1>0, <1>4 DEF AheadInv, TypeOK, OnlyTheLast, Consecutive, AgentMovedFirst, ClientOpensFrame
      <3>2. /\ cSeed' = cSeed + 1 /\ aSeed' = aSeed /\ aPrev' = aPrev
            /\ crossed' = crossed /\ outdated' = outdated
        BY <1>4 DEF ClientOpensFrame
      <3> QED BY <3>1, <3>2 DEF SeedAgreement, SeedsMeet
    <2> QED BY <1>0, <2>1, <2>2, <2>3, <2>4, <2>5, <2>6
  <1>5. ASSUME NEW k \in Conns, ClientDrops(k)
        PROVE  AgreeInv'
    <2>1. KeysPast'
      BY <1>0, <1>5 DEF TypeOK, Links, KeysPast, ClientDrops
    <2>2. Untouched'
      BY <1>0, <1>5 DEF TypeOK, Links, Untouched, ClientDrops
    <2>3. CopiesFresh'
      BY <1>0, <1>5 DEF TypeOK, Links, CopiesFresh, ClientDrops
    <2>4. CopiesLater'
      BY <1>0, <1>5 DEF TypeOK, Links, CopiesLater, ClientDrops
    <2>5. ResumeKnown'
      BY <1>0, <1>5 DEF TypeOK, Links, ResumeKnown, ClientDrops
    <2>6. SeedAgreement'
      BY <1>5 DEF SeedAgreement, SeedsMeet, ClientDrops
    <2> QED BY <1>0, <2>1, <2>2, <2>3, <2>4, <2>5, <2>6
  <1>6. ASSUME NEW k \in Conns, AgentRoutes(k)
        PROVE  AgreeInv'
    <2>1. KeysPast'
      BY <1>0, <1>6 DEF TypeOK, Links, KeysPast, AgentRoutes, Sent
    <2>2. Untouched'
      BY <1>0, <1>6 DEF TypeOK, Links, Untouched, AgentRoutes, Sent
    <2>3. CopiesFresh'
      BY <1>0, <1>6 DEF TypeOK, Links, CopiesFresh, AgentRoutes, Sent
    <2>4. CopiesLater'
      BY <1>0, <1>6 DEF TypeOK, Links, CopiesLater, AheadInv, AgentMovedFirst, AgentRoutes, Sent
    <2>5. ResumeKnown'
      BY <1>0, <1>6 DEF TypeOK, Links, ResumeKnown, SeedAgreement, SeedsMeet, OnlyTheLast, Untouched, AgentRoutes, Sent
    <2>6. SeedAgreement'
      BY <1>6 DEF SeedAgreement, SeedsMeet, AgentRoutes
    <2> QED BY <1>0, <2>1, <2>2, <2>3, <2>4, <2>5, <2>6
  <1>7. ASSUME NEW k \in Conns, AgentAuthenticates(k)
        PROVE  AgreeInv'
    <2>1. KeysPast'
      BY <1>0, <1>7 DEF TypeOK, Links, KeysPast, AgentAuthenticates, Sent
    <2>2. Untouched'
      BY <1>0, <1>7 DEF TypeOK, Links, Untouched, AgentAuthenticates, Sent
    <2>3. CopiesFresh'
      BY <1>0, <1>7 DEF TypeOK, Links, CopiesFresh, AgentAuthenticates, Sent
    <2>4. CopiesLater'
      BY <1>0, <1>7 DEF TypeOK, Links, CopiesLater, AgentAuthenticates, Sent
    <2>5. ResumeKnown'
      BY <1>0, <1>7 DEF TypeOK, Links, ResumeKnown, AgentAuthenticates, Sent
    <2>6. SeedAgreement'
      BY <1>7 DEF SeedAgreement, SeedsMeet, AgentAuthenticates
    <2> QED BY <1>0, <2>1, <2>2, <2>3, <2>4, <2>5, <2>6
  <1>8. ASSUME NEW k \in Conns, AgentOpensResume(k)
        PROVE  AgreeInv'
    <2>0. /\ aSeed \in Nat /\ cSeed \in Nat /\ outdated \in Nat
          /\ cSeed <= aSeed /\ aPrev = aSeed - 1 /\ cSeed' = cSeed
          /\ crossed' = [crossed EXCEPT ![k] = UnderWay \ {k}]
          /\ link[k].agent = "keyed" /\ link'[k].agent \in {"resumed", "closed"}
          /\ link[k].key < aSeed'
      BY <1>0, <1>8, OpenedResume DEF AheadInv, TypeOK, Consecutive, ClientNeverAhead, AgentOpensResume
    <2>a. ASSUME NEW j \in Conns
          PROVE  /\ link'[j].client = link[j].client /\ link'[j].key = link[j].key
                 /\ link'[j].cur = link[j].cur /\ link'[j].prev = link[j].prev
                 /\ link'[j].sent = link[j].sent
                 /\ j # k => link'[j].agent = link[j].agent
      BY <1>0, <1>8, OpenedResume
    <2>c. ASSUME NEW j \in Conns, j # k
          PROVE  /\ crossed'[j] = crossed[j]
                 /\ link[j].agent \in {"routed", "keyed"} => j \in crossed'[k]
      <3>1. DOMAIN crossed = Conns
        BY <1>0 DEF TypeOK
      <3> QED BY <2>0, <2>c, <3>1 DEF UnderWay
    <2>b. crossed[k] = {}
      BY <2>0 DEF Untouched
    <2>1. KeysPast'
      BY <2>0, <2>a DEF KeysPast
    <2>2. Untouched'
      BY <2>0, <2>a, <2>c DEF Untouched
    <2>3. CopiesFresh'
      BY <2>0, <2>a, <2>c DEF CopiesFresh
    <2>4. CopiesLater'
      BY <2>0, <2>a, <2>c DEF CopiesLater
    <2>5. ResumeKnown'
      <3>1. outdated' = 0 => outdated = 0
        BY <1>0, <1>8, <2>0, ResumeMoves
      <3> QED BY <2>0, <2>a, <3>1 DEF ResumeKnown
    <2>6. SeedAgreement'
      <3>1. ASSUME NEW j \in Conns, crossed[j] # {}
            PROVE  crossed'[j] # {}
        BY <2>b, <2>c, <3>1
      <3>2. CASE link[k].key = link[k].cur /\ link[k].cur = aSeed /\ aSeed' = aSeed + 1
                   /\ aPrev' = aSeed /\ outdated' = outdated
        <4>1. link[k].key \in Nat /\ link[k].key <= cSeed
          BY <1>0 DEF TypeOK, Links, KeysPast
        <4>2. cSeed = aSeed
          BY <2>0, <3>2, <4>1
        <4> QED BY <2>0, <3>1, <3>2, <4>2 DEF SeedAgreement, SeedsMeet
      <3>3. CASE link[k].cur # aSeed /\ aSeed' = aSeed + 1 /\ outdated' = outdated + 1
        <4>1. PICK j \in Conns : k \in crossed[j]
          BY <2>0, <3>3 DEF CopiesFresh
        <4>2. crossed'[j] # {}
          BY <3>1, <4>1
        <4>3. aSeed' <= cSeed' + 1 + outdated' /\ outdated' # 0
          BY <2>0, <3>3 DEF SeedAgreement
        <4> QED BY <4>2, <4>3 DEF SeedAgreement
      <3>4. CASE aSeed' = aSeed /\ aPrev' = aPrev /\ outdated' = outdated
        BY <2>0, <3>1, <3>4 DEF SeedAgreement, SeedsMeet
      <3> QED BY <1>0, <1>8, <3>2, <3>3, <3>4, ResumeMoves
    <2> QED BY <1>0, <2>1, <2>2, <2>3, <2>4, <2>5, <2>6
  <1>9. ASSUME NEW k \in Conns, AgentSendsFrame(k)
        PROVE  AgreeInv'
    <2>1. KeysPast'
      BY <1>0, <1>9 DEF TypeOK, Links, KeysPast, AgentSendsFrame, Sent
    <2>2. Untouched'
      BY <1>0, <1>9 DEF TypeOK, Links, Untouched, AgentSendsFrame, Sent
    <2>3. CopiesFresh'
      BY <1>0, <1>9 DEF TypeOK, Links, CopiesFresh, AgentSendsFrame, Sent
    <2>4. CopiesLater'
      BY <1>0, <1>9 DEF TypeOK, Links, CopiesLater, AgentSendsFrame, Sent
    <2>5. ResumeKnown'
      BY <1>0, <1>9 DEF TypeOK, Links, ResumeKnown, AgentSendsFrame, Sent
    <2>6. SeedAgreement'
      BY <1>9 DEF SeedAgreement, SeedsMeet, AgentSendsFrame
    <2> QED BY <1>0, <2>1, <2>2, <2>3, <2>4, <2>5, <2>6
  <1>10. ASSUME NEW k \in Conns, AgentCloses(k)
        PROVE  AgreeInv'
    <2>1. KeysPast'
      BY <1>0, <1>10 DEF TypeOK, Links, KeysPast, AgentCloses
    <2>2. Untouched'
      BY <1>0, <1>10 DEF TypeOK, Links, Untouched, AgentCloses
    <2>3. CopiesFresh'
      BY <1>0, <1>10 DEF TypeOK, Links, CopiesFresh, AgentCloses
    <2>4. CopiesLater'
      BY <1>0, <1>10 DEF TypeOK, Links, CopiesLater, AgentCloses
    <2>5. ResumeKnown'
      BY <1>0, <1>10 DEF TypeOK, Links, ResumeKnown, AgentCloses
    <2>6. SeedAgreement'
      BY <1>10 DEF SeedAgreement, SeedsMeet, AgentCloses
    <2> QED BY <1>0, <2>1, <2>2, <2>3, <2>4, <2>5, <2>6
  <1>11. CASE UNCHANGED vars
    BY <1>0, <1>11 DEF KeysPast, Untouched, CopiesFresh, CopiesLater, ResumeKnown,
                       SeedAgreement, SeedsMeet, vars
  <1> QED
    BY <1>1, <1>2, <1>3, <1>4, <1>5, <1>6, <1>7, <1>8, <1>9, <1>10, <1>11
    DEF Next, ClientStep, AgentStep

(***************************************************************************)
(* AgreeInv holds in every behaviour.                                      *)
(***************************************************************************)
LEMMA Agreeing == Spec => []AgreeInv
  <1>1. Init => AgreeInv
    <2>1. Init => AheadInv
      BY ConnsAssumption DEF Init, AheadInv, TypeOK, Links, Seeds, Messages, NoSeed, Conns,
                             OnlyTheLast, Consecutive, AgentMovedFirst, ClientNeverAhead
    <2> QED BY <2>1 DEF Init, AgreeInv, KeysPast, Untouched, CopiesFresh, CopiesLater,
                        ResumeKnown, SeedAgreement, SeedsMeet
  <1> QED BY <1>1, AgreeInductive, PTL DEF Spec

(***************************************************************************)
(* For every order of the agent's connections and whatever is cut: the     *)
(* agent is ahead of the client by at most one seed and one more for each  *)
(* Resume opened on an outdated copy of the present seed; until there is   *)
(* one, the client is on a seed the agent remembers and every Resume it    *)
(* sends opens; and there is none unless a handshake was under way when    *)
(* another's Resume opened (ConfirmResume, ConfirmAgentFrame, PumpResume). *)
(***************************************************************************)
THEOREM SeedsAgree == Spec => [](SeedAgreement /\ EveryResumeOpens)
  <1>1. AgreeInv => SeedAgreement
    BY DEF AgreeInv
  <1>2. AgreeInv => EveryResumeOpens
    BY DEF AgreeInv, ResumeKnown, EveryResumeOpens
  <1> QED BY <1>1, <1>2, Agreeing, PTL

(***************************************************************************)
(* For every order of the agent's connections: once a connection on a      *)
(* later seed is open, neither the session nor a handshake begun since     *)
(* holds a seed an earlier connection's keys were derived from             *)
(* (AgentSession::ConfirmResume, ResumeAttempt).                           *)
(***************************************************************************)
THEOREM OldSeedsAreForgotten == Spec => []OldSeedsGone
  <1>1. AgreeInv => OldSeedsGone
    <2> SUFFICES ASSUME AgreeInv, NEW j \in Conns, NEW k \in Conns,
                        link[k].agent = "resumed", link[j].key < link[k].key,
                        NEW s \in Held(k) \ {NoSeed}
                 PROVE  s > link[j].key
      BY DEF OldSeedsGone
    <2>1. aSeed \in Nat /\ aPrev = aSeed - 1 /\ link[j].key \in Nat /\ link[k].key \in Nat
          /\ link[k].key < aSeed
      BY DEF AgreeInv, AheadInv, TypeOK, Links, Consecutive, AgentMovedFirst
    <2>2. CASE s \in {aSeed, aPrev}
      BY <2>1, <2>2
    <2>3. CASE s \notin {aSeed, aPrev}
      <3>1. PICK m \in Conns : /\ m \notin crossed[k] /\ link[m].agent = "routed"
                               /\ s \in {link[m].cur, link[m].prev}
        BY <2>3 DEF Held
      <3>2. link[m].cur \in Nat /\ link[m].prev = link[m].cur - 1 /\ link[k].key < link[m].cur
        BY <3>1 DEF AgreeInv, AheadInv, TypeOK, Links, Consecutive, CopiesLater
      <3> QED BY <2>1, <3>1, <3>2
    <2> QED BY <2>2, <2>3
  <1> QED BY <1>1, Agreeing, PTL
===============================================================================
