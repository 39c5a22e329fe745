-------------------------- MODULE Connection_proofs --------------------------
(***************************************************************************)
(* Proofs about a connection from its beginning, for every value of the    *)
(* limits and bounds: what holds of two channels that run (Channel_proofs) *)
(* and of two ends that shake hands (Handshake_proofs) holds of a          *)
(* connection that goes through its bootstrap and its handshake.           *)
(***************************************************************************)
EXTENDS Connection, Channel_proofs, Handshake_proofs
-------------------------------------------------------------------------------
(* The channels *)

(* Until the handshake is over the channels are new and wait for an owner. *)
Untouched ==
    /\ ch = [e \in Ends |-> NewChannel(e)]
    /\ wire = [e \in Ends |-> <<>>] /\ old = [e \in Ends |-> 0] /\ cut = FALSE

LiveInv == ChanInv /\ (phase # "live" => Untouched)

LEMMA LiveInit == Init => LiveInv
  <1> SUFFICES ASSUME Init PROVE LiveInv
    OBVIOUS
  <1>1. ChanStart
    BY OffsetMaxAssumption DEF Init, ChanInit, ChanStart
  <1>2. Untouched
    BY DEF Init, ChanInit, Untouched
  <1> QED BY <1>1, <1>2, StartOK DEF LiveInv

LEMMA StartedOK == ChanStart' => ChanInv'
  BY StartOK, PTL

LEMMA LiveStep == LiveInv /\ [Next]_vars => LiveInv'
  <1> SUFFICES ASSUME LiveInv, [Next]_vars PROVE LiveInv'
    OBVIOUS
  <1>1. CASE UNCHANGED <<chanVars, phase>>
    <2>1. ChanInv'
      BY <1>1, ChanStep DEF LiveInv
    <2> QED BY <1>1, <2>1 DEF LiveInv, Untouched, chanVars
  <1>2. CASE Connect
    <2>1. UNCHANGED chanVars /\ phase = "bootstrap"
      BY <1>2 DEF Connect
    <2>2. ChanInv'
      BY <2>1, ChanStep DEF LiveInv
    <2> QED BY <2>1, <2>2 DEF LiveInv, Untouched, chanVars
  <1>3. CASE GoLive
    <2>1. /\ ch' = ch /\ wire' = wire /\ old' = old /\ cut' = cut /\ load' \in Loads
          /\ phase = "handshake" /\ phase' = "live"
      BY <1>3 DEF GoLive
    <2>2. load' \in [agent : 0..OffsetMax, client : 0..OffsetMax, stalls : Nat]
      BY <2>1, TimesAssumption
    <2>3. ChanStart'
      BY <2>1, <2>2 DEF LiveInv, Untouched, ChanStart
    <2> QED BY <2>1, <2>3, StartedOK DEF LiveInv
  <1>4. CASE phase = "live" /\ ChanNext /\ phase' = phase
    BY <1>4, ChanStep DEF LiveInv
  <1> QED BY <1>1, <1>2, <1>3, <1>4 DEF Next, vars

LEMMA Live == Spec => []LiveInv
  BY LiveInit, LiveStep, PTL DEF Spec

(***************************************************************************)
(* NoFalseSilence, for every choice of the timers that has a keepalive and *)
(* the tick it may travel within PEER_SILENCE_TIMEOUT: as long as the path *)
(* works, Poll never closes a connection as silent.                        *)
(***************************************************************************)
THEOREM PathsStayOpen == Spec => []NoFalseSilence
  BY Live, ChanSafe, PTL DEF LiveInv

(***************************************************************************)
(* SilenceIsNoticed: no channel waits longer than PEER_SILENCE_TIMEOUT,    *)
(* with its queue full or not (NextDeadline).                              *)
(***************************************************************************)
THEOREM SilenceEndsThem == Spec => []SilenceIsNoticed
  BY Live, ChanSafe, PTL DEF LiveInv

(***************************************************************************)
(* NoLostWakeup: a loop that sleeps with room to send has nothing to send, *)
(* is in time for its keepalive, and what it has taken is acknowledged or  *)
(* its Ack timer runs (PollOnce, SetSendGate, NextDeadline).               *)
(***************************************************************************)
THEOREM LoopsSleepWithNothingDue == Spec => []NoLostWakeup
  BY Live, ChanSafe, PTL DEF LiveInv

(***************************************************************************)
(* EveryFrameOpens, for every number of frames and bytes to a key and      *)
(* every number of epochs: Open, Acknowledge and Receive refuse nothing a  *)
(* channel sends, however rekeys and frames in flight interleave.          *)
(***************************************************************************)
THEOREM HonestFramesOpen == Spec => []EveryFrameOpens
  BY Live, ChanSafe, PTL DEF LiveInv
-------------------------------------------------------------------------------
(* The handshake *)

(* Outside of its phase nothing is left of a handshake.                    *)
HandsInv ==
    /\ ShakeInv /\ (phase # "handshake" => ShakeStart)
    /\ speaks["client"] \in Nat /\ speaks["agent"] \in Nat

LEMMA HandsInit == Init => HandsInv
  <1> SUFFICES ASSUME Init PROVE HandsInv
    OBVIOUS
  <1>1. NewEnds
    BY DEF Init, ShakeInit, NewEnds
  <1>2. /\ left \in [tries : Nat, changes : Nat, id : {"ours", "other"}]
        /\ build.client \in Nat /\ build.agent \in Nat
    BY DEF Init, ShakeInit, VersionMin
  <1>3. ShakeStart
    BY <1>1, <1>2 DEF Init, ShakeInit, ShakeStart
  <1>4. speaks["client"] \in Nat /\ speaks["agent"] \in Nat
    <2>1. speaks \in [client : 1..255, agent : 1..255]
      BY BootAssumption DEF Init, BootInit
    <2> QED BY <2>1
  <1> QED BY <1>3, <1>4, ShakeStarts DEF HandsInv

LEMMA StartsNext == ShakeStart' => ShakeInv'
  BY ShakeStarts, PTL

LEMMA HandsStep == HandsInv /\ [Next]_vars => HandsInv'
  <1> SUFFICES ASSUME HandsInv, [Next]_vars PROVE HandsInv'
    OBVIOUS
  <1>1. CASE UNCHANGED <<shakeVars, phase>> /\ speaks' = speaks
    <2>1. ShakeInv'
      BY <1>1, ShakeStep DEF HandsInv
    <2> QED BY <1>1, <2>1 DEF HandsInv, ShakeStart, NewEnds, shakeVars
  <1>2. CASE Connect
    <2>1. /\ ShakeStart /\ speaks' = speaks /\ phase' = "handshake"
          /\ left' \in Trials /\ conn' = [client |-> NewClient(1), agent |-> NewAgent]
          /\ UNCHANGED <<seen, pipe, agreed>>
          /\ build' \in [client : {speaks["client"]}, agent : {speaks["agent"]}, grid : BOOLEAN,
                          id : {left'.id}]
      BY <1>2 DEF HandsInv, Connect, FirstConnect
    <2>2. NewEnds'
      BY <2>1 DEF NewEnds
    <2>3. build'.client \in Nat /\ build'.agent \in Nat
      BY <2>1 DEF HandsInv
    <2>4. left' \in [tries : Nat, changes : Nat, id : {"ours", "other"}]
      BY <2>1, HandshakeAssumption
    <2>5. ShakeStart'
      BY <2>1, <2>2, <2>3, <2>4 DEF ShakeStart
    <2> QED BY <2>1, <2>5, StartsNext DEF HandsInv
  <1>3. CASE phase = "handshake" /\ ShakeNext /\ UNCHANGED <<bootVars, phase>>
    <2>1. ShakeInv'
      BY <1>3, ShakeStep DEF HandsInv
    <2> QED BY <1>3, <2>1 DEF HandsInv, bootVars
  <1>4. CASE GoLive
    <2>1. /\ agreed' = <<>> /\ seen' = [e \in Sides |-> <<>>] /\ pipe' = pipe
          /\ left' = [tries |-> 0, changes |-> 0, id |-> "ours"]
          /\ conn' = [client |-> NewClient(NoNonce), agent |-> NewAgent]
          /\ speaks' = [e \in Sides |-> VersionMin]
          /\ build' = [client |-> VersionMin, agent |-> VersionMin, grid |-> FALSE, id |-> "ours"]
      BY <1>4 DEF GoLive
    <2>2. NewEnds'
      BY <2>1 DEF NewEnds
    <2>3. DOMAIN pipe' = Sides /\ \A e \in Sides : pipe'[e] = <<>>
      BY <1>4 DEF GoLive, HandsInv, ShakeInv, ShakeTypeOK
    <2>4. /\ build'.client \in Nat /\ build'.agent \in Nat
          /\ speaks'["client"] \in Nat /\ speaks'["agent"] \in Nat
          /\ left' \in [tries : Nat, changes : Nat, id : {"ours", "other"}]
      BY <2>1 DEF VersionMin, Sides
    <2>5. ShakeStart'
      BY <2>1, <2>2, <2>3, <2>4 DEF ShakeStart
    <2> QED BY <2>4, <2>5, StartsNext DEF HandsInv
  <1>5. CASE BootNext /\ UNCHANGED <<shakeVars, phase>>
    <2>1. speaks' = speaks
      BY <1>5 DEF BootNext, WriteOffer, ClientReads, AgentReads, Answer, ShellPrints, GiveUp
    <2> QED BY <1>1, <1>5, <2>1
  <1> QED BY <1>1, <1>2, <1>3, <1>4, <1>5 DEF Next, vars, bootVars

LEMMA Hands == Spec => []HandsInv
  BY HandsInit, HandsStep, PTL DEF Spec

(***************************************************************************)
(* Agreement, for every number of connections and of messages changed on   *)
(* their way, every pair of versions and every cut of the bytes: what the  *)
(* client accepts in OnAuthOk is the agent's transcript of this            *)
(* connection.                                                             *)
(***************************************************************************)
THEOREM ClientAgreesWithAgent == Spec => []Agreement
  BY Hands, ShakeSafe, PTL DEF HandsInv

(***************************************************************************)
(* FreshKeys, for every size of the nonce memory that holds a connection's *)
(* two: the nonces of two finished handshakes in a row differ, whatever    *)
(* the random generators repeat (NonceMemory, OnHello).                    *)
(***************************************************************************)
THEOREM NoncesAreFresh == Spec => []FreshKeys
  BY Hands, ShakeSafe, PTL DEF HandsInv
=============================================================================
