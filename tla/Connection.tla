----------------------------- MODULE Connection -----------------------------
(***************************************************************************)
(* A connection from its beginning: the keys are exchanged over ssh        *)
(* (Bootstrap), the client connects and both ends prove themselves         *)
(* (Handshake), and the two channels run (Channel).  What a phase leaves   *)
(* behind that the next does not use is cleared.                           *)
(***************************************************************************)
EXTENDS Bootstrap, Handshake, Channel

VARIABLE phase

vars == <<bootVars, shakeVars, chanVars, phase>>

Init == BootInit /\ ShakeInit /\ ChanInit /\ phase = "bootstrap"

Connect ==
    /\ phase = "bootstrap" /\ \A e \in Ends : boot[e].stage = "done"
    /\ phase' = "handshake"
    /\ FirstConnect(speaks["client"], speaks["agent"])
    /\ boot' = [e \in Ends |-> [stage |-> "over"]] /\ tty' = [e \in Ends |-> <<>>]
    /\ muxed' = "none" /\ noise' = 0
    /\ UNCHANGED <<speaks, chanVars>>

\* Both ends have built their Channel and nothing is under way.
GoLive ==
    /\ phase = "handshake"
    /\ \A e \in Sides : conn[e].stage = "Live" /\ PumpIdle(e) /\ pipe[e] = <<>>
    /\ phase' = "live"
    /\ build' = [client |-> VersionMin, agent |-> VersionMin, grid |-> FALSE, id |-> "ours"]
    /\ conn' = [client |-> NewClient(NoNonce), agent |-> NewAgent]
    /\ seen' = [e \in Sides |-> <<>>]
    /\ left' = [tries |-> 0, changes |-> 0, id |-> "ours"]
    /\ changed' = FALSE /\ agreed' = <<>> /\ speaks' = [e \in Sides |-> VersionMin]
    /\ load' \in Loads
    /\ UNCHANGED <<boot, tty, muxed, noise, pipe, ch, wire, old, cut>>

Next ==
    \/ phase = "bootstrap" /\ BootNext /\ UNCHANGED <<shakeVars, chanVars, phase>>
    \/ Connect
    \/ phase = "handshake" /\ ShakeNext /\ UNCHANGED <<bootVars, chanVars, phase>>
    \/ GoLive
    \/ phase = "live" /\ ChanNext /\ UNCHANGED <<bootVars, shakeVars, phase>>

Spec == Init /\ [][Next]_vars
=============================================================================
