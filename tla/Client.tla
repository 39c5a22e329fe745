-------------------------------- MODULE Client --------------------------------
(***************************************************************************)
(* Main of src/src/client/client.cpp: the agent is delivered and the keys  *)
(* are exchanged, then the session runs.                                   *)
(***************************************************************************)
EXTENDS Deliver, ClientLink

CONSTANT Me     \* the process whose session is followed

VARIABLE phase

vars == <<procs, cache, cl, peer, typed, agent, shown, conns, phase>>

Init == DeliverInit /\ LinkInit /\ phase = "deliver"

\* Once the bootstrap has its result the other installers no longer matter.
Start ==
    /\ phase = "deliver" /\ procs[Me].client = "up"
    /\ phase' = "run"
    /\ procs' = [p \in Procs |-> [NewProc(CHOOSE h \in Hashes : TRUE) EXCEPT !.client = "up", !.host = "gone"]]
    /\ cache' = [dirs |-> {}, agents |-> {}, whole |-> {}, parts |-> {}]
    /\ UNCHANGED linkVars

Next ==
    \/ phase = "deliver" /\ DeliverNext /\ UNCHANGED <<linkVars, phase>>
    \/ Start
    \/ phase = "run" /\ LinkNext /\ UNCHANGED <<deliverVars, phase>>

Spec == Init /\ [][Next]_vars
=============================================================================
