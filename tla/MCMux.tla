--------------------------------- MODULE MCMux ---------------------------------
(* An instance of Mux: up to two agents, of one user. *)
EXTENDS Mux

CONSTANTS a1, a2

MCUidOf == (a1 :> 1) @@ (a2 :> 1)

MCLimits == [registrations |-> 2, perUid |-> 1, connections |-> 2,
             perAddress |-> 1, hello |-> 2]
===============================================================================
