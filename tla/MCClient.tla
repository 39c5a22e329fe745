------------------------------ MODULE MCClient ------------------------------
(***************************************************************************)
(* Client for TLC.                                                         *)
(***************************************************************************)
EXTENDS Client

MCNoise == {<<"HAVE", "begin">>}
MCTyped == {<<"~">>, <<".">>, <<"cr">>}
=============================================================================
