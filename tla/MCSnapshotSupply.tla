-------------------------- MODULE MCSnapshotSupply --------------------------
(* Two connections at a time; a text, a control sequence in pieces, an      *)
(* unfinished DCS and a character of two bytes in pieces.                   *)
EXTENDS SnapshotSupply

MCChunks == {<<"final">>, <<"esc", "[">>, <<"esc", "P", "digit">>, <<"lead1">>, <<"cont", "digit">>}
=============================================================================
