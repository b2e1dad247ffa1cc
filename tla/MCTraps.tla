------------------------------ MODULE MCTraps -------------------------------
(* Traps for a vector with a handler, one without, and one with an error   *)
(* code; two in progress at once, three in all.                            *)
EXTENDS Traps

MCVectors == {3, 6, 14}
MCErrorCoded == {14}
=============================================================================
