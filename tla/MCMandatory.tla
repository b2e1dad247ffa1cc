---------------------------- MODULE MCMandatory -----------------------------
(* Mandatory over a small memory: every pair of ranges in it, whatever the *)
(* overlap, and every content.                                             *)
EXTENDS Mandatory

MCBytes == {0, 1, 255}
MCInts == {-1, 257}
=============================================================================
