------------------------------ MODULE MCConsole -----------------------------
(* Console with a FIFO of three places, three contexts at once and four in *)
(* all; every message fills the FIFO.                                      *)
EXTENDS Console

CONSTANT NMI  \* a vector without a handler

MCVectors == {Breakpoint, NMI}
MCMsgLen == [v \in MCVectors \cup {Kmain} |-> 3]
=============================================================================
