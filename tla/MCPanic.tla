------------------------------- MODULE MCPanic ------------------------------
(* Panic with kmain and three traps, all of which may nest, a vector of     *)
(* each kind, and a clock whose fields carry every other second.            *)
EXTENDS Panic

CONSTANT NMI  \* a vector without a handler that leaves CR2 alone

MCTimes == {3, 4}
MCVectors == {Breakpoint, PageFault, NMI}
=============================================================================
