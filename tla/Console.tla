------------------------------- MODULE Console ------------------------------
(***************************************************************************)
(* The serial console: com1.c and serial.asm under every writer the kernel *)
(* has (kmain's printf calls, the breakpoint handler, isr_handler's panic),*)
(* with the 16550 UART they drive.                                         *)
(*                                                                         *)
(* serial_write_char polls the line status register until "transmitter     *)
(* holding register empty" is set and then writes: check, then act, with   *)
(* nothing held in between.  A trap can be taken between the check and the *)
(* write, its handler polls and writes too, and when it returns the        *)
(* interrupted context writes on the strength of a status read long ago.   *)
(* What makes that harmless is not the poll alone but the transmit FIFO    *)
(* initialize_com1 enabled (FCR = 0xC7): with the FIFO on the status bit   *)
(* says the FIFO is EMPTY, so a stale permission costs one place in it.    *)
(*                                                                         *)
(* The state is that of the machine after initialize_com1, with the IDTR   *)
(* designating interrupt_table (module Boot is about how it gets there).   *)
(***************************************************************************)
EXTENDS Naturals, Sequences, FiniteSets

CONSTANTS
  Vectors,      \* the exception vectors that can be delivered
  Breakpoint,   \* vector 3
  Kmain,        \* stands in the place of a vector for context 1
  MsgLen,       \* MsgLen[v]: the characters a context of that kind prints
  MaxContexts,  \* bound: kmain and at most MaxContexts - 1 traps
  MaxNest,      \* bound: contexts on the stack at once
  FifoDepth     \* places in the UART's transmit FIFO (16 in a 16550)

ASSUME ConsoleAssumption ==
  /\ Breakpoint \in Vectors
  /\ Kmain \notin Vectors
  /\ MsgLen \in [Vectors \cup {Kmain} -> Nat \ {0}]
  /\ MaxContexts \in Nat \ {0}
  /\ MaxNest \in Nat \ {0}
  /\ FifoDepth \in Nat
  /\ MaxNest <= FifoDepth

Contexts == 1 .. MaxContexts
Kinds == Vectors \cup {Kmain}

VARIABLES
  entered,  \* how many contexts have been entered
  stack,    \* the contexts being executed, the innermost last
  vec,      \* vec[c]: what context c handles
  sent,     \* sent[c]: characters of its message c has passed to outb
  pc,       \* pc[c]: "poll", "write" (THRE was seen) or "hcf"
  fifo,     \* the UART's transmit FIFO
  wire      \* the characters that have left on the line

vars == <<entered, stack, vec, sent, pc, fifo, wire>>

Top == stack[Len(stack)]
Complete(c) == sent[c] = MsgLen[vec[c]]

\* Mutants: every context returns at the end of its message; every trap does;
\* no handler is registered.
HasHandlerAlways(v) == TRUE
HasHandlerPanicReturns(v) == v # Kmain
HasHandlerNever(v) == FALSE

\* isr_handler_table has one entry, breakpoint at 0x03.
HasHandler(v) == v = Breakpoint

-----------------------------------------------------------------------------
(* The UART.                                                               *)

\* Mutants: a status bit that means "not full"; the bit inverted.
ReadyWhenNotFull == Len(fifo) < FifoDepth
ReadyInverted == fifo # <<>>

\* inb(COM1 + 5) & 0x20: with the FIFOs enabled, THRE means "FIFO empty".
serial_is_transmit_ready == fifo = <<>>

\* Mutants: the character is written twice; it is written only if the FIFO
\* is still as empty as it was when it was polled.
UartWriteTwice(ch) == fifo' = fifo \o <<ch, ch>>
UartWriteIfStillEmpty(ch) == fifo' = IF fifo = <<>> THEN <<ch>> ELSE fifo

\* outb(COM1, ch): the UART takes the character, or has no room and drops it.
UartWrite(ch) == fifo' = IF Len(fifo) < FifoDepth THEN Append(fifo, ch) ELSE fifo

\* The shift register sends one character.
Transmit ==
  /\ fifo # <<>>
  /\ wire' = Append(wire, Head(fifo))
  /\ fifo' = Tail(fifo)
  /\ UNCHANGED <<entered, stack, vec, sent, pc>>

-----------------------------------------------------------------------------
(* The processor, in its innermost context.                                *)

Init ==
  /\ entered = 1
  /\ stack = <<1>>
  /\ vec = [c \in Contexts |-> Kmain]
  /\ sent = [c \in Contexts |-> 0]
  /\ pc = [c \in Contexts |-> "poll"]
  /\ fifo = <<>>
  /\ wire = <<>>

\* The poll that ends the busy wait of serial_write_char; one that does not
\* is a stuttering step.
PollReady ==
  /\ pc[Top] = "poll"
  /\ ~Complete(Top)
  /\ serial_is_transmit_ready
  /\ pc' = [pc EXCEPT ![Top] = "write"]
  /\ UNCHANGED <<entered, stack, vec, sent, fifo, wire>>

\* serial_write_char's outb, and the return to the caller's next character.
WriteChar ==
  /\ pc[Top] = "write"
  /\ UartWrite(<<Top, sent[Top] + 1>>)
  /\ sent' = [sent EXCEPT ![Top] = @ + 1]
  /\ pc' = [pc EXCEPT ![Top] = "poll"]
  /\ UNCHANGED <<entered, stack, vec, wire>>

\* Mutant: the handler returns in the middle of its message.
ReturnFromTrapEarly ==
  /\ pc[Top] = "poll"
  /\ HasHandler(vec[Top])
  /\ stack' = SubSeq(stack, 1, Len(stack) - 1)
  /\ UNCHANGED <<entered, vec, sent, pc, fifo, wire>>

\* A registered handler returns, so isr_handler and the stub do: iretq.
ReturnFromTrap ==
  /\ pc[Top] = "poll"
  /\ Complete(Top)
  /\ HasHandler(vec[Top])
  /\ stack' = SubSeq(stack, 1, Len(stack) - 1)
  /\ UNCHANGED <<entered, vec, sent, pc, fifo, wire>>

\* kmain's last statement, and that of a panic: hcf().
EnterHcf ==
  /\ pc[Top] = "poll"
  /\ Complete(Top)
  /\ ~HasHandler(vec[Top])
  /\ pc' = [pc EXCEPT ![Top] = "hcf"]
  /\ UNCHANGED <<entered, stack, vec, sent, fifo, wire>>

\* hcf: hlt; jmp hcf.  A trap can wake the processor, nothing else happens.
Hcf == pc[Top] = "hcf" /\ UNCHANGED vars

\* The CPU delivers vector v between any two instructions of the innermost
\* context: the gates are trap gates (0x8F) and nothing masks them.
Trap(v) ==
  /\ entered < MaxContexts
  /\ Len(stack) < MaxNest
  /\ entered' = entered + 1
  /\ vec' = [vec EXCEPT ![entered + 1] = v]
  /\ stack' = Append(stack, entered + 1)
  /\ UNCHANGED <<sent, pc, fifo, wire>>

Cpu == PollReady \/ WriteChar \/ ReturnFromTrap \/ EnterHcf \/ Hcf

Next ==
  \/ PollReady
  \/ WriteChar
  \/ ReturnFromTrap
  \/ EnterHcf
  \/ Hcf
  \/ Transmit
  \/ \E v \in Vectors : Trap(v)

Spec == Init /\ [][Next]_vars

\* The processor keeps executing and the UART's baud clock keeps running;
\* nobody owes the kernel a trap.
FairSpec == Spec /\ WF_vars(Cpu) /\ WF_vars(Transmit)
-----------------------------------------------------------------------------
(* Properties.                                                             *)

TypeOK ==
  /\ entered \in Contexts
  /\ stack \in Seq(Contexts) /\ stack # <<>>
  /\ vec \in [Contexts -> Kinds]
  /\ sent \in [Contexts -> Nat]
  /\ pc \in [Contexts -> {"poll", "write", "hcf"}]
  /\ fifo \in Seq(Contexts \X (Nat \ {0}))
  /\ wire \in Seq(Contexts \X (Nat \ {0}))

\* Contexts that have seen THRE and not yet written.
Granted == {c \in Contexts : pc[c] = "write"}

\* No character is dropped: whenever serial_write_char is about to write,
\* the FIFO has a place, however stale the status it polled.
NoOverrun == pc[Top] = "write" => Len(fifo) < FifoDepth

\* What makes it so: the FIFO's content and the permissions outstanding
\* never exceed the nesting depth, because a permission is only handed out
\* by an empty FIFO, and at most once to each nested context.
PermissionsBounded == Len(fifo) + Cardinality(Granted) <= MaxNest

\* A trap whose vector has no handler silences whatever it interrupted: from
\* then on no context entered before it prints or returns (isr_handler ends
\* in hcf, it never comes back to the stub).
PanicIsFinal ==
  [][\A p \in Contexts :
       (p <= entered /\ vec[p] \in Vectors /\ ~(vec[p] = Breakpoint)) =>
         \A c \in Contexts : c < p => sent'[c] = sent[c] /\ pc'[c] = pc[c]]_vars

\* Lossless, ordered and bracketed: the console implements the transcript,
\* what has been said being what left on the line and what the FIFO holds.
Promise == INSTANCE Transcript WITH log <- wire \o fifo

Lossless == Promise!Spec
Bracketed == Promise!Bracketed
ExactlyOnceInOrder == Promise!ExactlyOnceInOrder

\* A breakpoint is transparent to whoever it interrupts: unless a panic
\* comes on top of it, every context that traps into it gets the CPU back.
BreakpointReturns ==
  \A c \in Contexts :
    (c = Top /\ vec[c] = Breakpoint)
      ~> \/ \A p \in DOMAIN stack : stack[p] # c
         \/ \E p \in DOMAIN stack : vec[stack[p]] \in Vectors \ {Breakpoint}

\* In the end the processor is in hcf and nothing it printed is still in the
\* UART: the last words of a panic do reach the line.
OutputReachesTheLine == <>[](pc[Top] = "hcf" /\ Complete(Top) /\ fifo = <<>>)
=============================================================================
