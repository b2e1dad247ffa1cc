----------------------------- MODULE Transcript -----------------------------
(***************************************************************************)
(* What the kernel's serial console promises to somebody reading the line, *)
(* with no processor, UART or polling in sight.                            *)
(*                                                                         *)
(* Text is produced by contexts.  Context 1 is kmain; every later one is   *)
(* the handling of one trap, entered on top of whatever was executing      *)
(* (the stubs of isr.asm are trap gates on one CPU, so contexts nest).     *)
(* Only the innermost context speaks.  A breakpoint's handler hands the    *)
(* console back after its whole message; every other vector ends in the    *)
(* panic of isr_handler, which never does.                                 *)
(*                                                                         *)
(* The k-th character context c says is <<c, k>>: what the properties      *)
(* need to tell apart is who said it and in which place.                   *)
(***************************************************************************)
EXTENDS Naturals, Sequences

CONSTANTS
  Vectors,     \* the exception vectors that can be delivered
  Breakpoint,  \* vector 3, the one with a registered handler
  Kmain,       \* stands in the place of a vector for context 1
  MsgLen,      \* MsgLen[v]: how many characters a context of that kind says
  MaxContexts  \* bound: kmain and at most MaxContexts - 1 traps

\* What the module relies on; a module that instantiates it establishes this.
TranscriptAssumption ==
  /\ Breakpoint \in Vectors
  /\ Kmain \notin Vectors
  /\ MsgLen \in [Vectors \cup {Kmain} -> Nat \ {0}]
  /\ MaxContexts \in Nat \ {0}

Contexts == 1 .. MaxContexts
Kinds == Vectors \cup {Kmain}

VARIABLES
  log,      \* the characters said so far, in order
  entered,  \* how many contexts have been entered
  stack,    \* the contexts being executed, the innermost last
  vec,      \* vec[c]: what context c handles
  sent      \* sent[c]: how many characters of its message c has said

tvars == <<log, entered, stack, vec, sent>>

Top == stack[Len(stack)]
Complete(c) == sent[c] = MsgLen[vec[c]]

Init ==
  /\ log = <<>>
  /\ entered = 1
  /\ stack = <<1>>
  /\ vec = [c \in Contexts |-> Kmain]
  /\ sent = [c \in Contexts |-> 0]

\* The innermost context says the next character of its message.
Say ==
  /\ ~Complete(Top)
  /\ log' = Append(log, <<Top, sent[Top] + 1>>)
  /\ sent' = [sent EXCEPT ![Top] = @ + 1]
  /\ UNCHANGED <<entered, stack, vec>>

\* A trap suspends the innermost context, wherever it is.
Enter(v) ==
  /\ entered < MaxContexts
  /\ entered' = entered + 1
  /\ vec' = [vec EXCEPT ![entered + 1] = v]
  /\ stack' = Append(stack, entered + 1)
  /\ UNCHANGED <<log, sent>>

\* Only a breakpoint's handler gives the console back.
Leave ==
  /\ vec[Top] = Breakpoint
  /\ Complete(Top)
  /\ stack' = SubSeq(stack, 1, Len(stack) - 1)
  /\ UNCHANGED <<log, entered, vec, sent>>

Next == Say \/ Leave \/ \E v \in Vectors : Enter(v)

Spec == Init /\ [][Next]_tvars

-----------------------------------------------------------------------------
TypeOK ==
  /\ log \in Seq(Contexts \X (Nat \ {0}))
  /\ entered \in Contexts
  /\ stack \in Seq(Contexts) /\ stack # <<>>
  /\ vec \in [Contexts -> Kinds]
  /\ sent \in [Contexts -> Nat]

\* Every character a context has said is in the transcript exactly once, and
\* the characters of one context stand there in the order of its message.
ExactlyOnceInOrder ==
  /\ \A c \in Contexts : \A k \in 1 .. sent[c] : \E i \in DOMAIN log : log[i] = <<c, k>>
  /\ \A i \in DOMAIN log : log[i][2] <= sent[log[i][1]]
  /\ \A i, j \in DOMAIN log :
       i < j /\ log[i][1] = log[j][1] => log[i][2] < log[j][2]

\* The transcript is bracketed: once a context that was entered earlier is
\* heard after a later one, the later one has said its whole message and is
\* gone for good.  So a trap's message is never cut open by the text it cut
\* open, and nothing speaks after an abandoned, half-said message.
Bracketed ==
  \A i, j \in DOMAIN log :
    i < j /\ log[j][1] < log[i][1] =>
      /\ vec[log[i][1]] = Breakpoint
      /\ Complete(log[i][1])
      /\ \A p \in DOMAIN stack : stack[p] # log[i][1]
=============================================================================
