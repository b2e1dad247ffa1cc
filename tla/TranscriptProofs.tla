-------------------------- MODULE TranscriptProofs --------------------------
(***************************************************************************)
(* The transcript keeps its promises, for every set of vectors, every      *)
(* message length and every number of contexts.                            *)
(***************************************************************************)
EXTENDS Transcript, SequenceTheorems, TLAPS

\* What the stack of contexts is: it grows downwards from kmain in order of
\* entry, and whoever has left it said its whole message and was a breakpoint.
StackInv ==
  /\ stack[1] = 1
  /\ vec[1] = Kmain
  /\ \A i, j \in DOMAIN stack : i < j => stack[i] < stack[j]
  /\ \A i \in DOMAIN stack : stack[i] <= entered
  /\ \A c \in 1 .. entered :
       (\A i \in DOMAIN stack : stack[i] # c) => vec[c] = Breakpoint /\ Complete(c)

\* Whoever is in the transcript has been entered.
LogInv == \A i \in DOMAIN log : log[i][1] <= entered /\ log[i][2] <= sent[log[i][1]]

TInv == TypeOK /\ StackInv /\ LogInv /\ ExactlyOnceInOrder /\ Bracketed

-----------------------------------------------------------------------------
\* The initial state satisfies the invariant.
LEMMA InitTInv == ASSUME TranscriptAssumption, Init PROVE TInv
<1>1. TypeOK
  BY DEF TranscriptAssumption, Init, TypeOK, Contexts, Kinds
<1>2. StackInv
  BY DEF TranscriptAssumption, Init, StackInv, Contexts
<1>3. LogInv /\ ExactlyOnceInOrder /\ Bracketed
  BY DEF Init, LogInv, ExactlyOnceInOrder, Bracketed
<1> QED  BY <1>1, <1>2, <1>3 DEF TInv

\* The shape of the stack and of the transcript, as facts about functions.
LEMMA Shapes ==
  ASSUME TranscriptAssumption, TypeOK
  PROVE  /\ Contexts \subseteq Nat
         /\ Len(stack) \in Nat \ {0} /\ DOMAIN stack = 1 .. Len(stack)
         /\ \A i \in DOMAIN stack : stack[i] \in Contexts
         /\ Len(log) \in Nat /\ DOMAIN log = 1 .. Len(log)
         /\ \A i \in DOMAIN log : log[i][1] \in Contexts /\ log[i][2] \in Nat \ {0}
         /\ \A c \in Contexts : sent[c] \in Nat
<1>1. Contexts \subseteq Nat
  BY DEF TranscriptAssumption, Contexts
<1>2. Len(stack) \in Nat \ {0} /\ DOMAIN stack = 1 .. Len(stack)
  BY DEF TypeOK
<1>3. \A i \in DOMAIN stack : stack[i] \in Contexts
  BY DEF TypeOK
<1>4. Len(log) \in Nat /\ DOMAIN log = 1 .. Len(log)
  BY DEF TypeOK
<1>5. \A i \in DOMAIN log : log[i][1] \in Contexts /\ log[i][2] \in Nat \ {0}
  BY DEF TypeOK
<1>6. \A c \in Contexts : sent[c] \in Nat
  BY DEF TypeOK
<1> QED  BY <1>1, <1>2, <1>3, <1>4, <1>5, <1>6

\* The innermost context is the one entered last among those on the stack.
LEMMA TopIsLatest ==
  ASSUME TranscriptAssumption, TypeOK, StackInv
  PROVE  /\ Len(stack) \in DOMAIN stack
         /\ Top \in Contexts
         /\ Top <= entered
         /\ \A i \in DOMAIN stack : stack[i] <= Top
         /\ \A i \in DOMAIN stack : i < Len(stack) => stack[i] < Top
<1>1. /\ Contexts \subseteq Nat
      /\ Len(stack) \in Nat \ {0} /\ DOMAIN stack = 1 .. Len(stack)
      /\ \A i \in DOMAIN stack : stack[i] \in Contexts
  BY Shapes
<1>2. Len(stack) \in DOMAIN stack /\ Top \in Contexts /\ Top <= entered
  BY <1>1 DEF StackInv, Top
<1>3. \A i \in DOMAIN stack : i < Len(stack) => stack[i] < Top
  BY <1>1, <1>2 DEF StackInv, Top
<1>4. ASSUME NEW i \in DOMAIN stack PROVE stack[i] <= Top
  <2>1. Top \in Nat
    BY <1>1, <1>2
  <2>2. CASE i = Len(stack)
    BY <2>1, <2>2 DEF Top
  <2>3. CASE i # Len(stack)
    <3>1. stack[i] \in Nat
      BY <1>1
    <3>2. i < Len(stack)
      <4>1. i \in 1 .. Len(stack) /\ Len(stack) \in Nat
        BY <1>1
      <4> QED  BY <4>1, <2>3
    <3> QED  BY <3>1, <3>2, <2>1, <1>3
  <2> QED  BY <2>2, <2>3
<1> QED  BY <1>2, <1>3, <1>4

\* Saying a character preserves the invariant.
LEMMA SayTInv == ASSUME TranscriptAssumption, TInv, Say PROVE TInv'
<1> USE DEF TInv
<1>1. /\ Top \in Contexts /\ Top <= entered
      /\ \A i \in DOMAIN stack : stack[i] <= Top
      /\ Len(stack) \in DOMAIN stack
  BY TopIsLatest
<1>2. /\ DOMAIN log' = 1 .. Len(log) + 1
      /\ \A i \in DOMAIN log : log'[i] = log[i]
      /\ log'[Len(log) + 1] = <<Top, sent[Top] + 1>>
      /\ DOMAIN log = 1 .. Len(log) /\ Len(log) \in Nat
      /\ \A i \in DOMAIN log : log[i][1] \in Contexts /\ log[i][2] \in Nat \ {0}
  BY SMTT(30) DEF Say, TypeOK
<1>3. TypeOK'
  BY <1>1 DEF Say, TypeOK
<1>4. /\ UNCHANGED <<entered, stack, vec>>
      /\ sent'[Top] = sent[Top] + 1
      /\ \A c \in Contexts : c # Top => sent'[c] = sent[c]
      /\ \A c \in Contexts : sent[c] \in Nat
  BY <1>1 DEF Say, TypeOK
<1>5. StackInv'
  <2>1. \A c \in 1 .. entered : (\A i \in DOMAIN stack : stack[i] # c) => c # Top
    BY <1>1 DEF Top
  <2>2. ASSUME NEW c \in 1 .. entered, \A i \in DOMAIN stack : stack[i] # c
        PROVE  vec[c] = Breakpoint /\ sent'[c] = MsgLen[vec[c]]
    <3>1. c \in Contexts
      <4>1. entered \in 1 .. MaxContexts /\ MaxContexts \in Nat
        BY DEF TypeOK, Contexts, TranscriptAssumption
      <4> QED  BY <4>1 DEF Contexts
    <3> QED  BY <2>1, <2>2, <3>1, <1>4 DEF StackInv, Complete
  <2> QED  BY <1>4, <2>2 DEF StackInv, Complete
<1>6. LogInv'
  BY <1>1, <1>2, <1>4 DEF LogInv
<1>7. ExactlyOnceInOrder'
  <2>1. ASSUME NEW c \in Contexts, NEW k \in 1 .. sent'[c]
        PROVE  \E i \in DOMAIN log' : log'[i] = <<c, k>>
    <3>1. CASE c = Top /\ k = sent[Top] + 1
      BY <3>1, <1>2
    <3>2. CASE ~(c = Top /\ k = sent[Top] + 1)
      <4>1. k \in 1 .. sent[c]
        BY <3>2, <1>1, <1>4
      <4>2. PICK i \in DOMAIN log : log[i] = <<c, k>>
        BY <4>1 DEF ExactlyOnceInOrder
      <4> QED  BY <4>2, <1>2
    <3> QED  BY <3>1, <3>2
  <2>2. \A i \in DOMAIN log' : log'[i][2] <= sent'[log'[i][1]]
    BY <1>1, <1>2, <1>4 DEF LogInv
  <2>3. ASSUME NEW i \in DOMAIN log', NEW j \in DOMAIN log', i < j, log'[i][1] = log'[j][1]
        PROVE  log'[i][2] < log'[j][2]
    <3>1. i \in DOMAIN log
      BY <2>3, <1>2
    <3>2. CASE j \in DOMAIN log
      BY <3>1, <3>2, <2>3, <1>2 DEF ExactlyOnceInOrder
    <3>3. CASE j = Len(log) + 1
      BY <3>1, <3>3, <2>3, <1>2, <1>4, <1>1 DEF LogInv
    <3> QED  BY <3>2, <3>3, <1>2
  <2> QED  BY <2>1, <2>2, <2>3 DEF ExactlyOnceInOrder
<1>8. Bracketed'
  <2> SUFFICES ASSUME NEW i \in DOMAIN log', NEW j \in DOMAIN log',
                      i < j, log'[j][1] < log'[i][1]
               PROVE  /\ vec'[log'[i][1]] = Breakpoint
                      /\ sent'[log'[i][1]] = MsgLen[vec'[log'[i][1]]]
                      /\ \A p \in DOMAIN stack' : stack'[p] # log'[i][1]
    BY DEF Bracketed, Complete
  <2> DEFINE b == log[i][1]
  <2>1. i \in DOMAIN log /\ log'[i][1] = b /\ b \in Contexts /\ b <= entered
    BY <1>2 DEF LogInv
  <2>2. /\ vec[b] = Breakpoint /\ Complete(b)
        /\ \A p \in DOMAIN stack : stack[p] # b
    <3>1. CASE j \in DOMAIN log
      BY <3>1, <2>1, <1>2 DEF Bracketed
    <3>2. CASE j = Len(log) + 1
      <4>1. Top < b
        BY <3>2, <2>1, <1>2
      <4>2. \A p \in DOMAIN stack : stack[p] # b
        BY <4>1, <1>1, <2>1 DEF TypeOK, Contexts
      <4> QED  BY <4>2, <2>1 DEF StackInv, Contexts
    <3> QED  BY <3>1, <3>2, <1>2
  <2>3. b # Top
    BY <2>2, <1>1 DEF Top
  <2> QED  BY <2>1, <2>2, <2>3, <1>4 DEF Complete
<1> QED  BY <1>3, <1>5, <1>6, <1>7, <1>8

\* Entering a context preserves the invariant.
LEMMA EnterTInv ==
  ASSUME TranscriptAssumption, TInv, NEW v \in Vectors, Enter(v) PROVE TInv'
<1> USE DEF TInv
<1>1. /\ entered \in Contexts /\ entered + 1 \in Contexts /\ entered' = entered + 1
      /\ Contexts \subseteq Nat
      /\ vec' = [vec EXCEPT ![entered + 1] = v]
      /\ \A c \in Contexts : c # entered + 1 => vec'[c] = vec[c]
      /\ sent' = sent /\ log' = log
  BY DEF TranscriptAssumption, Enter, TypeOK, Contexts
<1>2. /\ DOMAIN stack = 1 .. Len(stack) /\ Len(stack) \in Nat \ {0}
      /\ DOMAIN stack' = 1 .. Len(stack) + 1
      /\ stack'[Len(stack) + 1] = entered + 1
      /\ \A i \in DOMAIN stack : stack'[i] = stack[i] /\ stack[i] \in Contexts
  BY DEF Enter, TypeOK
<1>3. TypeOK'
  <2>1. stack' \in Seq(Contexts) /\ stack' # <<>>
    BY <1>1, AppendProperties DEF Enter, TypeOK
  <2>2. vec' \in [Contexts -> Kinds]
    BY <1>1 DEF TypeOK, Kinds
  <2> QED  BY <1>1, <2>1, <2>2 DEF TypeOK
<1>4. StackInv'
  <2>1. stack'[1] = 1 /\ vec'[1] = Kmain
    BY <1>1, <1>2 DEF StackInv, Contexts
  <2>2. \A i, j \in DOMAIN stack' : i < j => stack'[i] < stack'[j]
    BY <1>1, <1>2 DEF StackInv, Contexts
  <2>3. \A i \in DOMAIN stack' : stack'[i] <= entered'
    BY <1>1, <1>2 DEF StackInv, Contexts
  <2>4. ASSUME NEW c \in 1 .. entered', \A i \in DOMAIN stack' : stack'[i] # c
        PROVE  vec'[c] = Breakpoint /\ Complete(c)'
    <3>1. c # entered + 1
      BY <2>4, <1>2
    <3>2. c \in 1 .. entered /\ c \in Contexts
      <4>1. entered \in 1 .. MaxContexts /\ MaxContexts \in Nat
        BY <1>1 DEF Contexts, TranscriptAssumption
      <4> QED  BY <3>1, <4>1, <1>1 DEF Contexts
    <3>3. vec[c] = Breakpoint /\ Complete(c)
      BY <3>2, <2>4, <1>2 DEF StackInv
    <3> QED  BY <3>1, <3>2, <3>3, <1>1 DEF Complete
  <2> QED  BY <2>1, <2>2, <2>3, <2>4 DEF StackInv
<1>5. LogInv' /\ ExactlyOnceInOrder'
  <2>1. ExactlyOnceInOrder'
    BY <1>1 DEF ExactlyOnceInOrder
  <2>2. ASSUME NEW i \in DOMAIN log PROVE log[i][1] <= entered + 1
    <3>1. log[i][1] \in Nat /\ log[i][1] <= entered /\ entered \in Nat
      BY <1>1, Shapes DEF LogInv
    <3> QED  BY <3>1
  <2>3. LogInv'
    BY <2>2, <1>1 DEF LogInv
  <2> QED  BY <2>1, <2>3
<1>6. Bracketed'
  <2> SUFFICES ASSUME NEW i \in DOMAIN log, NEW j \in DOMAIN log,
                      i < j, log[j][1] < log[i][1]
               PROVE  /\ vec'[log[i][1]] = Breakpoint
                      /\ sent'[log[i][1]] = MsgLen[vec'[log[i][1]]]
                      /\ \A p \in DOMAIN stack' : stack'[p] # log[i][1]
    BY <1>1 DEF Bracketed, Complete
  <2> DEFINE b == log[i][1]
  <2>1. b \in Contexts /\ b <= entered
    BY DEF TypeOK, LogInv
  <2>2. /\ vec[b] = Breakpoint /\ Complete(b)
        /\ \A p \in DOMAIN stack : stack[p] # b
    BY DEF Bracketed
  <2>3. b # entered + 1
    BY <2>1, <1>1
  <2>4. vec'[b] = Breakpoint /\ sent'[b] = MsgLen[vec'[b]]
    BY <2>1, <2>2, <2>3, <1>1 DEF Complete
  <2>5. \A p \in DOMAIN stack' : stack'[p] # b
    BY <2>2, <2>3, <1>2
  <2> QED  BY <2>4, <2>5
<1> QED  BY <1>3, <1>4, <1>5, <1>6

\* Leaving a context preserves the invariant.
LEMMA LeaveTInv == ASSUME TranscriptAssumption, TInv, Leave PROVE TInv'
<1> USE DEF TInv
<1> DEFINE n == Len(stack)
<1>0. /\ n \in Nat /\ n # 0
      /\ DOMAIN stack = 1 .. n
      /\ \A i \in DOMAIN stack : stack[i] \in Contexts
  BY Shapes
<1>1. /\ n \in DOMAIN stack
      /\ Top \in Contexts
      /\ \A i \in DOMAIN stack : i < n => stack[i] < Top
  BY TopIsLatest
<1>2. n # 1
  BY DEF Leave, StackInv, Top, TranscriptAssumption
<1>3. /\ n \in Nat /\ n > 1 /\ DOMAIN stack = 1 .. n
      /\ stack' \in Seq(Contexts) /\ stack' # <<>>
      /\ DOMAIN stack' = 1 .. n - 1
      /\ \A i \in DOMAIN stack' : i \in DOMAIN stack /\ stack'[i] = stack[i]
  <2>1. /\ n \in Nat /\ n > 1 /\ DOMAIN stack = 1 .. n
        /\ \A i \in 1 .. n : stack[i] \in Contexts
    <3> HIDE DEF TInv, n
    <3> QED  BY <1>0, <1>2
  <2>2. stack' = SubSeq(stack, 1, n - 1)
    BY DEF Leave
  <2>3. /\ stack' \in Seq(Contexts)
        /\ Len(stack') = n - 1
        /\ \A i \in 1 .. n - 1 : stack'[i] = stack[i]
    BY <2>1, <2>2, SubSeqProperties
  <2>4. DOMAIN stack' = 1 .. n - 1
    BY <2>3, LenProperties
  <2> QED  BY <2>1, <2>3, <2>4
<1>4. UNCHANGED <<log, entered, vec, sent>> /\ vec[Top] = Breakpoint /\ Complete(Top)
  BY DEF Leave
<1>5. TypeOK'
  BY <1>3, <1>4 DEF TypeOK
<1>6. StackInv'
  <2>1. ASSUME NEW c \in 1 .. entered, \A i \in DOMAIN stack' : stack'[i] # c
        PROVE  vec[c] = Breakpoint /\ Complete(c)
    <3>1. CASE c = Top
      BY <3>1, <1>4
    <3>2. CASE c # Top
      <4>1. \A i \in DOMAIN stack : stack[i] # c
        BY <3>2, <2>1, <1>3 DEF Top
      <4> QED  BY <4>1 DEF StackInv
    <3> QED  BY <3>1, <3>2
  <2>2. \A i \in DOMAIN stack' : stack'[i] <= entered
    BY <1>3 DEF StackInv
  <2>3. \A i, j \in DOMAIN stack' : i < j => stack'[i] < stack'[j]
    BY <1>3 DEF StackInv
  <2>4. stack'[1] = 1 /\ vec[1] = Kmain
    BY <1>3 DEF StackInv
  <2> QED  BY <2>1, <2>2, <2>3, <2>4, <1>4 DEF StackInv, Complete
<1>7. LogInv' /\ ExactlyOnceInOrder'
  BY <1>4 DEF LogInv, ExactlyOnceInOrder
<1>8. Bracketed'
  BY <1>3, <1>4 DEF Bracketed, Complete
<1> QED  BY <1>5, <1>6, <1>7, <1>8

\* So every behaviour of the transcript satisfies the invariant.
LEMMA TInvAlways == ASSUME TranscriptAssumption PROVE Spec => []TInv
<1>1. Init => TInv
  BY InitTInv
<1>2. TInv /\ [Next]_tvars => TInv'
  <2> SUFFICES ASSUME TInv, [Next]_tvars PROVE TInv'
    OBVIOUS
  <2>1. CASE Say  BY <2>1, SayTInv
  <2>2. CASE Leave  BY <2>2, LeaveTInv
  <2>3. CASE \E v \in Vectors : Enter(v)  BY <2>3, EnterTInv
  <2>4. CASE UNCHANGED tvars
    BY <2>4 DEF tvars, TInv, TypeOK, StackInv, LogInv, ExactlyOnceInOrder, Bracketed, Complete
  <2> QED  BY <2>1, <2>2, <2>3, <2>4 DEF Next
<1> QED  BY <1>1, <1>2, PTL DEF Spec

\* What any context has said is in the transcript exactly once and in order.
THEOREM TranscriptExactlyOnce ==
  ASSUME TranscriptAssumption PROVE Spec => []ExactlyOnceInOrder
<1>1. TInv => ExactlyOnceInOrder
  BY DEF TInv
<1> QED  BY <1>1, TInvAlways, PTL

\* A trap's message is never cut open by the text it interrupted.
THEOREM TranscriptBracketed ==
  ASSUME TranscriptAssumption PROVE Spec => []Bracketed
<1>1. TInv => Bracketed
  BY DEF TInv
<1> QED  BY <1>1, TInvAlways, PTL
=============================================================================
