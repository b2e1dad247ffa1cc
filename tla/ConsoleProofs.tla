---------------------------- MODULE ConsoleProofs ---------------------------
(***************************************************************************)
(* The console drops nothing and keeps the promise of module Transcript,   *)
(* for every set of vectors, all message lengths, every number of traps    *)
(* and every nesting depth the transmit FIFO has a place for.              *)
(***************************************************************************)
EXTENDS Console, SequenceTheorems, FunctionTheorems, FiniteSetTheorems, TLAPS

\* A permission to write belongs to a context that is still executing and
\* still has something to say.
GrantInv ==
  \A c \in Contexts :
    pc[c] = "write" => /\ \E i \in DOMAIN stack : stack[i] = c
                       /\ sent[c] # MsgLen[vec[c]]

StackBounds ==
  /\ Len(stack) <= MaxNest
  /\ stack[1] = 1
  /\ vec[1] = Kmain
  /\ \A i \in DOMAIN stack : stack[i] <= entered

CInv == TypeOK /\ StackBounds /\ GrantInv /\ PermissionsBounded

-----------------------------------------------------------------------------
\* The state as functions, for the provers.
LEMMA Shapes ==
  ASSUME TypeOK
  PROVE  /\ Contexts \subseteq Nat
         /\ Len(stack) \in Nat \ {0} /\ DOMAIN stack = 1 .. Len(stack)
         /\ \A i \in DOMAIN stack : stack[i] \in Contexts
         /\ Top \in Contexts
         /\ Len(fifo) \in Nat
<1>1. Contexts \subseteq Nat
  BY ConsoleAssumption DEF Contexts
<1>2. Len(stack) \in Nat \ {0} /\ DOMAIN stack = 1 .. Len(stack)
  BY DEF TypeOK
<1>3. \A i \in DOMAIN stack : stack[i] \in Contexts
  BY DEF TypeOK
<1>4. Top \in Contexts
  BY <1>2, <1>3 DEF Top
<1>5. Len(fifo) \in Nat
  BY LenProperties DEF TypeOK
<1> QED  BY <1>1, <1>2, <1>3, <1>4, <1>5

\* A set whose elements all stand in a sequence has at most its length.
LEMMA OnSequence ==
  ASSUME NEW S, NEW q \in Seq(S), NEW G,
         \A c \in G : \E i \in DOMAIN q : q[i] = c
  PROVE  IsFiniteSet(G) /\ Cardinality(G) <= Len(q)
<1> DEFINE n == Len(q)
           R == {q[i] : i \in 1 .. n}
<1>1. n \in Nat /\ DOMAIN q = 1 .. n
  BY LenProperties
<1>2. IsFiniteSet(1 .. n) /\ Cardinality(1 .. n) = n
  <2> HIDE DEF n
  <2> QED  BY <1>1, FS_Interval
<1>3. [i \in 1 .. n |-> q[i]] \in Surjection(1 .. n, R)
  BY DEF Surjection
<1>4. IsFiniteSet(R) /\ Cardinality(R) <= n
  <2> HIDE DEF R
  <2> QED  BY <1>2, <1>3, FS_Surjection
<1>5. G \in SUBSET R
  BY <1>1
<1>6. IsFiniteSet(G) /\ Cardinality(G) <= Cardinality(R)
  <2> HIDE DEF R
  <2> QED  BY <1>4, <1>5, FS_Subset
<1> QED  BY <1>1, <1>4, <1>6, FS_CardinalityType

\* The contexts that may write are a finite set.
LEMMA GrantedFinite == IsFiniteSet(Granted) /\ Cardinality(Granted) \in Nat
<1>1. IsFiniteSet(Contexts)
  BY FS_Interval, ConsoleAssumption DEF Contexts
<1>2. Granted \in SUBSET Contexts
  BY DEF Granted
<1> QED  BY <1>1, <1>2, FS_Subset, FS_CardinalityType

\* Whoever is about to write finds a place in the FIFO.
LEMMA RoomToWrite ==
  ASSUME CInv, pc[Top] = "write"
  PROVE  Len(fifo) < FifoDepth /\ Len(fifo) + Cardinality(Granted) <= MaxNest
<1>1. Top \in Granted
  BY Shapes DEF CInv, Granted
<1>2. Cardinality(Granted) # 0
  BY <1>1, GrantedFinite, FS_EmptySet
<1>3. Len(fifo) + Cardinality(Granted) <= MaxNest
  BY DEF CInv, PermissionsBounded
<1>4. Len(fifo) \in Nat
  BY Shapes DEF CInv
<1> QED  BY <1>2, <1>3, <1>4, GrantedFinite, ConsoleAssumption

-----------------------------------------------------------------------------
LEMMA InitCInv == Init => CInv
<1> SUFFICES ASSUME Init PROVE CInv
  OBVIOUS
<1>1. TypeOK
  BY ConsoleAssumption DEF Init, TypeOK, Contexts, Kinds
<1>2. StackBounds /\ GrantInv
  BY ConsoleAssumption DEF Init, StackBounds, GrantInv, Contexts
<1>3. PermissionsBounded
  <2>1. Granted = {}
    BY DEF Init, Granted
  <2> QED  BY <2>1, FS_EmptySet, ConsoleAssumption DEF Init, PermissionsBounded
<1> QED  BY <1>1, <1>2, <1>3 DEF CInv

LEMMA PollReadyCInv == ASSUME CInv, PollReady PROVE CInv'
<1> USE DEF CInv
<1>1. Top \in Contexts /\ (\E i \in DOMAIN stack : stack[i] = Top)
  BY Shapes DEF Top
<1>2. /\ UNCHANGED <<entered, stack, vec, sent, fifo, wire>>
      /\ fifo = <<>>
      /\ pc' = [pc EXCEPT ![Top] = "write"]
      /\ sent[Top] # MsgLen[vec[Top]]
  BY DEF PollReady, serial_is_transmit_ready, Complete
<1>3. TypeOK'
  BY <1>1, <1>2 DEF TypeOK
<1>4. StackBounds'
  BY <1>2 DEF StackBounds
<1>5. GrantInv'
  <2> SUFFICES ASSUME NEW c \in Contexts, pc'[c] = "write"
               PROVE  (\E i \in DOMAIN stack : stack[i] = c) /\ sent[c] # MsgLen[vec[c]]
    BY <1>2 DEF GrantInv
  <2>1. CASE c = Top
    BY <2>1, <1>1, <1>2
  <2>2. CASE c # Top
    <3>1. pc[c] = "write"
      BY <2>2, <1>2 DEF TypeOK
    <3> QED  BY <3>1 DEF GrantInv
  <2> QED  BY <2>1, <2>2
<1>6. PermissionsBounded'
  <2> DEFINE G == Granted'
  <2>1. \A c \in G : \E i \in DOMAIN stack : stack[i] = c
    BY <1>2, <1>5 DEF GrantInv, Granted
  <2>2. Cardinality(G) <= Len(stack) /\ Cardinality(G) \in Nat
    <3> HIDE DEF G
    <3> QED  BY <2>1, OnSequence, FS_CardinalityType DEF TypeOK
  <2>3. Len(fifo') = 0 /\ Len(stack) \in Nat
    BY <1>2, Shapes
  <2> QED  BY <2>2, <2>3, ConsoleAssumption DEF PermissionsBounded, StackBounds
<1> QED  BY <1>3, <1>4, <1>5, <1>6

LEMMA WriteCharCInv == ASSUME CInv, WriteChar PROVE CInv'
<1> USE DEF CInv
<1>1. /\ Top \in Contexts /\ pc[Top] = "write"
      /\ Len(fifo) < FifoDepth
      /\ Len(fifo) \in Nat
  BY Shapes, RoomToWrite DEF WriteChar
<1>2. /\ UNCHANGED <<entered, stack, vec, wire>>
      /\ fifo' = Append(fifo, <<Top, sent[Top] + 1>>)
      /\ sent' = [sent EXCEPT ![Top] = @ + 1]
      /\ pc' = [pc EXCEPT ![Top] = "poll"]
  BY <1>1 DEF WriteChar, UartWrite
<1>3. <<Top, sent[Top] + 1>> \in Contexts \X (Nat \ {0})
  BY <1>1 DEF TypeOK
<1>4. /\ fifo' \in Seq(Contexts \X (Nat \ {0}))
      /\ Len(fifo') = Len(fifo) + 1
  BY <1>2, <1>3, AppendProperties DEF TypeOK
<1>5. TypeOK'
  BY <1>1, <1>2, <1>4 DEF TypeOK
<1>6. StackBounds'
  BY <1>2 DEF StackBounds
<1>7. \A c \in Contexts :
        /\ pc'[c] = "write" => pc[c] = "write" /\ c # Top
        /\ c # Top => sent'[c] = sent[c] /\ pc'[c] = pc[c]
  BY <1>1, <1>2 DEF TypeOK
<1>8. GrantInv'
  BY <1>2, <1>7 DEF GrantInv
<1>9. PermissionsBounded'
  <2>1. Granted' = Granted \ {Top}
    BY <1>1, <1>2, <1>7 DEF Granted
  <2>2. Cardinality(Granted') = Cardinality(Granted) - 1
    <3>1. Top \in Granted
      BY <1>1 DEF Granted
    <3>2. Cardinality(Granted \ {Top}) = Cardinality(Granted) - 1
      BY <3>1, GrantedFinite, FS_RemoveElement
    <3> QED  BY <2>1, <3>2
  <2> QED  BY <1>1, <1>4, <2>2, GrantedFinite, ConsoleAssumption DEF PermissionsBounded
<1> QED  BY <1>5, <1>6, <1>8, <1>9

LEMMA ReturnFromTrapCInv == ASSUME CInv, ReturnFromTrap PROVE CInv'
<1> USE DEF CInv
<1> DEFINE n == Len(stack)
<1>1. /\ UNCHANGED <<entered, vec, sent, pc, fifo, wire>>
      /\ stack' = SubSeq(stack, 1, n - 1)
      /\ pc[Top] = "poll" /\ vec[Top] = Breakpoint
  BY DEF ReturnFromTrap, HasHandler
<1>2. n # 1
  BY <1>1, ConsoleAssumption DEF StackBounds, Top
<1>3. n \in Nat /\ n > 1 /\ DOMAIN stack = 1 .. n /\ \A i \in 1 .. n : stack[i] \in Contexts
  BY <1>2, Shapes
<1>4. /\ stack' \in Seq(Contexts)
      /\ Len(stack') = n - 1
      /\ \A i \in 1 .. n - 1 : stack'[i] = stack[i]
  BY <1>1, <1>3, SubSeqProperties
<1>5. DOMAIN stack' = 1 .. n - 1
  BY <1>4, LenProperties
<1>6. stack' # <<>>
  BY <1>3, <1>4
<1>7. TypeOK'
  BY <1>1, <1>4, <1>6 DEF TypeOK
<1>8. StackBounds'
  BY <1>1, <1>3, <1>4, <1>5, ConsoleAssumption DEF StackBounds
<1>9. GrantInv'
  <2> SUFFICES ASSUME NEW c \in Contexts, pc[c] = "write"
               PROVE  (\E i \in DOMAIN stack' : stack'[i] = c) /\ sent[c] # MsgLen[vec[c]]
    BY <1>1 DEF GrantInv
  <2>1. PICK i \in DOMAIN stack : stack[i] = c /\ sent[c] # MsgLen[vec[c]]
    BY DEF GrantInv
  <2>2. i # n
    BY <2>1, <1>1 DEF Top
  <2>3. i \in 1 .. n - 1
    <3> HIDE DEF n
    <3> QED  BY <2>2, <1>3
  <2> QED  BY <2>1, <2>3, <1>4, <1>5
<1>10. PermissionsBounded'
  BY <1>1 DEF PermissionsBounded, Granted
<1> QED  BY <1>7, <1>8, <1>9, <1>10

LEMMA EnterHcfCInv == ASSUME CInv, EnterHcf PROVE CInv'
<1> USE DEF CInv
<1>1. Top \in Contexts
  BY Shapes
<1>2. /\ UNCHANGED <<entered, stack, vec, sent, fifo, wire>>
      /\ pc' = [pc EXCEPT ![Top] = "hcf"] /\ pc[Top] = "poll"
  BY DEF EnterHcf
<1>3. TypeOK' /\ StackBounds'
  BY <1>1, <1>2 DEF TypeOK, StackBounds
<1>4. \A c \in Contexts : pc'[c] = "write" <=> pc[c] = "write"
  BY <1>1, <1>2 DEF TypeOK
<1>5. GrantInv'
  BY <1>2, <1>4 DEF GrantInv
<1>6. PermissionsBounded'
  <2>1. Granted' = Granted
    BY <1>4 DEF Granted
  <2> QED  BY <1>2, <2>1 DEF PermissionsBounded
<1> QED  BY <1>3, <1>5, <1>6

LEMMA TransmitCInv == ASSUME CInv, Transmit PROVE CInv'
<1> USE DEF CInv
<1>1. /\ UNCHANGED <<entered, stack, vec, sent, pc>>
      /\ fifo # <<>> /\ fifo' = Tail(fifo) /\ wire' = Append(wire, Head(fifo))
  BY DEF Transmit
<1>2. /\ Head(fifo) \in Contexts \X (Nat \ {0})
      /\ fifo' \in Seq(Contexts \X (Nat \ {0}))
      /\ Len(fifo') = Len(fifo) - 1
  BY <1>1, HeadTailProperties DEF TypeOK
<1>3. wire' \in Seq(Contexts \X (Nat \ {0}))
  BY <1>1, <1>2, AppendProperties DEF TypeOK
<1>4. TypeOK'
  BY <1>1, <1>2, <1>3 DEF TypeOK
<1>5. StackBounds' /\ GrantInv'
  BY <1>1 DEF StackBounds, GrantInv
<1>6. PermissionsBounded'
  <2>1. Granted' = Granted
    BY <1>1 DEF Granted
  <2>2. Len(fifo) \in Nat
    BY Shapes
  <2> QED  BY <1>2, <2>1, <2>2, GrantedFinite, ConsoleAssumption DEF PermissionsBounded
<1> QED  BY <1>4, <1>5, <1>6

LEMMA TrapCInv == ASSUME CInv, NEW v \in Vectors, Trap(v) PROVE CInv'
<1> USE DEF CInv
<1>1. /\ UNCHANGED <<sent, pc, fifo, wire>>
      /\ entered < MaxContexts /\ entered' = entered + 1
      /\ Len(stack) < MaxNest /\ stack' = Append(stack, entered + 1)
      /\ vec' = [vec EXCEPT ![entered + 1] = v]
  BY DEF Trap
<1>2. entered \in Nat /\ entered + 1 \in Contexts /\ entered >= 1
  BY <1>1, ConsoleAssumption DEF TypeOK, Contexts
<1>3. /\ stack' \in Seq(Contexts) /\ stack' # <<>>
      /\ Len(stack') = Len(stack) + 1
      /\ \A i \in 1 .. Len(stack) : stack'[i] = stack[i]
      /\ stack'[Len(stack) + 1] = entered + 1
  <2> DEFINE e == entered + 1
  <2>1. stack \in Seq(Contexts) /\ e \in Contexts /\ stack' = Append(stack, e)
    BY <1>1, <1>2 DEF TypeOK
  <2> HIDE DEF e
  <2>2. /\ stack' \in Seq(Contexts) /\ stack' # <<>>
        /\ Len(stack') = Len(stack) + 1
        /\ \A i \in 1 .. Len(stack) : stack'[i] = stack[i]
        /\ stack'[Len(stack) + 1] = e
    BY <2>1, AppendProperties
  <2> QED  BY <2>2 DEF e
<1>4. /\ DOMAIN stack = 1 .. Len(stack) /\ Len(stack) \in Nat \ {0}
      /\ DOMAIN stack' = 1 .. Len(stack) + 1
      /\ \A i \in DOMAIN stack : stack[i] \in Nat
  BY <1>3, Shapes, LenProperties
<1>5. TypeOK'
  BY <1>1, <1>2, <1>3 DEF TypeOK, Kinds
<1>6. \A i \in DOMAIN stack : i \in DOMAIN stack' /\ stack'[i] = stack[i]
  BY <1>3, <1>4
<1>7. \A c \in Contexts : c # entered + 1 => vec'[c] = vec[c]
  BY <1>1 DEF TypeOK
<1>8. StackBounds'
  <2>1. Len(stack') <= MaxNest
    BY <1>1, <1>3, <1>4, ConsoleAssumption
  <2>2. stack'[1] = 1 /\ 1 \in Contexts
    BY <1>4, <1>6, Shapes DEF StackBounds
  <2>3. vec'[1] = Kmain
    BY <2>2, <1>2, <1>7 DEF StackBounds
  <2>4. \A i \in DOMAIN stack' : stack'[i] <= entered'
    BY <1>1, <1>2, <1>3, <1>4 DEF StackBounds
  <2> QED  BY <2>1, <2>2, <2>3, <2>4 DEF StackBounds
<1>9. GrantInv'
  <2> SUFFICES ASSUME NEW c \in Contexts, pc[c] = "write"
               PROVE  (\E i \in DOMAIN stack' : stack'[i] = c) /\ sent[c] # MsgLen[vec'[c]]
    BY <1>1 DEF GrantInv
  <2>1. PICK i \in DOMAIN stack : stack[i] = c /\ sent[c] # MsgLen[vec[c]]
    BY DEF GrantInv
  <2>2. c <= entered
    BY <2>1 DEF StackBounds
  <2>3. vec'[c] = vec[c]
    BY <2>2, <1>2, <1>7
  <2> QED  BY <2>1, <2>3, <1>6
<1>10. PermissionsBounded'
  BY <1>1 DEF PermissionsBounded, Granted
<1> QED  BY <1>5, <1>8, <1>9, <1>10

LEMMA CInvAlways == Spec => []CInv
<1>1. CInv /\ [Next]_vars => CInv'
  <2> SUFFICES ASSUME CInv, [Next]_vars PROVE CInv'
    OBVIOUS
  <2>1. CASE PollReady  BY <2>1, PollReadyCInv
  <2>2. CASE WriteChar  BY <2>2, WriteCharCInv
  <2>3. CASE ReturnFromTrap  BY <2>3, ReturnFromTrapCInv
  <2>4. CASE EnterHcf  BY <2>4, EnterHcfCInv
  <2>5. CASE Transmit  BY <2>5, TransmitCInv
  <2>6. CASE \E v \in Vectors : Trap(v)  BY <2>6, TrapCInv
  <2>7. CASE Hcf \/ UNCHANGED vars
    <3>1. UNCHANGED vars
      BY <2>7 DEF Hcf, vars
    <3> QED
      BY <3>1, SMTT(30) DEF vars, CInv, TypeOK, StackBounds, GrantInv, PermissionsBounded, Granted
  <2> QED  BY <2>1, <2>2, <2>3, <2>4, <2>5, <2>6, <2>7 DEF Next
<1> QED  BY InitCInv, <1>1, PTL DEF Spec

\* Every variable keeps its type.
THEOREM ConsoleTypeOK == Spec => []TypeOK
<1>1. CInv => TypeOK
  BY DEF CInv
<1> QED  BY <1>1, CInvAlways, PTL

\* The FIFO's content and the write permissions outstanding never exceed the
\* nesting depth.
THEOREM ConsolePermissionsBounded == Spec => []PermissionsBounded
<1>1. CInv => PermissionsBounded
  BY DEF CInv
<1> QED  BY <1>1, CInvAlways, PTL

\* serial_write_char never writes to a full FIFO, however many traps came
\* between its poll and its outb.
THEOREM ConsoleNoOverrun == Spec => []NoOverrun
<1>1. CInv => NoOverrun
  BY RoomToWrite DEF NoOverrun
<1> QED  BY <1>1, CInvAlways, PTL

-----------------------------------------------------------------------------
(* The console implements the transcript.                                  *)

LEMMA Relies == Promise!TranscriptAssumption
  BY ConsoleAssumption DEF Promise!TranscriptAssumption

LEMMA InitMaps == Init => Promise!Init
<1> SUFFICES ASSUME Init PROVE Promise!Init
  OBVIOUS
<1>1. wire \o fifo = <<>>
  BY ConcatEmptySeq, EmptySeq DEF Init
<1> QED  BY <1>1 DEF Init, Promise!Init, Contexts, Promise!Contexts

\* The character serial_write_char passes to the UART is what is said.
LEMMA WriteCharMaps == ASSUME CInv, WriteChar PROVE Promise!Say
<1> DEFINE Chars == Contexts \X (Nat \ {0})
           ch == <<Top, sent[Top] + 1>>
<1>1. /\ Len(fifo) < FifoDepth
      /\ Top \in Contexts /\ sent[Top] # MsgLen[vec[Top]]
  BY RoomToWrite, Shapes DEF WriteChar, CInv, GrantInv
<1>2. /\ fifo' = Append(fifo, ch) /\ wire' = wire
      /\ sent' = [sent EXCEPT ![Top] = @ + 1]
      /\ UNCHANGED <<entered, stack, vec>>
  BY <1>1 DEF WriteChar, UartWrite
<1>3. fifo \in Seq(Chars) /\ wire \in Seq(Chars) /\ ch \in Chars
  BY <1>1 DEF CInv, TypeOK
<1>4. wire \o Append(fifo, ch) = Append(wire \o fifo, ch)
  <2> HIDE DEF Chars, ch
  <2> DEFINE cs == <<ch>>
  <2>1. cs \in Seq(Chars)
    BY <1>3
  <2>2. Append(fifo, ch) = fifo \o cs
    BY <1>3, AppendIsConcat
  <2>3. wire \o fifo \in Seq(Chars)
    BY <1>3, ConcatProperties
  <2>4. Append(wire \o fifo, ch) = (wire \o fifo) \o cs
    BY <1>3, <2>3, AppendIsConcat
  <2>5. (wire \o fifo) \o cs = wire \o (fifo \o cs)
    <3> HIDE DEF cs
    <3> QED  BY <1>3, <2>1, ConcatAssociative
  <2> QED  BY <2>2, <2>4, <2>5
<1>5. (wire \o fifo)' = Append(wire \o fifo, ch)
  BY <1>2, <1>4
<1> QED  BY <1>1, <1>2, <1>5 DEF Promise!Say, Promise!Top, Promise!Complete, Top

\* What the shift register sends was said already.
LEMMA TransmitMaps == ASSUME CInv, Transmit PROVE UNCHANGED Promise!tvars
<1> DEFINE Chars == Contexts \X (Nat \ {0})
           h == Head(fifo)
           t == Tail(fifo)
<1>1. /\ fifo # <<>> /\ fifo' = t /\ wire' = Append(wire, h)
      /\ UNCHANGED <<entered, stack, vec, sent>>
  BY DEF Transmit
<1>2. fifo \in Seq(Chars) /\ wire \in Seq(Chars)
  BY DEF CInv, TypeOK
<1> HIDE DEF Chars
<1>3. h \in Chars /\ t \in Seq(Chars) /\ <<h>> \in Seq(Chars)
  BY <1>1, <1>2, HeadTailProperties
<1>4. <<h>> \o t = fifo
  BY <1>1, <1>2, <1>3, ConcatSimplifications
<1>5. Append(wire, h) \o t = wire \o fifo
  <2> DEFINE hs == <<h>>
  <2>1. hs \in Seq(Chars) /\ t \in Seq(Chars) /\ wire \in Seq(Chars)
    BY <1>2, <1>3
  <2>2. Append(wire, h) = wire \o hs
    BY <1>2, <1>3, AppendIsConcat
  <2>3. (wire \o hs) \o t = wire \o (hs \o t)
    <3> HIDE DEF hs, t
    <3> QED  BY <2>1, ConcatAssociative
  <2> QED  BY <1>4, <2>2, <2>3
<1> QED  BY <1>1, <1>5 DEF Promise!tvars

LEMMA StepMaps == ASSUME CInv, [Next]_vars PROVE [Promise!Next]_(Promise!tvars)
<1>1. CASE WriteChar
  BY <1>1, WriteCharMaps DEF Promise!Next
<1>2. CASE ReturnFromTrap
  BY <1>2 DEF ReturnFromTrap, HasHandler, Complete, Top,
              Promise!Next, Promise!Leave, Promise!Complete, Promise!Top
<1>3. CASE \E v \in Vectors : Trap(v)
  BY <1>3 DEF Trap, Promise!Next, Promise!Enter
<1>4. CASE Transmit
  BY <1>4, TransmitMaps
<1>5. CASE PollReady \/ EnterHcf \/ Hcf \/ UNCHANGED vars
  BY <1>5 DEF PollReady, EnterHcf, Hcf, vars, Promise!tvars
<1> QED  BY <1>1, <1>2, <1>3, <1>4, <1>5 DEF Next

\* com1.c over the UART is lossless, ordered and bracketed.
THEOREM ConsoleLossless == Spec => Lossless
<1>1. CInv /\ [Next]_vars => [Promise!Next]_(Promise!tvars)
  BY StepMaps
<1> QED  BY InitMaps, <1>1, CInvAlways, PTL DEF Spec, Lossless, Promise!Spec

-----------------------------------------------------------------------------
(* What follows from the transcript's own theorems.                        *)

T == INSTANCE TranscriptProofs WITH log <- wire \o fifo

LEMMA TSpec == Spec => T!Spec
<1>1. CInv /\ [Next]_vars => [T!Next]_(T!tvars)
  <2> SUFFICES ASSUME CInv, [Next]_vars PROVE [T!Next]_(T!tvars)
    OBVIOUS
  <2>1. [Promise!Next]_(Promise!tvars)
    BY StepMaps
  <2> QED  BY <2>1 DEF Promise!Next, Promise!Say, Promise!Leave, Promise!Enter,
                      Promise!Top, Promise!Complete, Promise!tvars,
                      T!Next, T!Say, T!Leave, T!Enter, T!Top, T!Complete, T!tvars
<1>2. Init => T!Init
  BY InitMaps DEF Promise!Init, Promise!Contexts, T!Init, T!Contexts
<1> QED  BY <1>1, <1>2, CInvAlways, PTL DEF Spec, T!Spec

LEMMA TInv == Spec => []T!TInv
<1>1. T!TranscriptAssumption
  BY ConsoleAssumption DEF T!TranscriptAssumption
<1> QED  BY <1>1, TSpec, T!TInvAlways, PTL

\* What left on the line and waits in the FIFO is bracketed.
THEOREM ConsoleBracketed == Spec => []Bracketed
<1>1. T!TInv => Bracketed
  BY DEF T!TInv, T!Bracketed, T!Complete, Bracketed, Promise!Bracketed, Promise!Complete
<1> QED  BY <1>1, TInv, PTL

\* Every character passed to outb is on the line or in the FIFO exactly once,
\* in the order its context printed it.
THEOREM ConsoleExactlyOnce == Spec => []ExactlyOnceInOrder
<1>1. T!TInv => ExactlyOnceInOrder
  BY DEF T!TInv, T!ExactlyOnceInOrder, T!Contexts, ExactlyOnceInOrder,
         Promise!ExactlyOnceInOrder, Promise!Contexts
<1> QED  BY <1>1, TInv, PTL

\* After a panic no context it interrupted prints or moves again.
THEOREM ConsolePanicIsFinal == Spec => PanicIsFinal
<1> DEFINE Frozen ==
      \A p \in Contexts :
       (p <= entered /\ vec[p] \in Vectors /\ ~(vec[p] = Breakpoint)) =>
         \A c \in Contexts : c < p => sent'[c] = sent[c] /\ pc'[c] = pc[c]
<1>1. ASSUME CInv, T!TInv, [Next]_vars PROVE [Frozen]_vars
  <2> SUFFICES ASSUME NEW p \in Contexts,
                      p <= entered, vec[p] \in Vectors, vec[p] # Breakpoint,
                      NEW c \in Contexts, c < p
               PROVE  sent'[c] = sent[c] /\ pc'[c] = pc[c]
    OBVIOUS
  <2>1. PICK i \in DOMAIN stack : stack[i] = p
    <3>1. p \in Nat \ {0} /\ entered \in Nat
      BY <1>1, ConsoleAssumption DEF CInv, TypeOK, Contexts
    <3>2. p \in 1 .. entered
      BY <3>1
    <3> QED  BY <1>1, <3>2 DEF T!TInv, T!StackInv
  <2>2. p <= Top
    BY <1>1, Relies, T!TopIsLatest, <2>1
       DEF T!TInv, T!Top, Top, T!TranscriptAssumption, Promise!TranscriptAssumption
  <2>3. c # Top
    BY <1>1, <2>2, Shapes DEF CInv
  <2>4. CASE PollReady \/ EnterHcf
    BY <1>1, <2>3, <2>4 DEF PollReady, EnterHcf, CInv, TypeOK
  <2>5. CASE WriteChar
    BY <1>1, <2>3, <2>5 DEF WriteChar, CInv, TypeOK
  <2>6. CASE ReturnFromTrap \/ Hcf \/ Transmit \/ UNCHANGED vars
    BY <2>6 DEF ReturnFromTrap, Hcf, Transmit, vars
  <2>7. CASE \E v \in Vectors : Trap(v)
    BY <2>7 DEF Trap
  <2> QED  BY <1>1, <2>4, <2>5, <2>6, <2>7 DEF Next
<1>2. [][Frozen]_vars => PanicIsFinal
  BY DEF PanicIsFinal
<1> QED  BY <1>1, <1>2, CInvAlways, TInv, PTL DEF Spec
=============================================================================
