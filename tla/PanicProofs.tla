----------------------------- MODULE PanicProofs ----------------------------
(***************************************************************************)
(* A panic reads the clock register it selected and prints the fault       *)
(* address it was entered for, for every set of vectors and every number   *)
(* and nesting of traps.                                                   *)
(*                                                                         *)
(* Neither property is inductive: both speak of the innermost context, and *)
(* when a breakpoint handler returns, another one becomes innermost.  What *)
(* is preserved is that they hold of the innermost panic, whatever other   *)
(* contexts stand on top of it.                                            *)
(***************************************************************************)
EXTENDS Panic, SequenceTheorems, TLAPS

\* The contexts on the stack, in the order they were entered.
Shape ==
  /\ entered \in Contexts
  /\ stack \in Seq(Contexts) /\ stack # <<>> /\ stack[1] = 1
  /\ \A p \in 1 .. Len(stack) : stack[p] <= entered
  /\ \A p, q \in 1 .. Len(stack) : p < q => stack[p] < stack[q]
  /\ vec \in [Contexts -> Vectors]
  /\ pc \in [Contexts -> {"run", "hcf"} \cup Fields]
  /\ \A c \in Contexts : c > entered => pc[c] = "run"

\* The place on the stack of the panic that no other one has come on top of.
Innermost(p) ==
  /\ Panicking(stack[p])
  /\ \A q \in 1 .. Len(stack) : q > p => ~Panicking(stack[q])

OnlyPanicsRead == \A c \in Contexts : pc[c] # "run" => Panicking(c)

IndexInv ==
  \A p \in 1 .. Len(stack) :
    Innermost(p) /\ pc[stack[p]] \in Fields => index = RtcIndex(pc[stack[p]])

Cr2Inv ==
  \A p \in 1 .. Len(stack) :
    Innermost(p) /\ vec[stack[p]] = PageFault => cr2 = stack[p]

PInv == Shape /\ OnlyPanicsRead /\ IndexInv /\ Cr2Inv

-----------------------------------------------------------------------------
\* The stack as a function, for the provers.
LEMMA StackShape ==
  ASSUME Shape
  PROVE  /\ Contexts \subseteq Nat
         /\ Len(stack) \in Nat \ {0}
         /\ \A p \in 1 .. Len(stack) : stack[p] \in Contexts
         /\ Top \in Contexts
<1>1. Contexts \subseteq Nat
  BY PanicAssumption DEF Contexts
<1>2. Len(stack) \in Nat \ {0} /\ \A p \in 1 .. Len(stack) : stack[p] \in Contexts
  BY DEF Shape
<1> QED
  BY <1>1, <1>2 DEF Top

\* The innermost panic under a panicking top is the top.
LEMMA TopIsInnermost ==
  ASSUME Shape, Panicking(Top), NEW p \in 1 .. Len(stack), Innermost(p)
  PROVE  p = Len(stack)
BY StackShape DEF Innermost, Top

LEMMA PInit == Init => PInv
<1> SUFFICES ASSUME Init PROVE PInv
  OBVIOUS
<1>1. Len(stack) = 1 /\ stack[1] = 1 /\ 1 \in Contexts
  BY PanicAssumption DEF Init, Contexts
<1>2. Shape
  <2>1. stack \in Seq(Contexts) /\ stack # <<>>
    BY <1>1 DEF Init
  <2>2. vec \in [Contexts -> Vectors] /\ pc \in [Contexts -> {"run", "hcf"} \cup Fields]
    BY PanicAssumption DEF Init
  <2>3. \A c \in Contexts : pc[c] = "run"
    BY DEF Init
  <2> QED
    BY <1>1, <2>1, <2>2, <2>3 DEF Shape, Init
<1>3. OnlyPanicsRead
  BY DEF OnlyPanicsRead, Init
<1>4. IndexInv /\ Cr2Inv
  BY <1>1 DEF IndexInv, Cr2Inv, Innermost, Panicking
<1> QED
  BY <1>2, <1>3, <1>4 DEF PInv

\* A step of the clock, a line of a report: nothing the invariant speaks of.
LEMMA PUnchanged ==
  ASSUME PInv, UNCHANGED <<entered, stack, vec, pc, index, cr2>>
  PROVE  PInv'
BY DEF PInv, Shape, OnlyPanicsRead, IndexInv, Cr2Inv, Innermost, Panicking

\* A step in which the innermost context, a panic, goes to another place of
\* its code: the index must fit if that place is between an outb and an inb.
LEMMA PMoves ==
  ASSUME PInv, UNCHANGED <<entered, stack, vec, cr2>>, Panicking(Top),
         NEW to \in {"run", "hcf"} \cup Fields, pc' = [pc EXCEPT ![Top] = to],
         to \in Fields => index' = RtcIndex(to)
  PROVE  PInv'
<1> USE DEF PInv
<1>1. Top \in Contexts /\ Top <= entered /\ entered \in Nat
  BY StackShape DEF Shape, Top
<1>2. \A c \in Contexts : pc'[c] = IF c = Top THEN to ELSE pc[c]
  BY <1>1 DEF Shape
<1>3. Shape'
  <2>1. pc' \in [Contexts -> {"run", "hcf"} \cup Fields]
    BY DEF Shape
  <2>2. \A c \in Contexts : c > entered => pc'[c] = "run"
    BY <1>1, <1>2, StackShape DEF Shape
  <2> QED
    BY <2>1, <2>2 DEF Shape
<1>4. \A c \in Contexts : Panicking(c)' <=> Panicking(c)
  BY DEF Panicking
<1>5. OnlyPanicsRead'
  BY <1>1, <1>2, <1>4 DEF OnlyPanicsRead
<1>6. \A p \in 1 .. Len(stack) : Innermost(p)' => Innermost(p) /\ stack[p] = Top
  BY <1>4, StackShape, TopIsInnermost DEF Innermost, Top
<1>7. IndexInv'
  BY <1>1, <1>2, <1>6 DEF IndexInv
<1>8. Cr2Inv'
  BY <1>6 DEF Cr2Inv
<1> QED
  BY <1>3, <1>5, <1>7, <1>8

\* A handler returns: the innermost panic, if any, is as innermost as before.
LEMMA PReturns == ASSUME PInv, ReturnFromTrap PROVE PInv'
<1> USE DEF PInv
<1> DEFINE n == Len(stack) - 1
<1>1. Len(stack) \in Nat /\ Len(stack) >= 2
  BY StackShape DEF ReturnFromTrap, Shape, Top
<1>2. Len(stack') = n /\ \A p \in 1 .. n : stack'[p] = stack[p]
  BY <1>1 DEF ReturnFromTrap, Shape
<1>3. Shape'
  <2>1. stack' \in Seq(Contexts) /\ stack' # <<>> /\ stack'[1] = 1
    <3>1. \A p \in 1 .. n : stack[p] \in Contexts
      BY <1>1, StackShape
    <3>2. stack' \in Seq(Contexts)
      BY <1>1, <3>1, SubSeqProperties DEF ReturnFromTrap
    <3> QED
      BY <1>1, <1>2, <3>2 DEF Shape
  <2>2. \A p \in 1 .. n : p \in 1 .. Len(stack)
    BY <1>1
  <2> QED
    BY <1>2, <2>1, <2>2 DEF ReturnFromTrap, Shape
<1>4. ~Panicking(stack[Len(stack)])
  BY DEF ReturnFromTrap, Panicking, Top
<1>5. \A p \in 1 .. n : Innermost(p)' => Innermost(p)
  <2> SUFFICES ASSUME NEW p \in 1 .. n, Innermost(p)',
                      NEW q \in 1 .. Len(stack), q > p
               PROVE  Panicking(stack[p]) /\ ~Panicking(stack[q])
    BY DEF Innermost
  <2>1. Panicking(stack[p])
    BY <1>2 DEF Innermost, Panicking, ReturnFromTrap
  <2>2. CASE q \in 1 .. n
    BY <1>2, <2>1, <2>2 DEF Innermost, Panicking, ReturnFromTrap
  <2>3. CASE q = Len(stack)
    BY <1>4, <2>1, <2>3
  <2> QED
    BY <1>1, <2>2, <2>3
<1>6. \A p \in 1 .. n : p \in 1 .. Len(stack)
  BY <1>1
<1>7. OnlyPanicsRead' /\ IndexInv' /\ Cr2Inv'
  BY <1>2, <1>5, <1>6 DEF OnlyPanicsRead, IndexInv, Cr2Inv, ReturnFromTrap, Panicking, clockvars
<1> QED
  BY <1>3, <1>7

\* A trap: a panic is the new innermost one, and loads CR2 if it is a page
\* fault; a breakpoint leaves everything as it is for the panic below it.
LEMMA PTraps == ASSUME PInv, NEW v \in Vectors, Trap(v) PROVE PInv'
<1> USE DEF PInv
<1> DEFINE n == Len(stack)
           new == entered + 1
           PanicsAfter(c) == c # 1 /\ ~HasHandler(vec'[c])
<1>1. n \in Nat \ {0} /\ Contexts \subseteq Nat /\ entered \in Nat \ {0} /\ new \in Contexts
  BY StackShape, PanicAssumption DEF Trap, Shape, Contexts
<1>2. /\ Len(stack') = n + 1 /\ stack'[n + 1] = new
      /\ \A p \in 1 .. n : stack'[p] = stack[p]
  BY DEF Trap, Shape
<1>3. \A p \in 1 .. n : stack[p] \in Contexts /\ stack[p] \in Nat /\ stack[p] <= entered
  BY StackShape DEF Shape
<1>4. \A c \in Contexts : vec'[c] = IF c = new THEN v ELSE vec[c]
  BY DEF Trap, Shape
<1>5. pc' = pc /\ index' = index /\ pc[new] = "run" /\ entered' = new
  BY <1>1 DEF Trap, Shape, clockvars
<1>6. Shape'
  <2>1. stack' \in Seq(Contexts) /\ stack' # <<>>
    BY <1>1, AppendProperties DEF Trap, Shape
  <2> DEFINE m == n + 1
  <2>2. stack'[1] = 1 /\ \A p \in 1 .. m : stack'[p] <= new
    <3>1. \A p \in 1 .. m : p \in 1 .. n \/ p = m
      BY <1>1
    <3>2. \A p \in 1 .. n : stack[p] <= new
      BY <1>1, <1>3
    <3> QED
      BY <1>1, <1>2, <3>1, <3>2 DEF Shape
  <2>3. \A p, q \in 1 .. m : p < q => stack'[p] < stack'[q]
    <3>1. \A p, q \in 1 .. m : p < q => p \in 1 .. n /\ (q \in 1 .. n \/ q = m)
      BY <1>1
    <3>2. \A p \in 1 .. n : stack[p] < new
      BY <1>1, <1>3
    <3> QED
      BY <1>1, <1>2, <3>1, <3>2 DEF Shape
  <2>4. vec' \in [Contexts -> Vectors]
    BY DEF Trap, Shape
  <2>5. \A c \in Contexts : c > entered' => pc'[c] = "run"
    BY <1>1, <1>5 DEF Shape
  <2> QED
    BY <1>1, <1>2, <1>5, <2>1, <2>2, <2>3, <2>4, <2>5 DEF Shape
<1>7. \A p \in 1 .. n : stack[p] # new /\ vec'[stack[p]] = vec[stack[p]]
                        /\ (PanicsAfter(stack[p]) <=> Panicking(stack[p]))
  <2> SUFFICES ASSUME NEW p \in 1 .. n
               PROVE  stack[p] # new /\ vec'[stack[p]] = vec[stack[p]]
    BY DEF Panicking
  <2>1. stack[p] \in Contexts /\ stack[p] # new
    BY <1>1, <1>3
  <2> QED
    BY <1>4, <2>1
<1>8. OnlyPanicsRead'
  BY <1>1, <1>4, <1>5 DEF OnlyPanicsRead, Panicking
<1>9. \A p \in 1 .. n : Innermost(p)' => Innermost(p) /\ v = Breakpoint
  <2> SUFFICES ASSUME NEW p \in 1 .. n, Innermost(p)'
               PROVE  Innermost(p) /\ v = Breakpoint
    OBVIOUS
  <2>1. PanicsAfter(stack[p]) /\ \A q \in 1 .. n + 1 : q > p => ~PanicsAfter(stack'[q])
    BY <1>1, <1>2 DEF Innermost, Panicking
  <2>2. ~PanicsAfter(new)
    BY <1>1, <1>2, <2>1
  <2>3. v = Breakpoint
    BY <1>1, <1>4, <2>2 DEF HasHandler
  <2>4. Innermost(p)
    <3>1. \A q \in 1 .. n : q > p => ~PanicsAfter(stack[q])
      BY <1>1, <1>2, <2>1
    <3> QED
      BY <1>7, <2>1, <3>1 DEF Innermost
  <2> QED
    BY <2>3, <2>4
<1>10. IndexInv'
  <2> SUFFICES ASSUME NEW p \in 1 .. n + 1, Innermost(p)', pc[stack'[p]] \in Fields
               PROVE  index = RtcIndex(pc[stack'[p]])
    BY <1>2, <1>5 DEF IndexInv
  <2>1. CASE p = n + 1
    BY <1>2, <1>5, <2>1 DEF Fields
  <2>2. CASE p \in 1 .. n
    BY <1>2, <1>9, <2>2 DEF IndexInv
  <2> QED
    BY <1>1, <2>1, <2>2
<1>11. Cr2Inv'
  <2> SUFFICES ASSUME NEW p \in 1 .. n + 1, Innermost(p)', vec'[stack'[p]] = PageFault
               PROVE  cr2' = stack'[p]
    BY <1>2 DEF Cr2Inv
  <2>1. CASE p = n + 1
    BY <1>1, <1>2, <1>4, <2>1 DEF Trap
  <2>2. CASE p \in 1 .. n
    <3>1. Innermost(p) /\ v = Breakpoint /\ vec[stack[p]] = PageFault /\ stack'[p] = stack[p]
      BY <1>2, <1>7, <1>9, <2>2
    <3>2. cr2' = cr2
      BY <3>1, PanicAssumption DEF Trap
    <3> QED
      BY <2>2, <3>1, <3>2 DEF Cr2Inv
  <2> QED
    BY <1>1, <2>1, <2>2
<1> QED
  BY <1>6, <1>8, <1>10, <1>11

LEMMA PNext == PInv /\ [Next]_vars => PInv'
<1> SUFFICES ASSUME PInv, [Next]_vars PROVE PInv'
  OBVIOUS
<1>1. CASE BeginUpdate
  BY <1>1, PUnchanged DEF BeginUpdate
<1>2. CASE EndUpdate
  BY <1>2, PUnchanged DEF EndUpdate
<1>3. ASSUME NEW f \in Fields, Select(f) PROVE PInv'
  BY <1>3, PMoves DEF Select, At
<1>4. CASE Read
  <2>1. Panicking(Top)
    BY <1>4, StackShape DEF Read, PInv, OnlyPanicsRead, Fields
  <2> QED
    BY <1>4, <2>1, PMoves DEF Read, Fields
<1>5. CASE PrintLine
  BY <1>5, PUnchanged DEF PrintLine, clockvars
<1>6. CASE EnterHcf
  BY <1>6, PMoves DEF EnterHcf, Fields
<1>7. CASE ReturnFromTrap
  BY <1>7, PReturns
<1>8. ASSUME NEW v \in Vectors, Trap(v) PROVE PInv'
  BY <1>8, PTraps
<1>9. CASE UNCHANGED vars
  BY <1>9, PUnchanged DEF vars, clockvars
<1> QED
  BY <1>1, <1>2, <1>3, <1>4, <1>5, <1>6, <1>7, <1>8, <1>9 DEF Next

\* An inb of the panic returns the clock register that panic selected: no
\* panic in between has come back with the index register changed.
THEOREM PanicReadsWhatItSelected == Spec => []ReadsWhatItSelected
<1>1. PInv => ReadsWhatItSelected
  <2> SUFFICES ASSUME PInv, pc[Top] \in Fields PROVE index = RtcIndex(pc[Top])
    BY DEF ReadsWhatItSelected
  <2>1. Panicking(Top)
    BY StackShape DEF PInv, OnlyPanicsRead, Fields
  <2>2. Len(stack) \in 1 .. Len(stack) /\ Innermost(Len(stack))
    BY <2>1, StackShape DEF PInv, Innermost, Top
  <2> QED
    BY <2>2 DEF PInv, IndexInv, Top
<1> QED
  BY <1>1, PInit, PNext, PTL DEF Spec

\* The CR2 a page fault's report prints is that of its own fault.
THEOREM PanicPrintsOwnFaultAddress == Spec => []OwnFaultAddress
<1>1. PInv => OwnFaultAddress
  <2> SUFFICES ASSUME PInv, Panicking(Top), vec[Top] = PageFault PROVE cr2 = Top
    BY DEF OwnFaultAddress, At
  <2>1. Len(stack) \in 1 .. Len(stack) /\ Innermost(Len(stack))
    BY StackShape DEF PInv, Innermost, Top
  <2> QED
    BY <2>1 DEF PInv, Cr2Inv, Top
<1> QED
  BY <1>1, PInit, PNext, PTL DEF Spec
-----------------------------------------------------------------------------
\* While no update has come, the clock still shows the time at which the
\* undisturbed panics began to read it, and so does what they have read.
TimeInv ==
  /\ stamp = [c \in Contexts |-> stamp[c]]
  /\ \A c \in DOMAIN began :
       /\ ~updating /\ time = began[c]
       /\ \A f \in DOMAIN stamp[c] : stamp[c][f] = Shown(f, began[c])

\* The index each reading selects is that of its own field.
LEMMA IndexDesignates == \A f \in Fields : RtcRegister[RtcIndex(f)] = f
BY DEF Fields, RtcRegister, RtcIndex

LEMMA TimeUnchanged ==
  ASSUME TimeInv, UNCHANGED <<stamp, time, updating, began>>
  PROVE  TimeInv'
BY DEF TimeInv

\* A first reading begins at the present time, with nothing read yet.
LEMMA TimeSelects == ASSUME TimeInv, NEW f \in Fields, Select(f) PROVE TimeInv'
<1>1. UNCHANGED <<stamp, time, updating>>
  BY DEF Select
<1>2. CASE stamp[Top] = <<>> /\ ~updating
  <2>1. DOMAIN began' = DOMAIN began \cup {Top} /\ began'[Top] = time
        /\ \A c \in DOMAIN began : c # Top => began'[c] = began[c]
    <3>1. began' = With(began, Top, time)
      BY <1>2 DEF Select
    <3> QED
      BY <3>1 DEF With
  <2>2. DOMAIN stamp[Top] = {}
    BY <1>2
  <2> QED
    BY <1>1, <1>2, <2>1, <2>2 DEF TimeInv
<1>3. CASE ~(stamp[Top] = <<>> /\ ~updating)
  BY <1>1, <1>3, TimeUnchanged DEF Select
<1> QED
  BY <1>2, <1>3

\* A reading returns the field selected, of the time now shown.
LEMMA TimeReads == ASSUME PInv, TimeInv, Read PROVE TimeInv'
<1>1. Top \in Contexts /\ pc[Top] \in Fields
  BY StackShape DEF Read, PInv
<1>2. Panicking(Top)
  BY <1>1 DEF PInv, OnlyPanicsRead, Fields
<1>3. index = RtcIndex(pc[Top])
  <2>1. Len(stack) \in 1 .. Len(stack) /\ Innermost(Len(stack))
    BY <1>2, StackShape DEF PInv, Innermost, Top
  <2> QED
    BY <1>1, <2>1 DEF PInv, IndexInv, Top
<1>4. UNCHANGED <<time, updating, began>>
  BY DEF Read, clockvars
<1>5. PICK value \in Data :
        stamp' = [stamp EXCEPT ![Top] = With(@, pc[Top], value)]
  BY DEF Read
<1>6. ~updating => value = Shown(pc[Top], time)
  BY <1>1, <1>3, IndexDesignates DEF Data
<1>7. DOMAIN stamp = Contexts /\ stamp' = [c \in Contexts |-> stamp'[c]]
      /\ stamp'[Top] = With(stamp[Top], pc[Top], value)
      /\ \A c \in Contexts : c # Top => stamp'[c] = stamp[c]
  <2>1. DOMAIN stamp = Contexts
    BY DEF TimeInv
  <2> QED
    BY <1>1, <1>5, <2>1
<1>8. /\ DOMAIN stamp'[Top] = DOMAIN stamp[Top] \cup {pc[Top]}
      /\ stamp'[Top][pc[Top]] = value
      /\ \A f \in DOMAIN stamp[Top] : f # pc[Top] => stamp'[Top][f] = stamp[Top][f]
  BY <1>7 DEF With
<1>9. ASSUME NEW c \in DOMAIN began, NEW f \in DOMAIN stamp'[c]
      PROVE  stamp'[c][f] = Shown(f, began[c])
  <2>1. CASE c = Top /\ f = pc[Top]
    BY <1>6, <1>8, <2>1 DEF TimeInv
  <2>2. CASE c = Top /\ f # pc[Top]
    BY <1>9, <1>8, <2>2 DEF TimeInv
  <2>3. CASE c # Top
    BY <1>5, <1>9, <2>3 DEF TimeInv
  <2> QED
    BY <2>1, <2>2, <2>3
<1> QED
  BY <1>4, <1>7, <1>9 DEF TimeInv

LEMMA TimeNext == PInv /\ TimeInv /\ [Next]_vars => TimeInv'
<1> SUFFICES ASSUME PInv, TimeInv, [Next]_vars PROVE TimeInv'
  OBVIOUS
<1>1. CASE BeginUpdate
  <2>1. began' = <<>> /\ stamp' = stamp
    BY <1>1 DEF BeginUpdate
  <2>2. DOMAIN began' = {}
    BY <2>1
  <2> QED
    BY <2>1, <2>2 DEF TimeInv
<1>2. CASE EndUpdate
  <2>1. DOMAIN began = {}
    BY <1>2 DEF EndUpdate, TimeInv
  <2>2. UNCHANGED <<began, stamp>>
    BY <1>2 DEF EndUpdate
  <2> QED
    BY <2>1, <2>2 DEF TimeInv
<1>3. ASSUME NEW f \in Fields, Select(f) PROVE TimeInv'
  BY <1>3, TimeSelects
<1>4. CASE Read
  BY <1>4, TimeReads
<1>5. CASE PrintLine
  BY <1>5, TimeUnchanged DEF PrintLine, clockvars
<1>6. CASE EnterHcf
  BY <1>6, TimeUnchanged DEF EnterHcf, clockvars
<1>7. CASE ReturnFromTrap
  BY <1>7, TimeUnchanged DEF ReturnFromTrap, clockvars
<1>8. ASSUME NEW v \in Vectors, Trap(v) PROVE TimeInv'
  BY <1>8, TimeUnchanged DEF Trap, clockvars
<1>9. CASE UNCHANGED vars
  BY <1>9, TimeUnchanged DEF vars, clockvars
<1> QED
  BY <1>1, <1>2, <1>3, <1>4, <1>5, <1>6, <1>7, <1>8, <1>9 DEF Next

\* The time in the headline of a panic that no clock update disturbed is the
\* time at which it began to read.
THEOREM PanicStampIsTheTime == Spec => []StampIsTheTime
<1>1. Init => PInv /\ TimeInv
  <2>1. ASSUME Init PROVE TimeInv
    <3>1. DOMAIN began = {}
      BY <2>1 DEF Init
    <3>2. stamp = [c \in Contexts |-> stamp[c]]
      BY <2>1 DEF Init
    <3> QED
      BY <3>1, <3>2 DEF TimeInv
  <2> QED
    BY <2>1, PInit
<1>2. (PInv /\ TimeInv) /\ [Next]_vars => (PInv /\ TimeInv)'
  BY PNext, TimeNext
<1>3. PInv /\ TimeInv => StampIsTheTime
  BY DEF TimeInv, StampIsTheTime
<1> QED
  BY <1>1, <1>2, <1>3, PTL DEF Spec
-----------------------------------------------------------------------------
\* What a panic has read and printed, and what the clock shows: while the
\* clock updates itself, the time it will show is one it can show.
ReportInv ==
  /\ DOMAIN stamp = Contexts
  /\ line \in [Contexts -> 0 .. Len(report)]
  /\ \A c \in Contexts :
       /\ DOMAIN stamp[c] \subseteq Fields
       /\ \A f \in DOMAIN stamp[c] : stamp[c][f] \in 0 .. Radix - 1
  /\ index \in {0, 2, 4}
  /\ time \in Times
  /\ updating \in BOOLEAN /\ (updating => time + 1 \in Times)
  /\ cr2 \in 0 .. entered
  /\ DOMAIN began \subseteq Contexts
  /\ \A c \in DOMAIN began : began[c] \in Times

\* A field of the clock counts from 0 to Radix - 1, and the data port returns
\* nothing else, in the midst of an update or not.
LEMMA DataIsField ==
  ASSUME ReportInv, NEW value \in Data
  PROVE  value \in 0 .. Radix - 1
<1>1. Radix \in Nat \ {0, 1} /\ time \in Nat
  BY PanicAssumption DEF ReportInv
<1>2. \A n \in Nat : n % Radix \in 0 .. Radix - 1
  BY <1>1
<1>3. \A f \in Fields : Shown(f, time) \in 0 .. Radix - 1
  <2>1. time \div Radix \in Nat
    BY <1>1
  <2>2. Radix * Radix \in Nat \ {0}
    BY <1>1
  <2>3. time \div (Radix * Radix) \in Nat
    BY <1>1, <2>2
  <2>4. Shown("seconds", time) \in 0 .. Radix - 1
    BY <1>1, <1>2 DEF Shown
  <2>5. Shown("minutes", time) \in 0 .. Radix - 1
    BY <1>2, <2>1 DEF Shown
  <2>6. Shown("hours", time) \in 0 .. Radix - 1
    BY <1>2, <2>3 DEF Shown
  <2> QED
    BY <2>4, <2>5, <2>6 DEF Fields
<1>4. RtcRegister[index] \in Fields
  BY DEF ReportInv, RtcRegister, Fields
<1> QED
  BY <1>3, <1>4 DEF Data

LEMMA ReportInit == Init => ReportInv
<1> SUFFICES ASSUME Init PROVE ReportInv
  OBVIOUS
<1>1. DOMAIN <<>> = {}
  OBVIOUS
<1>2. Len(report) = 7
  BY DEF report
<1>3. line \in [Contexts -> 0 .. Len(report)]
  BY <1>2 DEF Init
<1>4. DOMAIN stamp = Contexts /\ \A c \in Contexts : DOMAIN stamp[c] = {}
  BY <1>1 DEF Init
<1>5. DOMAIN began = {} /\ updating = FALSE /\ cr2 \in 0 .. entered
  BY <1>1 DEF Init
<1> QED
  BY <1>3, <1>4, <1>5 DEF Init, ReportInv

\* A step of the processor that leaves the clock and the readings alone.
LEMMA ReportUnchanged ==
  ASSUME ReportInv, UNCHANGED <<entered, line, stamp, clockvars, cr2, began>>
  PROVE  ReportInv'
BY DEF ReportInv, clockvars

LEMMA ReportSelects == ASSUME PInv, ReportInv, NEW f \in Fields, Select(f) PROVE ReportInv'
<1>1. Top \in Contexts
  BY StackShape DEF PInv
<1>2. index' \in {0, 2, 4}
  BY DEF Select, RtcIndex, Fields
<1>3. DOMAIN began' \subseteq Contexts /\ \A c \in DOMAIN began' : began'[c] \in Times
  <2>1. began' = With(began, Top, time) \/ began' = began
    BY DEF Select
  <2>2. CASE began' = With(began, Top, time)
    BY <1>1, <2>2 DEF With, ReportInv
  <2>3. CASE began' = began
    BY <2>3 DEF ReportInv
  <2> QED
    BY <2>1, <2>2, <2>3
<1>4. UNCHANGED <<entered, line, stamp, time, updating, cr2>>
  BY DEF Select
<1> QED
  BY <1>2, <1>3, <1>4 DEF ReportInv

LEMMA ReportReads == ASSUME PInv, ReportInv, Read PROVE ReportInv'
<1>1. Top \in Contexts /\ pc[Top] \in Fields
  BY StackShape DEF Read, PInv
<1>2. PICK value \in Data : stamp' = [stamp EXCEPT ![Top] = With(@, pc[Top], value)]
  BY DEF Read
<1>3. value \in 0 .. Radix - 1
  BY <1>2, DataIsField
<1>4. DOMAIN stamp' = Contexts
      /\ stamp'[Top] = With(stamp[Top], pc[Top], value)
      /\ \A c \in Contexts : c # Top => stamp'[c] = stamp[c]
  BY <1>1, <1>2 DEF ReportInv
<1>5. ASSUME NEW c \in Contexts
      PROVE  /\ DOMAIN stamp'[c] \subseteq Fields
             /\ \A f \in DOMAIN stamp'[c] : stamp'[c][f] \in 0 .. Radix - 1
  <2>1. CASE c = Top
    BY <1>1, <1>3, <1>4, <2>1 DEF With, ReportInv
  <2>2. CASE c # Top
    BY <1>4, <1>5, <2>2 DEF ReportInv
  <2> QED
    BY <2>1, <2>2
<1>6. UNCHANGED <<entered, line, clockvars, cr2, began>>
  BY DEF Read
<1> QED
  BY <1>4, <1>5, <1>6 DEF ReportInv, clockvars

LEMMA ReportNext == PInv /\ ReportInv /\ [Next]_vars => ReportInv'
<1> SUFFICES ASSUME PInv, ReportInv, [Next]_vars PROVE ReportInv'
  OBVIOUS
<1>1. CASE BeginUpdate
  <2>1. DOMAIN began' = {}
    BY <1>1 DEF BeginUpdate
  <2>2. updating' = TRUE /\ time + 1 \in Times
        /\ UNCHANGED <<entered, line, stamp, index, time, cr2>>
    BY <1>1 DEF BeginUpdate
  <2> QED
    BY <2>1, <2>2 DEF ReportInv
<1>2. CASE EndUpdate
  BY <1>2 DEF EndUpdate, ReportInv
<1>3. ASSUME NEW f \in Fields, Select(f) PROVE ReportInv'
  BY <1>3, ReportSelects
<1>4. CASE Read
  BY <1>4, ReportReads
<1>5. CASE PrintLine
  <2>1. Top \in Contexts /\ line[Top] < Len(report)
    BY <1>5, StackShape DEF PrintLine, At, PInv
  <2>2. Len(report) = 7
    BY DEF report
  <2>3. line' \in [Contexts -> 0 .. Len(report)]
    BY <1>5, <2>1, <2>2 DEF PrintLine, ReportInv
  <2>4. UNCHANGED <<entered, stamp, clockvars, cr2, began>>
    BY <1>5 DEF PrintLine
  <2> QED
    BY <2>3, <2>4 DEF ReportInv, clockvars
<1>6. CASE EnterHcf
  BY <1>6, ReportUnchanged DEF EnterHcf
<1>7. CASE ReturnFromTrap
  BY <1>7, ReportUnchanged DEF ReturnFromTrap
<1>8. ASSUME NEW v \in Vectors, Trap(v) PROVE ReportInv'
  <2>1. entered \in Nat /\ entered' = entered + 1
    BY <1>8, PanicAssumption DEF Trap, PInv, Shape, Contexts
  <2>2. cr2' \in 0 .. entered'
    BY <1>8, <2>1 DEF Trap, ReportInv
  <2>3. UNCHANGED <<line, stamp, clockvars, began>>
    BY <1>8 DEF Trap
  <2> QED
    BY <2>2, <2>3 DEF ReportInv, clockvars
<1>9. CASE UNCHANGED vars
  BY <1>9, ReportUnchanged DEF vars
<1> QED
  BY <1>1, <1>2, <1>3, <1>4, <1>5, <1>6, <1>7, <1>8, <1>9 DEF Next

\* Whatever the clock returns in the midst of its update, a panic has read
\* fields that can stand on a clock, prints no line past its last, and CR2
\* belongs to a context that has been entered.
THEOREM PanicTypeOK == Spec => []TypeOK
<1>1. Init => PInv /\ ReportInv
  BY PInit, ReportInit
<1>2. (PInv /\ ReportInv) /\ [Next]_vars => (PInv /\ ReportInv)'
  BY PNext, ReportNext
<1>3. PInv /\ ReportInv => TypeOK
  <2> SUFFICES ASSUME PInv, ReportInv PROVE TypeOK
    OBVIOUS
  <2>1. stack \in Seq(1 .. entered)
    <3>1. stack \in Seq(Contexts) /\ entered \in Nat
      BY PanicAssumption DEF PInv, Shape, Contexts
    <3>2. \A p \in 1 .. Len(stack) : stack[p] \in 1 .. entered
      BY <3>1 DEF PInv, Shape, Contexts
    <3> QED
      BY <3>1, <3>2
  <2> QED
    BY <2>1 DEF PInv, Shape, ReportInv, TypeOK
<1> QED
  BY <1>1, <1>2, <1>3, PTL DEF Spec
=============================================================================
