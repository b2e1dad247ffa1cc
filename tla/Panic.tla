-------------------------------- MODULE Panic -------------------------------
(***************************************************************************)
(* The panic of isr_handler and what it reads outside its own frame: the   *)
(* real time clock, through the index and data ports of utilities.c, and   *)
(* CR2.  Both are shared by every context of the machine and are read long *)
(* after the trap, with further traps possible in between.  Nothing guards *)
(* them; they stay true because a handler that returns does not touch them *)
(* and one that touches them does not return.                              *)
(*                                                                         *)
(* The clock runs on its own and is torn while it updates itself; the      *)
(* panic does not look at its update-in-progress bit.  How characters get  *)
(* to the line is the matter of module Console, the frame that of Traps.   *)
(***************************************************************************)
EXTENDS Naturals, Sequences

CONSTANTS
  Vectors,      \* the exception vectors that can be delivered
  Breakpoint,   \* vector 3
  PageFault,    \* vector 14
  MaxContexts,  \* bound: kmain and at most MaxContexts - 1 traps
  MaxNest,      \* bound: contexts on the stack at once
  Radix,        \* a clock field counts from 0 to Radix - 1
  Times         \* bound: the times the clock can show

ASSUME PanicAssumption ==
  /\ Breakpoint \in Vectors /\ PageFault \in Vectors
  /\ Breakpoint # PageFault
  /\ MaxContexts \in Nat \ {0} /\ MaxNest \in Nat \ {0}
  /\ Radix \in Nat \ {0, 1}
  /\ Times \subseteq Nat

Contexts == 1 .. MaxContexts
Fields == {"hours", "minutes", "seconds"}

VARIABLES
  entered,   \* how many contexts have been entered; the first is kmain
  stack,     \* the contexts being executed, the innermost last
  vec,       \* vec[c]: the vector context c handles
  line,      \* line[c]: how many lines of its report c has printed
  pc,        \* pc[c]: "run", "hcf", or the field between whose outb and inb c is
  stamp,     \* stamp[c]: the clock fields c has read
  index,     \* the index register behind port 0x70
  time,      \* what the registers behind port 0x71 show
  updating,  \* the clock's update-in-progress bit
  cr2,       \* the context whose page fault loaded CR2; 0 for none
  began      \* history: the time when c selected its first field, for the
             \* contexts whose readings no update has overlapped since

clockvars == <<index, time, updating>>
vars == <<entered, stack, vec, line, pc, stamp, clockvars, cr2, began>>

Top == stack[Len(stack)]

\* isr_handler_table has one entry, breakpoint at 0x03.
HasHandler(v) == v = Breakpoint

\* f, with x mapped to value.
With(f, x, value) == [y \in DOMAIN f \cup {x} |-> IF y = x THEN value ELSE f[y]]

Panicking(c) == c # 1 /\ ~HasHandler(vec[c])

-----------------------------------------------------------------------------
(* The clock.                                                              *)

\* Mutants: the hours come from the weekday's register; the minutes from the
\* hours'.
RtcIndexWeekday(f) == CASE f = "seconds" -> 0 [] f = "minutes" -> 2 [] f = "hours" -> 6
RtcIndexSwapped(f) == IF f = "seconds" THEN 0 ELSE 4

\* rtc_get_hours, rtc_get_minutes, rtc_get_seconds: what each selects.  Bit 7
\* of the value masks NMIs; it is 0 in all three.
RtcIndex(f) == CASE f = "seconds" -> 0 [] f = "minutes" -> 2 [] f = "hours" -> 4

\* MC146818: the field behind an index.
RtcRegister == [k \in {0, 2, 4} |->
  CASE k = 0 -> "seconds" [] k = 2 -> "minutes" [] k = 4 -> "hours"]

\* The field of a time, which counts seconds.
Shown(f, t) ==
  CASE f = "seconds" -> t % Radix
    [] f = "minutes" -> (t \div Radix) % Radix
    [] f = "hours"   -> (t \div (Radix * Radix)) % Radix

\* What inb(0x71) can return: the register selected, whoever selected it; in
\* the midst of an update, anything.
Data == IF updating THEN 0 .. Radix - 1 ELSE {Shown(RtcRegister[index], time)}

BeginUpdate ==
  /\ ~updating /\ time + 1 \in Times
  /\ updating' = TRUE
  /\ began' = <<>>
  /\ UNCHANGED <<entered, stack, vec, line, pc, stamp, index, time, cr2>>

EndUpdate ==
  /\ updating
  /\ updating' = FALSE
  /\ time' = time + 1
  /\ UNCHANGED <<entered, stack, vec, line, pc, stamp, index, cr2, began>>

-----------------------------------------------------------------------------
(* The processor, in its innermost context.                                *)

\* The lines of the report in the order of the printf calls; "frame" stands
\* for the ten that only print fields of *r.
report == <<"[ISRERR]", "stamp", "message", "frame", "CR4", "CR2", "RFLAGS">>

At(what) ==
  /\ Panicking(Top) /\ pc[Top] = "run"
  /\ line[Top] < Len(report) /\ report[line[Top] + 1] = what

Init ==
  /\ entered = 1 /\ stack = <<1>>
  /\ vec = [c \in Contexts |-> Breakpoint]
  /\ line = [c \in Contexts |-> 0]
  /\ pc = [c \in Contexts |-> "run"]
  /\ stamp = [c \in Contexts |-> <<>>]
  /\ index \in {0, 2, 4}
  /\ time \in Times
  /\ updating = FALSE
  /\ cr2 = 0
  /\ began = <<>>

\* The outb of a reading.  The three readings are arguments of one call, so
\* their order is the compiler's.
Select(f) ==
  /\ At("stamp")
  /\ f \notin DOMAIN stamp[Top]
  /\ index' = RtcIndex(f)
  /\ pc' = [pc EXCEPT ![Top] = f]
  /\ began' = IF stamp[Top] = <<>> /\ ~updating THEN With(began, Top, time) ELSE began
  /\ UNCHANGED <<entered, stack, vec, line, stamp, time, updating, cr2>>

\* The inb of a reading.
Read ==
  /\ pc[Top] \in Fields
  /\ \E value \in Data : stamp' = [stamp EXCEPT ![Top] = With(@, pc[Top], value)]
  /\ pc' = [pc EXCEPT ![Top] = "run"]
  /\ UNCHANGED <<entered, stack, vec, line, clockvars, cr2, began>>

\* A printf of the panic; the stamp's needs its three arguments first.
PrintLine ==
  /\ \E what \in {report[k] : k \in DOMAIN report} : At(what)
  /\ At("stamp") => DOMAIN stamp[Top] = Fields
  /\ line' = [line EXCEPT ![Top] = @ + 1]
  /\ UNCHANGED <<entered, stack, vec, pc, stamp, clockvars, cr2, began>>

\* The panic's hcf(), in which further traps can still come.
EnterHcf ==
  /\ Panicking(Top) /\ pc[Top] = "run" /\ line[Top] = Len(report)
  /\ pc' = [pc EXCEPT ![Top] = "hcf"]
  /\ UNCHANGED <<entered, stack, vec, line, stamp, clockvars, cr2, began>>

\* Mutant: a panic that has made its report returns.
ReturnFromPanic ==
  /\ Top # 1 /\ (HasHandler(vec[Top]) \/ line[Top] = Len(report))
  /\ stack' = SubSeq(stack, 1, Len(stack) - 1)
  /\ UNCHANGED <<entered, vec, line, pc, stamp, clockvars, cr2, began>>

\* A registered handler prints its message and returns.
ReturnFromTrap ==
  /\ Top # 1 /\ HasHandler(vec[Top])
  /\ stack' = SubSeq(stack, 1, Len(stack) - 1)
  /\ UNCHANGED <<entered, vec, line, pc, stamp, clockvars, cr2, began>>

\* Vector v is delivered between any two instructions; a page fault loads CR2.
Trap(v) ==
  /\ entered < MaxContexts /\ Len(stack) < MaxNest
  /\ entered' = entered + 1
  /\ vec' = [vec EXCEPT ![entered + 1] = v]
  /\ stack' = Append(stack, entered + 1)
  /\ cr2' = IF v = PageFault THEN entered + 1 ELSE cr2
  /\ UNCHANGED <<line, pc, stamp, clockvars, began>>

Next ==
  \/ BeginUpdate \/ EndUpdate
  \/ \E f \in Fields : Select(f)
  \/ Read \/ PrintLine \/ EnterHcf \/ ReturnFromTrap
  \/ \E v \in Vectors : Trap(v)

Spec == Init /\ [][Next]_vars
-----------------------------------------------------------------------------
(* Properties.                                                             *)

TypeOK ==
  /\ entered \in Contexts
  /\ stack \in Seq(1 .. entered) /\ stack # <<>>
  /\ vec \in [Contexts -> Vectors]
  /\ line \in [Contexts -> 0 .. Len(report)]
  /\ pc \in [Contexts -> {"run", "hcf"} \cup Fields]
  /\ \A c \in Contexts :
       /\ DOMAIN stamp[c] \subseteq Fields
       /\ \A f \in DOMAIN stamp[c] : stamp[c][f] \in 0 .. Radix - 1
  /\ index \in {0, 2, 4}
  /\ time \in Times
  /\ updating \in BOOLEAN
  /\ cr2 \in 0 .. entered
  /\ DOMAIN began \subseteq Contexts
  /\ \A c \in DOMAIN began : began[c] \in Times

\* Between outb(0x70) and inb(0x71) anything can trap, and a panic on top
\* selects registers of its own; yet whoever reads the data port finds the
\* register it selected (utilities.c has no lock and no retry).
ReadsWhatItSelected == pc[Top] \in Fields => index = RtcIndex(pc[Top])

\* The time in the panic's headline is the time: three readings that no
\* update overlapped are those of one and the same second, hours for hours
\* and seconds for seconds, whatever order the compiler reads them in and
\* however many traps came between them.
StampIsTheTime ==
  \A c \in DOMAIN began : \A f \in DOMAIN stamp[c] : stamp[c][f] = Shown(f, began[c])

\* A page fault's report prints CR2 some fifteen lines after the trap; what
\* stands there is still the address of the fault it reports, not that of
\* one that came later.
OwnFaultAddress == At("CR2") /\ vec[Top] = PageFault => cr2 = Top
=============================================================================
