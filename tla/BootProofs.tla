----------------------------- MODULE BootProofs -----------------------------
(***************************************************************************)
(* Boot, for every length of the memory map, every place of the stubs and  *)
(* every answer of cpuid: what is packed in a descriptor is what the       *)
(* processor unpacks, the tables are finished and the segments in use are  *)
(* valid when they have to be, and the UART is programmed before the first *)
(* character.                                                              *)
(*                                                                         *)
(* The invariant says, for every place in the sequence, which steps of it  *)
(* have left their mark: on the UART, on the GDT and the registers that    *)
(* refer to it, on the gates, and on what has been said.                   *)
(***************************************************************************)
EXTENDS Boot, TLAPS

-----------------------------------------------------------------------------
(* Descriptors.                                                            *)

\* Splitting a word into a low and a high part loses nothing.
LEMMA Halves == ASSUME NEW x \in Nat PROVE Low(x) + 256 * High(x) = x
BY DEF Low, High

\* create_segment keeps its parameters where the processor looks for them:
\* the base in three pieces, the limit in two, the flags above the limit.
THEOREM SegmentDecodes ==
  ASSUME NEW base \in Nat, base < 65536 * 65536, NEW limit \in Nat, limit < 16 * 65536,
         NEW access \in Byte, NEW flags \in 0 .. 15
  PROVE  LET b == SegmentBytes(create_segment(base, limit, access, flags))
         IN  /\ Len(b) = 8
             /\ SegmentBase(b) = base
             /\ SegmentLimit(b) = limit
             /\ SegmentAccess(b) = access
             /\ SegmentFlags(b) = flags
<1> DEFINE d == create_segment(base, limit, access, flags)
           b == SegmentBytes(d)
           options == ((limit \div 65536) % 16) + (flags % 16) * 16
<1>1. d.limit = limit % 65536 /\ d.base_low = base % 65536
      /\ d.base_middle = (base \div 65536) % 256 /\ d.access = access
      /\ d.options = options /\ d.base_high = (base \div 16777216) % 256
  BY SMT DEF create_segment
<1>2. b = << d.limit % 256, d.limit \div 256, d.base_low % 256, d.base_low \div 256,
             d.base_middle, d.access, d.options, d.base_high >>
  BY SMT DEF SegmentBytes, Low, High
<1>3. Len(b) = 8 /\ SegmentAccess(b) = access
  BY SMT, <1>1, <1>2 DEF SegmentAccess
<1>4. SegmentBase(b) = base
  <2>1. SegmentBase(b) = ((base % 65536) % 256) + 256 * ((base % 65536) \div 256)
                         + 65536 * ((base \div 65536) % 256)
                         + 16777216 * ((base \div 16777216) % 256)
    BY SMT, <1>1, <1>2 DEF SegmentBase
  <2>2. ((base % 65536) % 256) + 256 * ((base % 65536) \div 256) = base % 65536
    BY SMT
  <2>3. (base % 65536) + 65536 * ((base \div 65536) % 256)
        + 16777216 * ((base \div 16777216) % 256) = base
    BY SMT
  <2> QED
    BY SMT, <2>1, <2>2, <2>3
<1>5. options % 16 = limit \div 65536 /\ options \div 16 = flags
  BY SMT
<1>6. SegmentLimit(b) = limit
  <2>1. SegmentLimit(b) = ((limit % 65536) % 256) + 256 * ((limit % 65536) \div 256)
                          + 65536 * (options % 16)
    BY SMT, <1>1, <1>2 DEF SegmentLimit
  <2> QED
    BY SMT, <2>1, <1>5
<1>7. SegmentFlags(b) = flags
  BY SMT, <1>1, <1>2, <1>5 DEF SegmentFlags
<1> QED
  BY SMT, <1>3, <1>4, <1>6, <1>7

\* A gate create_interrupt_descriptor builds leads to the handler and the
\* selector it was given, on the stack it was given, as a present trap gate.
THEOREM GateDecodes ==
  ASSUME NEW handler \in Address, NEW selector \in U16, NEW ist \in 0 .. 7
  PROVE  LET b == GateBytes(create_interrupt_descriptor(handler, selector, ist))
         IN  /\ Len(b) = 16
             /\ GateOffset(b) = handler
             /\ GateSelector(b) = selector
             /\ GateStack(b) = ist
             /\ GateType(b) = 15 /\ GatePrivilege(b) = 0 /\ GatePresent(b)
<1> DEFINE d == create_interrupt_descriptor(handler, selector, ist)
           b == GateBytes(d)
<1>1. d.offset_low = handler[1] /\ d.segment_selector = selector
      /\ d.options = 143 * 256 + ist /\ d.offset_middle = handler[2]
      /\ d.offset_high = <<handler[3], handler[4]>>
  BY SMT DEF create_interrupt_descriptor
<1>2. b = << Low(handler[1]), High(handler[1]), Low(selector), High(selector),
             Low(143 * 256 + ist), High(143 * 256 + ist),
             Low(handler[2]), High(handler[2]), Low(handler[3]), High(handler[3]),
             Low(handler[4]), High(handler[4]), 0, 0, 0, 0 >>
  BY SMT, <1>1 DEF GateBytes
<1>3. selector \in Nat /\ \A k \in 1 .. 4 : handler[k] \in Nat
  BY SMT DEF Address, U16
<1>4. /\ GateOffset(b) = <<handler[1], handler[2], handler[3], handler[4]>>
      /\ GateSelector(b) = selector
  BY SMT, <1>2, <1>3, Halves DEF GateOffset, GateSelector
<1>5. handler = <<handler[1], handler[2], handler[3], handler[4]>>
  BY SMT DEF Address
<1>6. Low(143 * 256 + ist) = ist /\ High(143 * 256 + ist) = 143
  BY SMT DEF Low, High
<1>7. GateStack(b) = ist
  BY SMT, <1>2, <1>6 DEF GateStack
<1>8. GateType(b) = 15 /\ GatePrivilege(b) = 0 /\ GatePresent(b)
  BY SMT, <1>2, <1>6 DEF GateType, GatePrivilege, GatePresent
<1> QED
  BY SMT, <1>2, <1>4, <1>5, <1>7, <1>8

-----------------------------------------------------------------------------
(* The invariant.                                                          *)

\* The places of kmain before, in and after initialize_gdt.
Early == {"check_revision", "com1"}
Tables == {"idt", "handlers", "load_idt", "paging"}
Main == {"check_framebuffer", "print_amount", "print_entries", "print_hello", "fault"}
Ends == {"hcf", "shutdown"}

Places ==
  /\ pc \in Early \cup {"gdt"} \cup Tables \cup Main \cup Ends
  /\ i \in Nat
  /\ pc = "com1" => i \in 1 .. 7
  /\ pc = "gdt" => i \in 1 .. 9
  /\ pc = "idt" => i \in 1 .. 33
  /\ pc = "print_entries" => i \in 1 .. memmap.entry_count + 1
  /\ pc \notin {"com1", "gdt", "idt", "print_entries"} => i = 1
  /\ memmap.entry_count \in 0 .. MaxEntries
  /\ cpu \in Processors

\* The UART after the first i - 1 writes.
UartInv ==
  /\ uart \in [ier : Byte, dll : Byte, dlm : Byte, fcr : Byte, lcr : Byte, mcr : Byte]
  /\ pc = "check_revision" => uart.lcr = 3
  /\ pc = "com1" =>
       /\ i >= 2 => uart.ier = 0
       /\ i >= 4 => uart.dll = 1
       /\ i >= 5 => uart.dlm = 0
       /\ uart.lcr = IF i \in 3 .. 5 THEN 128 ELSE 3
       /\ i >= 7 => uart.fcr = 199
  /\ pc \in {"gdt"} \cup Tables \cup Main =>
       uart.ier = 0 /\ uart.dll = 1 /\ uart.dlm = 0 /\ uart.lcr = 3 /\ uart.fcr = 199

\* The GDT in use, and the selectors that refer to it.
LimineTable == gdtr = [base |-> "bootloader", limit |-> 55]
OwnTable == gdtr = [base |-> "table", limit |-> 39] /\ Len(gdt) = 5
LimineSelectors == segs = [cs |-> 40, ss |-> 48]
OwnSelectors == segs = [cs |-> 8, ss |-> 16]

Entries ==
  /\ gdt \in Seq([1 .. 8 -> Byte]) /\ Len(gdt) \in 1 .. 5
  /\ \A k \in 1 .. 4 : k + 1 <= Len(gdt) => gdt[k + 1] = SegmentBytes(segments[k])

Registers ==
  /\ segs \in [cs : {8, 40}, ss : {16, 48}]
  /\ pc \in Early \/ (pc = "gdt" /\ i = 1) => LimineTable /\ LimineSelectors /\ Len(gdt) = 1
  /\ pc = "gdt" =>
       /\ i \in 2 .. 6 => LimineTable /\ LimineSelectors /\ Len(gdt) = i - 1
       /\ i = 7 => OwnTable /\ LimineSelectors
       /\ i = 8 => OwnTable /\ segs = [cs |-> 8, ss |-> 48]
       /\ i = 9 => OwnTable /\ OwnSelectors
  /\ pc \in Tables \cup Main => OwnTable /\ OwnSelectors

Consistent == (LimineTable /\ LimineSelectors) \/ (OwnTable /\ OwnSelectors)

Masked ==
  /\ if \in BOOLEAN
  /\ pc = "gdt" /\ i >= 2 => if = FALSE
  /\ if = TRUE => Consistent

SegInv == Entries /\ Registers /\ Masked

Gated == 0 .. 31 \cup {128}

GateInv ==
  /\ DOMAIN gates \subseteq Gated
  /\ \A v \in DOMAIN gates : gates[v] = GateBytes(create_interrupt_descriptor(Stub[v], 8, 0))
  /\ pc \in Early \cup {"gdt"} => DOMAIN gates = {}
  /\ pc = "idt" => DOMAIN gates = {isrs[k] : k \in 1 .. i - 1}
  /\ pc \in {"handlers", "load_idt"} => DOMAIN gates = Gated
  /\ pc \in Early \cup {"gdt", "idt", "handlers"} => handlers = {}
  /\ pc = "load_idt" => handlers = {3}
  /\ idtr \in {"bootloader", "leftover"}

SaidInv ==
  /\ said \in Seq({"physical_address_bits", "amount", "entry", "hello"})
  /\ pc \in Early \cup {"gdt"} \cup Tables => Len(said) = 0
  /\ pc \in {"check_framebuffer", "print_amount", "fault"} => Len(said) <= 1
  /\ pc = "print_entries" => Len(said) <= 1 + i
  /\ pc = "print_hello" => Len(said) <= 2 + MaxEntries
  /\ Len(said) <= 3 + MaxEntries

WidthInv == MAXPHYSADDR \in Byte /\ ReportedWidthIsUsed

BInv == Places /\ UartInv /\ SegInv /\ GateInv /\ SaidInv /\ WidthInv
-----------------------------------------------------------------------------
(* Every part of it, from every step.                                      *)

LEMMA PlacesStep == BInv /\ [Next]_vars => Places'
<1> SUFFICES ASSUME BInv, [Next]_vars PROVE Places'
  OBVIOUS
<1> USE BootAssumption DEF BInv, Places, Early, Tables, Main, Ends, given, Goto
<1>1. CASE CheckRevision \/ CheckFramebuffer
  BY <1>1 DEF CheckRevision, CheckFramebuffer
<1>2. CASE PrintAmount \/ PrintEntry \/ Draw \/ PrintHello
  BY <1>2 DEF PrintAmount, PrintEntry, Draw, PrintHello
<1>3. CASE Hcf \/ Shutdown \/ UNCHANGED vars
  BY <1>3 DEF Hcf, Shutdown, vars
<1>4. CASE Com1
  <2>1. Len(initialize_com1) = 7
    BY DEF initialize_com1
  <2> QED
    BY <1>4, <2>1 DEF Com1
<1>5. CASE InitializeGdt
  <2>1. Len(initialize_gdt) = 9
    BY DEF initialize_gdt
  <2> QED
    BY <1>5, <2>1 DEF InitializeGdt
<1>6. CASE RegisterIsr
  <2>1. Len(isrs) = 33
    BY DEF isrs
  <2> QED
    BY <1>6, <2>1 DEF RegisterIsr
<1>7. CASE load_custom_interrupts \/ load_idt \/ initialize_paging
  BY <1>7 DEF load_custom_interrupts, load_idt, initialize_paging
<1>8. CASE Fault \/ \E maskable \in BOOLEAN : Interrupt(maskable)
  BY <1>8 DEF Fault, Interrupt
<1> QED
  BY <1>1, <1>2, <1>3, <1>4, <1>5, <1>6, <1>7, <1>8 DEF Next

\* Only Com1 writes to the UART.
LEMMA UartStep == BInv /\ [Next]_vars => UartInv'
<1> SUFFICES ASSUME BInv, [Next]_vars PROVE UartInv'
  OBVIOUS
<1>1. CASE Com1
  <2> DEFINE o == initialize_com1[i][1]
             w == initialize_com1[i][2]
  <2>1. pc = "com1" /\ i \in 1 .. 7
    BY <1>1 DEF Com1, BInv, Places
  <2>2. /\ i = 1 => o = 1 /\ w = 0
        /\ i = 2 => o = 3 /\ w = 128
        /\ i = 3 => o = 0 /\ w = 1
        /\ i = 4 => o = 1 /\ w = 0
        /\ i = 5 => o = 3 /\ w = 3
        /\ i = 6 => o = 2 /\ w = 199
        /\ i = 7 => o = 4 /\ w = 11
    BY DEF initialize_com1
  <2>3. outb(o, w) /\ IF i < 7 THEN i' = i + 1 /\ pc' = pc ELSE i' = 1 /\ pc' = "gdt"
    <3>1. Len(initialize_com1) = 7
      BY DEF initialize_com1
    <3> QED
      BY <1>1, <3>1 DEF Com1
  <2>4. /\ uart \in [ier : Byte, dll : Byte, dlm : Byte, fcr : Byte, lcr : Byte, mcr : Byte]
        /\ i >= 2 => uart.ier = 0
        /\ i >= 4 => uart.dll = 1
        /\ i >= 5 => uart.dlm = 0
        /\ uart.lcr = IF i \in 3 .. 5 THEN 128 ELSE 3
        /\ i >= 7 => uart.fcr = 199
    BY <2>1 DEF BInv, UartInv
  <2> HIDE DEF o, w
  <2>5. uart' = CASE i = 1 -> [uart EXCEPT !.ier = 0]
                  [] i = 2 -> [uart EXCEPT !.lcr = 128]
                  [] i = 3 -> [uart EXCEPT !.dll = 1]
                  [] i = 4 -> [uart EXCEPT !.dlm = 0]
                  [] i = 5 -> [uart EXCEPT !.lcr = 3]
                  [] i = 6 -> [uart EXCEPT !.fcr = 199]
                  [] i = 7 -> [uart EXCEPT !.mcr = 11]
    BY <2>1, <2>2, <2>3, <2>4 DEF outb, DLAB
  <2>6. uart' \in [ier : Byte, dll : Byte, dlm : Byte, fcr : Byte, lcr : Byte, mcr : Byte]
    <3>1. 0 \in Byte /\ 1 \in Byte /\ 3 \in Byte /\ 11 \in Byte /\ 128 \in Byte /\ 199 \in Byte
      BY DEF Byte
    <3> QED
      BY <2>1, <2>4, <2>5, <3>1
  <2>7. CASE i < 7
    <3>1. i' = i + 1 /\ pc' = "com1"
      BY <2>1, <2>3, <2>7
    <3>2. /\ i' >= 2 => uart'.ier = 0
          /\ i' >= 4 => uart'.dll = 1
          /\ i' >= 5 => uart'.dlm = 0
          /\ uart'.lcr = IF i' \in 3 .. 5 THEN 128 ELSE 3
          /\ i' >= 7 => uart'.fcr = 199
      BY <2>1, <2>4, <2>5, <2>7, <3>1, SMTT(30)
    <3> QED
      BY <2>6, <3>1, <3>2 DEF UartInv, Tables, Main
  <2>8. CASE i = 7
    <3>1. uart' = [uart EXCEPT !.mcr = 11] /\ i' = 1 /\ pc' = "gdt"
      BY <2>3, <2>5, <2>8
    <3>2. uart'.ier = 0 /\ uart'.dll = 1 /\ uart'.dlm = 0 /\ uart'.lcr = 3 /\ uart'.fcr = 199
      BY <2>4, <2>8, <3>1
    <3> QED
      BY <2>6, <3>1, <3>2 DEF UartInv
  <2> QED
    BY <2>1, <2>7, <2>8
<1>2. CASE UNCHANGED uart /\ ~Com1
  <2>1. pc' = "check_revision" => pc = "check_revision"
    BY <1>2 DEF Next, vars, CheckRevision, InitializeGdt, RegisterIsr, load_custom_interrupts, load_idt,
         initialize_paging, CheckFramebuffer, PrintAmount, PrintEntry, Draw, PrintHello, Hcf, Fault,
         Shutdown, Interrupt, Goto
  <2> QED
    BY <1>2 DEF BInv, UartInv, Places, Early, Tables, Main, Ends, Next, vars, CheckRevision,
         InitializeGdt, RegisterIsr, load_custom_interrupts, load_idt, initialize_paging,
         CheckFramebuffer, PrintAmount, PrintEntry, Draw, PrintHello, Hcf, Fault, Shutdown,
         Interrupt, Goto
<1>3. Com1 \/ UNCHANGED uart
  BY DEF Next, vars, uartvars, CheckRevision, InitializeGdt, RegisterIsr, load_custom_interrupts, load_idt,
         initialize_paging, CheckFramebuffer, PrintAmount, PrintEntry, Draw, PrintHello, Hcf, Fault,
         Shutdown, Interrupt
<1> QED
  BY <1>1, <1>2, <1>3

\* The four descriptors, as bytes and as the processor reads them.
LEMMA Segments ==
  /\ Len(segments) = 4
  /\ \A k \in 1 .. 4 : SegmentBytes(segments[k]) \in [1 .. 8 -> Byte]
  /\ SegmentKind(SegmentBytes(segments[1])) = <<"kernel", "code">>
  /\ SegmentKind(SegmentBytes(segments[2])) = <<"kernel", "data">>
<1>1. Len(segments) = 4
  BY DEF segments
<1>2. ASSUME NEW access \in Byte, NEW flags \in 0 .. 15
      PROVE  SegmentBytes(create_segment(0, 1048575, access, flags))
               = <<255, 255, 0, 0, 0, access, 15 + flags * 16, 0>>
  <2> DEFINE d == create_segment(0, 1048575, access, flags)
  <2>1. /\ d.limit = 65535 /\ d.base_low = 0 /\ d.base_middle = 0 /\ d.access = access
        /\ d.options = 15 + flags * 16 /\ d.base_high = 0
    BY DEF create_segment
  <2> HIDE DEF d
  <2> QED
    BY <2>1 DEF SegmentBytes, Low, High, d
<1>3. /\ SegmentBytes(segments[1]) = <<255, 255, 0, 0, 0, 154, 47, 0>>
      /\ SegmentBytes(segments[2]) = <<255, 255, 0, 0, 0, 146, 207, 0>>
      /\ SegmentBytes(segments[3]) = <<255, 255, 0, 0, 0, 250, 47, 0>>
      /\ SegmentBytes(segments[4]) = <<255, 255, 0, 0, 0, 242, 47, 0>>
  <2>1. /\ segments[1] = create_segment(0, 1048575, 154, 2)
        /\ segments[2] = create_segment(0, 1048575, 146, 12)
        /\ segments[3] = create_segment(0, 1048575, 250, 2)
        /\ segments[4] = create_segment(0, 1048575, 242, 2)
    BY DEF segments
  <2>2. 154 \in Byte /\ 146 \in Byte /\ 250 \in Byte /\ 242 \in Byte
    BY DEF Byte
  <2> QED
    BY <1>2, <2>1, <2>2
<1>4. \A k \in 1 .. 4 : SegmentBytes(segments[k]) \in [1 .. 8 -> Byte]
  <2>1. \A a, f \in Byte : <<255, 255, 0, 0, 0, a, f, 0>> \in [1 .. 8 -> Byte]
    <3> TAKE a, f \in Byte
    <3>1. 0 \in Byte /\ 255 \in Byte
      BY DEF Byte
    <3>2. <<255, 255, 0, 0, 0, a, f, 0>> \in Seq(Byte)
      BY <3>1
    <3> QED
      BY <3>2, SMTT(30)
  <2>2. /\ 154 \in Byte /\ 146 \in Byte /\ 250 \in Byte /\ 242 \in Byte
        /\ 47 \in Byte /\ 207 \in Byte
    BY DEF Byte
  <2>3. \A k \in 1 .. 4 : \E a, f \in Byte :
          SegmentBytes(segments[k]) = <<255, 255, 0, 0, 0, a, f, 0>>
    <3>1. \A k \in 1 .. 4 : k = 1 \/ k = 2 \/ k = 3 \/ k = 4
      OBVIOUS
    <3> QED
      BY <1>3, <2>2, <3>1
  <2> QED
    BY <2>1, <2>3
<1>5. SegmentKind(SegmentBytes(segments[1])) = <<"kernel", "code">>
  <2> DEFINE b == SegmentBytes(segments[1])
  <2>1. SegmentAccess(b) = 154 /\ SegmentFlags(b) = 2
    BY <1>3 DEF SegmentAccess, SegmentFlags
  <2> HIDE DEF b
  <2> QED
    BY <2>1 DEF SegmentKind, Bit, b
<1>6. SegmentKind(SegmentBytes(segments[2])) = <<"kernel", "data">>
  <2> DEFINE b == SegmentBytes(segments[2])
  <2>1. SegmentAccess(b) = 146
    BY <1>3 DEF SegmentAccess
  <2> HIDE DEF b
  <2> QED
    BY <2>1 DEF SegmentKind, Bit, b
<1> QED
  BY <1>1, <1>4, <1>5, <1>6

\* Only InitializeGdt changes the GDT, its registers and the interrupt flag.
LEMMA SegStep == BInv /\ [Next]_vars => SegInv'
<1> SUFFICES ASSUME BInv, [Next]_vars PROVE SegInv'
  OBVIOUS
<1>1. CASE InitializeGdt
  <2> DEFINE op == initialize_gdt[i]
  <2>1. pc = "gdt" /\ i \in 1 .. 9
    BY <1>1 DEF InitializeGdt, BInv, Places
  <2>2. /\ i = 1 => op = "cli"
        /\ i \in 2 .. 5 => op = "entry"
        /\ i = 6 => op = "set_gdt"
        /\ i = 7 => op = "reload_cs"
        /\ i = 8 => op = "reload_ss"
        /\ i = 9 => op = "sti"
    BY DEF initialize_gdt
  <2>3. Gdt(op) /\ IF i < 9 THEN i' = i + 1 /\ pc' = pc ELSE i' = 1 /\ pc' = "idt"
    <3>1. Len(initialize_gdt) = 9
      BY DEF initialize_gdt
    <3> QED
      BY <1>1, <3>1 DEF InitializeGdt
  <2>4. /\ Entries /\ segs \in [cs : {8, 40}, ss : {16, 48}]
        /\ i = 1 => LimineTable /\ LimineSelectors /\ Len(gdt) = 1
        /\ i \in 2 .. 6 => LimineTable /\ LimineSelectors /\ Len(gdt) = i - 1
        /\ i = 7 => OwnTable /\ LimineSelectors
        /\ i = 8 => OwnTable /\ segs = [cs |-> 8, ss |-> 48]
        /\ i = 9 => OwnTable /\ OwnSelectors
        /\ i >= 2 => if = FALSE
    BY <2>1 DEF BInv, SegInv, Registers, Masked
  <2> HIDE DEF op
  <2>5. gdt' = gdt => Entries' /\ Len(gdt') = Len(gdt)
    BY <2>4 DEF Entries
  <2>6. if \in BOOLEAN /\ (i >= 2 => if = FALSE)
    BY <2>4 DEF BInv, SegInv, Registers, Masked
  <2>7. CASE i = 1
    <3>1. if' = FALSE /\ UNCHANGED <<gdt, gdtr, segs>> /\ pc' = "gdt" /\ i' = 2
      BY <2>1, <2>2, <2>3, <2>7 DEF Gdt
    <3>2. Entries' /\ Len(gdt') = i' - 1 /\ segs' \in [cs : {8, 40}, ss : {16, 48}]
          /\ LimineTable' /\ LimineSelectors'
      BY <2>4, <2>5, <2>7, <3>1 DEF LimineTable, LimineSelectors
    <3>3. Registers'
      BY <3>1, <3>2 DEF Registers, Early, Tables, Main
    <3>4. Masked'
      BY <3>1, Zenon DEF Masked
    <3> QED
      BY <3>2, <3>3, <3>4 DEF SegInv
  <2>8. CASE i \in 2 .. 5
    <3>1. /\ gdt' = Append(gdt, SegmentBytes(segments[Len(gdt)])) /\ UNCHANGED <<gdtr, segs, if>>
          /\ pc' = "gdt" /\ i' = i + 1
      <4>1. op = "entry"
        BY <2>2, <2>8
      <4>2. Gdt("entry")
        BY <2>3, <4>1
      <4>3. gdt' = Append(gdt, SegmentBytes(segments[Len(gdt)])) /\ UNCHANGED <<gdtr, segs, if>>
        BY <4>2 DEF Gdt
      <4> QED
        BY <2>1, <2>3, <2>8, <4>3
    <3>2. Len(gdt) = i - 1 /\ gdt \in Seq([1 .. 8 -> Byte])
      BY <2>4, <2>8 DEF Entries
    <3>3. SegmentBytes(segments[Len(gdt)]) \in [1 .. 8 -> Byte]
      BY <2>8, <3>2, Segments
    <3>4. /\ gdt' \in Seq([1 .. 8 -> Byte]) /\ Len(gdt') = i
          /\ gdt'[i] = SegmentBytes(segments[i - 1])
          /\ \A k \in 1 .. i - 1 : gdt'[k] = gdt[k]
      <4> DEFINE x == SegmentBytes(segments[Len(gdt)])
      <4> HIDE DEF x
      <4>1. /\ gdt' \in Seq([1 .. 8 -> Byte]) /\ Len(gdt') = Len(gdt) + 1
            /\ gdt'[Len(gdt) + 1] = x
            /\ \A k \in 1 .. Len(gdt) : gdt'[k] = gdt[k]
        BY <3>1, <3>2, <3>3 DEF x
      <4> QED
        BY <2>8, <3>2, <4>1 DEF x
    <3>5. Entries'
      BY <2>4, <2>8, <3>2, <3>4 DEF Entries
    <3>6. Len(gdt') = i' - 1 /\ i' \in 3 .. 6 /\ segs' \in [cs : {8, 40}, ss : {16, 48}]
          /\ LimineTable' /\ LimineSelectors'
      BY <2>4, <2>8, <3>1, <3>4 DEF LimineTable, LimineSelectors
    <3>7. if' = FALSE
      BY <2>6, <2>8, <3>1
    <3>8. Registers'
      BY <3>1, <3>6 DEF Registers, Early, Tables, Main
    <3>9. Masked'
      BY <3>7, Zenon DEF Masked
    <3> QED
      BY <3>5, <3>8, <3>9 DEF SegInv
  <2>9. CASE i = 6
    <3>1. /\ gdtr' = [base |-> "table", limit |-> Len(gdt) * 8 - 1] /\ UNCHANGED <<gdt, segs, if>>
          /\ pc' = "gdt" /\ i' = 7
      BY <2>1, <2>2, <2>3, <2>9 DEF Gdt
    <3>2. Len(gdt) = 5
      BY <2>4, <2>9
    <3>3. Len(gdt) * 8 - 1 = 39
      BY <3>2
    <3>4. Entries' /\ OwnTable' /\ LimineSelectors' /\ segs' \in [cs : {8, 40}, ss : {16, 48}]
      BY <2>4, <2>5, <2>9, <3>1, <3>2, <3>3 DEF OwnTable, LimineSelectors
    <3>5. if' = FALSE
      BY <2>6, <2>9, <3>1
    <3>6. Registers'
      BY <3>1, <3>4 DEF Registers, Early, Tables, Main
    <3>7. Masked'
      BY <3>5, Zenon DEF Masked
    <3> QED
      BY <3>4, <3>6, <3>7 DEF SegInv
  <2>10. CASE i = 7
    <3>1. /\ segs' = [segs EXCEPT !.cs = 8] /\ UNCHANGED <<gdt, gdtr, if>>
          /\ pc' = "gdt" /\ i' = 8
      BY <2>1, <2>2, <2>3, <2>10 DEF Gdt
    <3>2. segs' = [cs |-> 8, ss |-> 48]
      BY <2>4, <2>10, <3>1 DEF LimineSelectors
    <3>3. Entries' /\ OwnTable'
      BY <2>4, <2>5, <2>10, <3>1 DEF OwnTable
    <3>4. if' = FALSE
      BY <2>6, <2>10, <3>1
    <3>5. segs' \in [cs : {8, 40}, ss : {16, 48}]
      BY <3>2
    <3>6. Registers'
      BY <3>1, <3>2, <3>3, <3>5 DEF Registers, Early, Tables, Main
    <3>7. Masked'
      BY <3>4, Zenon DEF Masked
    <3> QED
      BY <3>3, <3>6, <3>7 DEF SegInv
  <2>11. CASE i = 8
    <3>1. /\ segs' = [segs EXCEPT !.ss = 16] /\ UNCHANGED <<gdt, gdtr, if>>
          /\ pc' = "gdt" /\ i' = 9
      BY <2>1, <2>2, <2>3, <2>11 DEF Gdt
    <3>2. segs' = [cs |-> 8, ss |-> 16]
      BY <2>4, <2>11, <3>1
    <3>3. Entries' /\ OwnTable'
      BY <2>4, <2>5, <2>11, <3>1 DEF OwnTable
    <3>4. if' = FALSE
      BY <2>6, <2>11, <3>1
    <3>5. segs' \in [cs : {8, 40}, ss : {16, 48}]
      BY <3>2
    <3>6. Registers'
      BY <3>1, <3>2, <3>3, <3>5 DEF Registers, Early, Tables, Main, OwnSelectors
    <3>7. Masked'
      BY <3>4, Zenon DEF Masked
    <3> QED
      BY <3>3, <3>6, <3>7 DEF SegInv
  <2>12. CASE i = 9
    <3>1. if' = TRUE /\ UNCHANGED <<gdt, gdtr, segs>> /\ pc' = "idt" /\ i' = 1
      BY <2>1, <2>2, <2>3, <2>12 DEF Gdt
    <3>2. Entries' /\ OwnTable' /\ OwnSelectors' /\ segs' \in [cs : {8, 40}, ss : {16, 48}]
      BY <2>4, <2>5, <2>12, <3>1 DEF OwnTable, OwnSelectors
    <3>3. Registers'
      BY <3>1, <3>2 DEF Registers, Early, Tables, Main
    <3>4. Masked'
      BY <3>1, <3>2, Zenon DEF Masked, Consistent
    <3> QED
      BY <3>2, <3>3, <3>4 DEF SegInv
  <2> QED
    BY <2>1, <2>7, <2>8, <2>9, <2>10, <2>11, <2>12
<1>2. CASE UNCHANGED segvars /\ ~InitializeGdt
  <2>1. /\ pc' \in Early => pc \in Early
        /\ pc' = "gdt" => pc \in Early \cup {"gdt"} /\ (pc = "gdt" => i' = i) /\ (pc \in Early => i' = 1)
        /\ pc' \in Tables \cup Main => pc \in Tables \cup Main
    BY <1>2 DEF BInv, Places, Early, Tables, Main, Ends, Next, vars, CheckRevision, Com1,
         RegisterIsr, load_custom_interrupts, load_idt, initialize_paging, CheckFramebuffer,
         PrintAmount, PrintEntry, Draw, PrintHello, Hcf, Fault, Shutdown, Interrupt, Goto
  <2>2. gdt' = gdt /\ gdtr' = gdtr /\ segs' = segs /\ if' = if
    BY <1>2 DEF segvars
  <2>3. CASE pc' \in Early
    BY <2>1, <2>2, <2>3 DEF BInv, SegInv, Registers, Masked, Consistent, Entries, LimineTable, LimineSelectors, OwnTable,
                            OwnSelectors, Early, Tables, Main
  <2>4. CASE pc' = "gdt"
    BY <2>1, <2>2, <2>4 DEF BInv, SegInv, Registers, Masked, Consistent, Entries, LimineTable, LimineSelectors, OwnTable,
                            OwnSelectors, Early, Tables, Main
  <2>5. CASE pc' \notin Early \cup {"gdt"}
    BY <2>1, <2>2, <2>5 DEF BInv, SegInv, Registers, Masked, Consistent, Entries, LimineTable, LimineSelectors, OwnTable,
                            OwnSelectors, Early, Tables, Main
  <2> QED
    BY <2>3, <2>4, <2>5
<1>3. InitializeGdt \/ UNCHANGED segvars
  BY DEF Next, vars, segvars, CheckRevision, Com1, RegisterIsr, load_custom_interrupts, load_idt,
         initialize_paging, CheckFramebuffer, PrintAmount, PrintEntry, Draw, PrintHello, Hcf, Fault,
         Shutdown, Interrupt
<1> QED
  BY <1>1, <1>2, <1>3

LEMMA Isrs == \A v : v \in Gated <=> \E k \in 1 .. 33 : v = isrs[k]
<1> TAKE v
<1>1. ASSUME v \in 0 .. 31 PROVE \E k \in 1 .. 33 : v = isrs[k]
  <2>1. v + 1 \in 1 .. 33 /\ isrs[v + 1] = v
    BY <1>1 DEF isrs
  <2> QED
    BY <2>1
<1>2. isrs[33] = 128
  BY DEF isrs
<1>3. \A k \in 1 .. 33 : isrs[k] \in Gated
  BY DEF isrs, Gated
<1> QED
  BY <1>1, <1>2, <1>3 DEF Gated

LEMMA GateStep == BInv /\ [Next]_vars => GateInv'
<1> SUFFICES ASSUME BInv, [Next]_vars PROVE GateInv'
  OBVIOUS
<1>1. CASE RegisterIsr
  <2>1. /\ pc = "idt" /\ i \in 1 .. 33
        /\ gates' = [v \in DOMAIN gates \cup {isrs[i]} |->
                       IF v = isrs[i]
                       THEN GateBytes(create_interrupt_descriptor(Stub[v], 8, 0))
                       ELSE gates[v]]
        /\ handlers' = handlers /\ idtr' = idtr
    BY <1>1 DEF RegisterIsr, BInv, Places
  <2>2. IF i < 33 THEN i' = i + 1 /\ pc' = "idt" ELSE i' = 1 /\ pc' = "handlers"
    <3>1. Len(isrs) = 33
      BY DEF isrs
    <3> QED
      BY <1>1, <3>1 DEF RegisterIsr
  <2>3. DOMAIN gates' = DOMAIN gates \cup {isrs[i]}
    BY <2>1
  <2>4. DOMAIN gates = {isrs[k] : k \in 1 .. i - 1} /\ handlers = {}
        /\ idtr \in {"bootloader", "leftover"}
        /\ \A v \in DOMAIN gates : gates[v] = GateBytes(create_interrupt_descriptor(Stub[v], 8, 0))
    BY <2>1 DEF BInv, GateInv
  <2>5. DOMAIN gates' = {isrs[k] : k \in 1 .. i}
    BY <2>1, <2>3, <2>4
  <2>6. DOMAIN gates' \subseteq Gated
    BY <2>1, <2>5, Isrs
  <2>7. i = 33 => DOMAIN gates' = Gated
    BY <2>5, Isrs
  <2>8. \A v \in DOMAIN gates' : gates'[v] = GateBytes(create_interrupt_descriptor(Stub[v], 8, 0))
    BY <2>1, <2>3, <2>4
  <2>9. CASE i < 33
    <3>1. pc' = "idt" /\ i' - 1 = i
      BY <2>1, <2>2, <2>9
    <3> QED
      BY <2>1, <2>4, <2>5, <2>6, <2>8, <3>1 DEF GateInv, Early
  <2>10. CASE i = 33
    <3>1. pc' = "handlers"
      BY <2>2, <2>10
    <3> QED
      BY <2>1, <2>4, <2>6, <2>7, <2>8, <2>10, <3>1 DEF GateInv, Early
  <2> QED
    BY <2>1, <2>9, <2>10
<1>2. CASE load_custom_interrupts \/ load_idt
  BY <1>2 DEF load_custom_interrupts, load_idt, Goto, BInv, GateInv, Early
<1>3. CASE UNCHANGED <<gates, handlers, idtr>> /\ ~RegisterIsr /\ ~load_custom_interrupts /\ ~load_idt
  <2>1. /\ pc' \in Early \cup {"gdt"} => pc \in Early \cup {"gdt"}
        /\ pc' = "idt" => (pc \in {"gdt"} /\ i' = 1) \/ (pc = "idt" /\ i' = i)
        /\ pc' = "handlers" => pc = "handlers"
        /\ pc' = "load_idt" => pc = "load_idt"
    BY <1>3 DEF BInv, Places, Early, Tables, Main, Ends, Next, vars, CheckRevision, Com1,
         InitializeGdt, initialize_paging, CheckFramebuffer,
         PrintAmount, PrintEntry, Draw, PrintHello, Hcf, Fault, Shutdown, Interrupt, Goto
  <2>2. gates' = gates /\ handlers' = handlers /\ idtr' = idtr
    BY <1>3
  <2>3. pc' = "idt" => DOMAIN gates' = {isrs[k] : k \in 1 .. i' - 1}
    <3>1. CASE pc' = "idt" /\ pc = "idt"
      BY <2>1, <2>2, <3>1 DEF BInv, GateInv
    <3>2. CASE pc' = "idt" /\ pc = "gdt"
      <4>1. i' - 1 = 0 /\ DOMAIN gates' = {}
        BY <2>1, <2>2, <3>2 DEF BInv, GateInv
      <4>2. {isrs[k] : k \in 1 .. 0} = {}
        OBVIOUS
      <4> QED
        BY <4>1, <4>2
    <3> QED
      BY <2>1, <3>1, <3>2
  <2> QED
    BY <2>1, <2>2, <2>3 DEF BInv, GateInv, Early
<1>4. RegisterIsr \/ load_custom_interrupts \/ load_idt \/ UNCHANGED <<gates, handlers, idtr>>
  BY DEF Next, vars, idtvars, CheckRevision, Com1, InitializeGdt,
         initialize_paging, CheckFramebuffer, PrintAmount, PrintEntry, Draw, PrintHello, Hcf, Fault,
         Shutdown, Interrupt
<1> QED
  BY <1>1, <1>2, <1>3, <1>4

LEMMA SaidStep == BInv /\ [Next]_vars => SaidInv'
<1> SUFFICES ASSUME BInv, [Next]_vars PROVE SaidInv'
  OBVIOUS
<1>0. MaxEntries \in Nat
  BY BootAssumption
<1>1. CASE PrintAmount \/ PrintEntry \/ PrintHello \/ initialize_paging
  <2>1. PICK x \in {"physical_address_bits", "amount", "entry", "hello"} : said' = Append(said, x)
    BY <1>1 DEF PrintAmount, PrintEntry, PrintHello, initialize_paging, Prints
  <2>2. /\ said \in Seq({"physical_address_bits", "amount", "entry", "hello"})
        /\ said' \in Seq({"physical_address_bits", "amount", "entry", "hello"})
        /\ Len(said') = Len(said) + 1 /\ Len(said) \in Nat
    BY <2>1 DEF BInv, SaidInv
  <2>3. CASE PrintAmount
    BY <1>0, <2>2, <2>3 DEF PrintAmount, Goto, BInv, SaidInv, Early, Tables
  <2>4. CASE PrintEntry
    <3>1. /\ pc = "print_entries" /\ pc' = "print_entries" /\ i' = i + 1 /\ i \in Nat
          /\ i <= memmap.entry_count /\ memmap.entry_count \in 0 .. MaxEntries
      BY <2>4 DEF PrintEntry, BInv, Places
    <3>2. Len(said) <= 1 + i
      BY <3>1 DEF BInv, SaidInv
    <3>3. Len(said') <= 1 + i' /\ Len(said') <= 3 + MaxEntries
      <4> DEFINE n == memmap.entry_count
                 m == Len(said)
      <4>1. m \in Nat /\ m <= 1 + i /\ i <= n /\ n <= MaxEntries /\ n \in Nat /\ Len(said') = m + 1
        BY <2>2, <3>1, <3>2
      <4> HIDE DEF n, m
      <4> QED
        BY <1>0, <3>1, <4>1
    <3> QED
      BY <2>2, <3>1, <3>3 DEF SaidInv, Early, Tables
  <2>5. CASE PrintHello
    <3>1. pc' = "hcf" /\ Len(said) <= 2 + MaxEntries
      BY <2>5 DEF PrintHello, Goto, BInv, SaidInv
    <3>2. Len(said') <= 3 + MaxEntries
      BY <1>0, <2>2, <3>1
    <3> QED
      BY <2>2, <3>1, <3>2 DEF SaidInv, Early, Tables
  <2>6. CASE initialize_paging
    BY <1>0, <2>2, <2>6 DEF initialize_paging, Goto, BInv, SaidInv, Early, Tables
  <2> QED
    BY <1>1, <2>3, <2>4, <2>5, <2>6
<1>2. CASE Draw
  <2> DEFINE n == memmap.entry_count
  <2>1. said' = said /\ pc = "print_entries" /\ pc' = "print_hello"
    BY <1>2 DEF Draw, Goto
  <2>2. i \in 1 .. n + 1 /\ n \in 0 .. MaxEntries
    BY <2>1 DEF BInv, Places
  <2>3. Len(said) <= 2 + MaxEntries
    <3>1. Len(said) \in Nat /\ Len(said) <= 1 + i
      BY <2>1 DEF BInv, SaidInv
    <3> HIDE DEF n
    <3> QED
      BY <1>0, <2>2, <3>1
  <2> QED
    BY <2>1, <2>3 DEF BInv, SaidInv, Early, Tables
<1>3. CASE UNCHANGED said /\ ~PrintAmount /\ ~PrintEntry /\ ~PrintHello /\ ~initialize_paging /\ ~Draw
  <2>1. /\ pc' \in Early \cup {"gdt"} \cup Tables => pc \in Early \cup {"gdt"} \cup Tables
        /\ pc' \in {"check_framebuffer", "print_amount", "fault"} =>
             pc \in {"check_framebuffer", "print_amount", "fault"}
        /\ pc' = "print_entries" => pc = "print_entries" /\ i' = i
        /\ pc' = "print_hello" => pc = "print_hello"
    BY <1>3 DEF BInv, Places, Early, Tables, Main, Ends, Next, vars, CheckRevision, Com1,
         InitializeGdt, RegisterIsr, load_custom_interrupts, load_idt, CheckFramebuffer,
         Hcf, Fault, Shutdown, Interrupt, Goto
  <2> QED
    BY <1>3, <2>1 DEF BInv, SaidInv
<1>4. PrintAmount \/ PrintEntry \/ PrintHello \/ initialize_paging \/ Draw \/ UNCHANGED said
  BY DEF Next, vars, CheckRevision, Com1, InitializeGdt, RegisterIsr, load_custom_interrupts,
         load_idt, CheckFramebuffer, Draw, Hcf, Fault, Shutdown, Interrupt
<1> QED
  BY <1>1, <1>2, <1>3, <1>4

\* Below 2^31 no answer of cpuid is, so that jle never takes its branch.
LEMMA WidthStep == BInv /\ [Next]_vars => WidthInv'
<1> SUFFICES ASSUME BInv, [Next]_vars PROVE WidthInv'
  OBVIOUS
<1>1. cpu' = cpu
  BY DEF Next, vars, given, CheckRevision, Com1, InitializeGdt, RegisterIsr, load_custom_interrupts,
         load_idt, initialize_paging, CheckFramebuffer, PrintAmount, PrintEntry, Draw, PrintHello,
         Hcf, Fault, Shutdown, Interrupt
<1>2. CASE MAXPHYSADDR' = MAXPHYSADDR
  BY <1>1, <1>2 DEF BInv, WidthInv, ReportedWidthIsUsed
<1>3. CASE MAXPHYSADDR' = get_max_phys_addr_bits
  <2>1. /\ U32 \in Nat /\ cpu.max_leaf \in U32 \div 2 .. U32 - 1
        /\ cpu.phys \in 0 .. 255 /\ cpu.linear \in 0 .. 255
    BY BootAssumption DEF BInv, Places, Byte
  <2>2. (cpu.linear * 256 + cpu.phys) % 256 = cpu.phys
    <3>1. \A l, p \in 0 .. 255 : (l * 256 + p) % 256 = p
      OBVIOUS
    <3>2. PICK l \in 0 .. 255, p \in 0 .. 255 : l = cpu.linear /\ p = cpu.phys
      BY <2>1
    <3>3. (l * 256 + p) % 256 = p
      BY <3>1
    <3> QED
      BY <3>2, <3>3
  <2> DEFINE half == U32 \div 2
             immediate == IF half + 8 >= half THEN half + 8 - U32 ELSE half + 8
  <2>3. half \in Nat /\ 2 * half <= U32 /\ U32 <= 2 * half + 1
    BY <2>1
  <2>4. MAXPHYSADDR' = IF cpu.max_leaf <= immediate THEN 36 ELSE cpu.phys
    <3>1. MAXPHYSADDR' = IF cpu.max_leaf <= immediate THEN 36
                         ELSE (cpu.linear * 256 + cpu.phys) % 256
      BY <1>3, <2>1 DEF get_max_phys_addr_bits, WidthLeaf, ExtendedLeaf
    <3> QED
      BY <2>2, <3>1, Zenon
  <2>5. cpu.max_leaf \in half .. U32 - 1
    BY <2>1
  <2> HIDE DEF half
  <2>6. immediate = half + 8 - U32
    BY <2>3
  <2>7. cpu.max_leaf >= half + 8 => ~(cpu.max_leaf <= immediate)
    <3> HIDE DEF immediate
    <3> QED
      BY <2>1, <2>3, <2>5, <2>6
  <2>8. MAXPHYSADDR' \in Byte
    BY <2>1, <2>4 DEF Byte
  <2> HIDE DEF immediate
  <2>9. cpu.max_leaf >= half + 8 => MAXPHYSADDR' = cpu.phys
    BY <2>4, <2>7
  <2> QED
    BY <1>1, <2>8, <2>9 DEF WidthInv, ReportedWidthIsUsed, WidthLeaf, ExtendedLeaf, half
<1>4. MAXPHYSADDR' = MAXPHYSADDR \/ MAXPHYSADDR' = get_max_phys_addr_bits
  BY DEF Next, vars, idtvars, CheckRevision, Com1, InitializeGdt, RegisterIsr,
         load_custom_interrupts, load_idt, initialize_paging, CheckFramebuffer, PrintAmount,
         PrintEntry, Draw, PrintHello, Hcf, Fault, Shutdown, Interrupt
<1> QED
  BY <1>2, <1>3, <1>4

LEMMA InitBInv == Init => BInv
<1> SUFFICES ASSUME Init PROVE BInv
  OBVIOUS
<1>1. Places
  <2>1. memmap.entry_count \in 0 .. MaxEntries
    <3>1. CASE memmap \in [response : {"NULL"}, entry_count : {0}]
      <4>1. memmap.entry_count = 0 /\ MaxEntries \in Nat
        BY <3>1, BootAssumption
      <4> QED
        BY <4>1
    <3>2. CASE memmap \in [response : {"present"}, entry_count : 0 .. MaxEntries]
      BY <3>2
    <3> QED
      BY <3>1, <3>2 DEF Init
  <2> QED
    BY <2>1 DEF Init, Places, Early, Tables, Main, Ends
<1>2. UartInv
  BY DEF Init, UartInv, Byte, Tables, Main
<1>3. SegInv
  <2>1. NullDescriptor \in [1 .. 8 -> Byte]
    BY DEF NullDescriptor, Byte
  <2>2. Entries /\ Len(gdt) = 1
    BY <2>1 DEF Init, Entries
  <2>3. LimineTable /\ LimineSelectors /\ segs \in [cs : {8, 40}, ss : {16, 48}]
    BY DEF Init, LimineTable, LimineSelectors
  <2>4. Registers
    BY <2>2, <2>3 DEF Init, Registers, Early, Tables, Main
  <2>5. Masked
    BY <2>3, Zenon DEF Init, Masked, Consistent
  <2> QED
    BY <2>2, <2>4, <2>5 DEF SegInv
<1>4. GateInv
  BY DEF Init, GateInv, Early
<1>5. SaidInv
  BY BootAssumption DEF Init, SaidInv, Early, Tables
<1>6. WidthInv
  BY DEF Init, WidthInv, ReportedWidthIsUsed, Byte
<1> QED
  BY <1>1, <1>2, <1>3, <1>4, <1>5, <1>6 DEF BInv

LEMMA Invariant == Spec => []BInv
<1>1. BInv /\ [Next]_vars => BInv'
  BY PlacesStep, UartStep, SegStep, GateStep, SaidStep, WidthStep DEF BInv
<1> QED
  BY <1>1, InitBInv, PTL DEF Spec

-----------------------------------------------------------------------------
(* What follows from it.                                                   *)

\* What the selectors designate, in Limine's table and in the kernel's.
LEMMA Designates ==
  ASSUME Entries, Consistent
  PROVE  Segment(segs.cs) = <<"kernel", "code">> /\ Segment(segs.ss) = <<"kernel", "data">>
<1>1. CASE LimineTable /\ LimineSelectors
  BY <1>1 DEF LimineTable, LimineSelectors, Segment
<1>2. CASE OwnTable /\ OwnSelectors
  <2>1. SegmentKind(gdt[2]) = <<"kernel", "code">> /\ SegmentKind(gdt[3]) = <<"kernel", "data">>
    BY <1>2, Segments DEF Entries, OwnTable
  <2>2. gdtr.limit = 39 /\ gdtr.base = "table" /\ segs.cs = 8 /\ segs.ss = 16
    BY <1>2 DEF OwnTable, OwnSelectors
  <2>3. 8 \div 8 + 1 = 2 /\ 16 \div 8 + 1 = 3
    OBVIOUS
  <2> QED
    BY <2>1, <2>2, <2>3 DEF Segment
<1> QED
  BY <1>1, <1>2 DEF Consistent

\* The gate of a vector, as its bytes and as what the processor makes of them.
LEMMA Gates ==
  ASSUME NEW v \in Gated
  PROVE  LET b == GateBytes(create_interrupt_descriptor(Stub[v], 8, 0))
         IN  /\ b \in [1 .. 16 -> Byte]
             /\ GatePresent(b) /\ GateType(b) = 15 /\ GateStack(b) = 0
             /\ GateOffset(b) = Stub[v] /\ GateSelector(b) = 8
<1> DEFINE d == create_interrupt_descriptor(Stub[v], 8, 0)
           b == GateBytes(d)
<1>1. Stub[v] \in Address /\ 8 \in U16 /\ 0 \in 0 .. 7
  BY BootAssumption DEF Gated, U16
<1>2. \A x \in U16 : Low(x) \in Byte /\ High(x) \in Byte
  BY DEF U16, Low, High, Byte
<1>3. \A k \in 1 .. 4 : Stub[v][k] \in U16
  BY <1>1 DEF Address
<1>4. 143 * 256 + 0 \in U16 /\ 0 \in Byte
  BY DEF U16, Byte
<1>5. b = << Low(Stub[v][1]), High(Stub[v][1]), Low(8), High(8),
             Low(143 * 256 + 0), High(143 * 256 + 0),
             Low(Stub[v][2]), High(Stub[v][2]), Low(Stub[v][3]), High(Stub[v][3]),
             Low(Stub[v][4]), High(Stub[v][4]), 0, 0, 0, 0 >>
  BY SMT DEF GateBytes, create_interrupt_descriptor
<1>6. b \in [1 .. 16 -> Byte]
  BY <1>1, <1>2, <1>3, <1>4, <1>5
<1> HIDE DEF b, d
<1> QED
  BY <1>1, <1>6, GateDecodes DEF b, d

LEMMA Types == BInv => TypeOK
<1> SUFFICES ASSUME BInv PROVE TypeOK
  OBVIOUS
<1>1. i \in 1 .. 33 \cup 1 .. MaxEntries + 1
  <2> DEFINE n == memmap.entry_count
  <2>1. n \in 0 .. MaxEntries /\ MaxEntries \in Nat /\ (i \in 1 .. 33 \/ i \in 1 .. n + 1)
    BY BootAssumption DEF BInv, Places
  <2> HIDE DEF n
  <2> QED
    BY <2>1
<1>2. DOMAIN uart = {"ier", "dll", "dlm", "fcr", "lcr", "mcr"}
  BY DEF BInv, UartInv
<1>3. gdt \in Seq([1 .. 8 -> Byte]) /\ Len(gdt) <= 5 /\ segs.cs \in {8, 40} /\ segs.ss \in {16, 48}
  <2>1. gdt \in Seq([1 .. 8 -> Byte]) /\ Len(gdt) \in 1 .. 5
    BY DEF BInv, SegInv, Entries
  <2>2. segs \in [cs : {8, 40}, ss : {16, 48}]
    BY DEF BInv, SegInv, Registers
  <2>3. Len(gdt) <= 5
    <3> DEFINE n == Len(gdt)
    <3>1. n \in 1 .. 5
      BY <2>1
    <3> HIDE DEF n
    <3>2. n <= 5
      BY <3>1
    <3> QED
      BY <3>2 DEF n
  <2>4. segs.cs \in {8, 40} /\ segs.ss \in {16, 48}
    BY <2>2
  <2> QED
    BY <2>1, <2>3, <2>4, Zenon
<1>4. DOMAIN gates \subseteq Range(isrs)
  <2>1. DOMAIN isrs = 1 .. 33 /\ DOMAIN gates \subseteq Gated
    BY DEF isrs, BInv, GateInv
  <2> QED
    BY <2>1, Isrs DEF Range
<1>5. \A v \in DOMAIN gates : gates[v] \in [1 .. 16 -> Byte]
  BY Gates DEF BInv, GateInv
<1>6. MAXPHYSADDR \in Byte /\ idtr \in {"bootloader", "leftover"} /\ Len(said) <= 3 + MaxEntries
  BY DEF BInv, WidthInv, GateInv, SaidInv
<1> QED
  BY <1>1, <1>2, <1>3, <1>4, <1>5, <1>6 DEF TypeOK

\* Boot's variables keep their types, and no loop of init() or kmain leaves its
\* bounds: kmain prints at most three lines and one for each memory map entry.
THEOREM BootTypeOK == Spec => []TypeOK
BY Invariant, Types, PTL

\* At no point where an interrupt can come does cs or ss designate anything
\* but a kernel segment of the right type in the GDT in force, whether that is
\* still Limine's or already the kernel's.
THEOREM BootSegmentsValid == Spec => []SegmentsValidWhenInterruptible
<1>1. BInv => SegmentsValidWhenInterruptible
  <2> SUFFICES ASSUME BInv PROVE SegmentsValidWhenInterruptible
    OBVIOUS
  <2>1. if => Consistent
    BY Zenon DEF BInv, SegInv, Masked
  <2>2. Entries
    BY DEF BInv, SegInv
  <2> QED
    BY <2>1, <2>2, Designates, Zenon DEF SegmentsValidWhenInterruptible
<1> QED
  BY <1>1, Invariant, PTL

\* On every processor that has the leaf with the address widths, the width that
\* initialize_paging keeps is the one the processor reports.
THEOREM BootReportedWidth == Spec => []ReportedWidthIsUsed
<1>1. BInv => ReportedWidthIsUsed
  BY DEF BInv, WidthInv
<1> QED
  BY <1>1, Invariant, PTL

\* No text goes out before initialize_com1 has programmed the UART.
THEOREM BootSpeaksOnlyWhenProgrammed == Spec => SpeaksOnlyWhenProgrammed
<1>1. BInv /\ [Next]_vars =>
        [said' # said => /\ uart.dll = 1 /\ uart.dlm = 0
                         /\ uart.lcr = 3 /\ uart.fcr % 2 = 1 /\ uart.ier = 0]_vars
  <2> SUFFICES ASSUME BInv, [Next]_vars, said' # said
               PROVE  /\ uart.dll = 1 /\ uart.dlm = 0
                      /\ uart.lcr = 3 /\ uart.fcr % 2 = 1 /\ uart.ier = 0
    OBVIOUS
  <2>1. PrintAmount \/ PrintEntry \/ PrintHello \/ initialize_paging
    BY DEF Next, vars, CheckRevision, Com1, InitializeGdt, RegisterIsr, load_custom_interrupts,
           load_idt, CheckFramebuffer, Draw, Hcf, Fault, Shutdown, Interrupt
  <2>2. pc \in Tables \cup Main
    BY <2>1 DEF PrintAmount, PrintEntry, PrintHello, initialize_paging, Goto, Tables, Main
  <2>3. uart.ier = 0 /\ uart.dll = 1 /\ uart.dlm = 0 /\ uart.lcr = 3 /\ uart.fcr = 199
    BY <2>2 DEF BInv, UartInv
  <2> QED
    BY <2>3
<1> QED
  BY <1>1, Invariant, PTL DEF Spec, SpeaksOnlyWhenProgrammed

\* When the IDTR is loaded, every one of the 33 gates is, as the processor reads
\* its bytes, a present trap gate to its own stub through a kernel code segment,
\* wherever the linker put the stubs.
THEOREM BootTableFinished == Spec => TableFinishedBeforeLoad
<1> DEFINE Finished ==
      /\ handlers = {3}
      /\ DOMAIN gates = 0 .. 31 \cup {128}
      /\ \A v \in DOMAIN gates :
           /\ GatePresent(gates[v]) /\ GateType(gates[v]) = 15
           /\ GateStack(gates[v]) = 0
           /\ GateOffset(gates[v]) = Stub[v]
           /\ Segment(GateSelector(gates[v])) = <<"kernel", "code">>
<1>1. BInv /\ [Next]_vars => [idtr' # idtr => Finished]_vars
  <2> SUFFICES ASSUME BInv, [Next]_vars, idtr' # idtr PROVE Finished
    OBVIOUS
  <2>1. load_idt
    BY DEF Next, vars, idtvars, CheckRevision, Com1, InitializeGdt, RegisterIsr,
           load_custom_interrupts, initialize_paging, CheckFramebuffer, PrintAmount, PrintEntry,
           Draw, PrintHello, Hcf, Fault, Shutdown, Interrupt
  <2>2. pc = "load_idt"
    BY <2>1 DEF load_idt, Goto
  <2>3. /\ handlers = {3} /\ DOMAIN gates = Gated
        /\ \A v \in Gated : gates[v] = GateBytes(create_interrupt_descriptor(Stub[v], 8, 0))
    BY <2>2 DEF BInv, GateInv
  <2>4. Entries /\ OwnTable /\ OwnSelectors
    BY <2>2 DEF BInv, SegInv, Registers, Tables
  <2>5. Segment(8) = <<"kernel", "code">>
    <3>1. segs.cs = 8
      BY <2>4 DEF OwnSelectors
    <3> QED
      BY <2>4, <3>1, Designates DEF Consistent
  <2>6. ASSUME NEW v \in Gated
        PROVE  /\ GatePresent(gates[v]) /\ GateType(gates[v]) = 15
               /\ GateStack(gates[v]) = 0
               /\ GateOffset(gates[v]) = Stub[v]
               /\ Segment(GateSelector(gates[v])) = <<"kernel", "code">>
    BY <2>3, <2>5, Gates
  <2> QED
    BY <2>3, <2>6 DEF Gated
<1> QED
  BY <1>1, Invariant, PTL DEF Spec, TableFinishedBeforeLoad
=============================================================================
