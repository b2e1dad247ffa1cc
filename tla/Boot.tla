-------------------------------- MODULE Boot --------------------------------
(***************************************************************************)
(* The kernel's one thread of control, from the bootloader's jump to kmain *)
(* to hcf: the checks of main.c, init() and what it programs (the UART,    *)
(* the GDT, the segment registers, the interrupt flag, the gate table and  *)
(* the IDTR), and what the machine does with an exception or an interrupt  *)
(* that comes on the way.                                                  *)
(*                                                                         *)
(* The bootloader, the firmware and the devices are the environment: which *)
(* responses it left, whether interrupts were on, and when one strikes.    *)
(***************************************************************************)
EXTENDS Integers, Descriptors

CONSTANTS
  MaxEntries,  \* bound: entries of the memory map
  Stub,        \* Stub[v]: the address of isrv
  U32,         \* the number of values of a 32-bit word: 2^32
  Processors   \* what cpuid says: [max_leaf, phys, linear]

ASSUME BootAssumption ==
  /\ MaxEntries \in Nat
  /\ Stub \in [0 .. 31 \cup {128} -> Address]
  /\ U32 \in Nat
  /\ Processors \subseteq
       [max_leaf : U32 \div 2 .. U32 - 1, phys : Byte, linear : Byte]

VARIABLES
  pc,          \* where kmain is
  i,           \* index of a loop or of a straight-line sequence at pc
  revision_ok, \* LIMINE_BASE_REVISION_SUPPORTED
  framebuffer, \* framebuffer_request.response: "NULL", "empty" or "present"
  memmap,      \* memmap_request.response and its entry_count
  cpu,         \* the processor
  uart,        \* the UART's registers
  gdt,         \* global_descriptor_table.entries[0 .. length - 1]
  gdtr,        \* [base, limit]
  segs,        \* cs and ss
  if,          \* the interrupt flag
  gates,       \* the entries of interrupt_table that are not zero
  handlers,    \* vectors with an entry in isr_handler_table
  idtr,        \* the base in the IDTR
  MAXPHYSADDR, \* the physical address width found
  said         \* what has been printed, one element per printf

uartvars == uart
segvars == <<gdt, gdtr, segs, if>>
idtvars == <<gates, handlers, idtr, MAXPHYSADDR>>
given == <<revision_ok, framebuffer, memmap, cpu>>
vars == <<pc, i, given, uartvars, segvars, idtvars, said>>

Init ==
  /\ pc = "check_revision" /\ i = 1
  /\ revision_ok \in BOOLEAN
  /\ framebuffer \in {"NULL", "empty", "present"}
  /\ memmap \in [response : {"NULL"}, entry_count : {0}]
               \cup [response : {"present"}, entry_count : 0 .. MaxEntries]
  /\ \E dll \in {1, 12} : \E ier \in {0, 1} :
       uart = [ier |-> ier, dll |-> dll, dlm |-> 0, fcr |-> 0, lcr |-> 3, mcr |-> 0]
  /\ cpu \in Processors
  /\ gdt = <<NullDescriptor>>
  /\ gdtr = [base |-> "bootloader", limit |-> 55]
  /\ segs = [cs |-> 40, ss |-> 48]
  /\ if \in BOOLEAN
  /\ gates = <<>> /\ handlers = {} /\ MAXPHYSADDR = 0
  /\ idtr = "bootloader"
  /\ said = <<>>

Goto(from, to) == pc = from /\ pc' = to /\ i' = 1

\* printf: _putchar's characters go to the UART's data register.
Prints(what) == said' = Append(said, what)

-----------------------------------------------------------------------------
(* kmain                                                                   *)

CheckRevision ==
  /\ Goto("check_revision", IF revision_ok THEN "com1" ELSE "hcf")
  /\ UNCHANGED <<given, uartvars, segvars, idtvars, said>>

CheckFramebuffer ==
  /\ Goto("check_framebuffer",
          IF framebuffer # "present" THEN "hcf"
          ELSE IF memmap.response = "NULL" THEN "fault" ELSE "print_amount")
  /\ UNCHANGED <<given, uartvars, segvars, idtvars, said>>

PrintAmount ==
  /\ Goto("print_amount", "print_entries")
  /\ Prints("amount")
  /\ UNCHANGED <<given, uartvars, segvars, idtvars>>

\* Mutant: the loop runs once too often.
PrintEntryTooOften ==
  /\ pc = "print_entries" /\ i <= memmap.entry_count + 1
  /\ Prints("entry")
  /\ i' = i + 1
  /\ UNCHANGED <<pc, given, uartvars, segvars, idtvars>>

PrintEntry ==
  /\ pc = "print_entries" /\ i <= memmap.entry_count
  /\ Prints("entry")
  /\ i' = i + 1
  /\ UNCHANGED <<pc, given, uartvars, segvars, idtvars>>

\* Mutant: the loop may end early.
DrawEarly ==
  /\ Goto("print_entries", "print_hello")
  /\ UNCHANGED <<given, uartvars, segvars, idtvars, said>>

\* The loop's end; drawing keeps to the framebuffer and has no other state.
Draw ==
  /\ Goto("print_entries", "print_hello")
  /\ i > memmap.entry_count
  /\ UNCHANGED <<given, uartvars, segvars, idtvars, said>>

PrintHello ==
  /\ Goto("print_hello", "hcf")
  /\ Prints("hello")
  /\ UNCHANGED <<given, uartvars, segvars, idtvars>>

\* hlt; jmp hcf.
Hcf == pc = "hcf" /\ UNCHANGED vars

-----------------------------------------------------------------------------
(* initialize_com1                                                         *)

\* Mutant: the divisor latch stays open.
Com1LatchOpen == << <<1, 0>>, <<3, 128>>, <<0, 1>>, <<1, 0>>, <<2, 199>>, <<4, 11>> >>

\* Offset from COM1 and value, in the order of the outb calls.
initialize_com1 ==
  << <<1, 0>>, <<3, 128>>, <<0, 1>>, <<1, 0>>, <<3, 3>>, <<2, 199>>, <<4, 11>> >>

DLAB == uart.lcr >= 128

\* Offsets 0 and 1 are the divisor latch while LCR's DLAB bit is set.
outb(offset, value) ==
  uart' = CASE offset = 0 /\ DLAB  -> [uart EXCEPT !.dll = value]
            [] offset = 0 /\ ~DLAB -> uart
            [] offset = 1 /\ DLAB  -> [uart EXCEPT !.dlm = value]
            [] offset = 1 /\ ~DLAB -> [uart EXCEPT !.ier = value]
            [] offset = 2 -> [uart EXCEPT !.fcr = value]
            [] offset = 3 -> [uart EXCEPT !.lcr = value]
            [] offset = 4 -> [uart EXCEPT !.mcr = value]

Com1 ==
  /\ pc = "com1"
  /\ outb(initialize_com1[i][1], initialize_com1[i][2])
  /\ IF i < Len(initialize_com1)
     THEN i' = i + 1 /\ pc' = pc
     ELSE i' = 1 /\ pc' = "gdt"
  /\ UNCHANGED <<given, segvars, idtvars, said>>

-----------------------------------------------------------------------------
(* initialize_gdt                                                          *)

\* The descriptors in the order they are entered after the null one.
segments ==
  << create_segment(0, 1048575, 154, 2),   \* create_kernel_code_segment
     create_segment(0, 1048575, 146, 12),  \* create_kernel_data_segment
     create_segment(0, 1048575, 250, 2),   \* create_user_code_segment
     create_segment(0, 1048575, 242, 2) >> \* create_user_data_segment

\* Mutant: interrupts are on again before ss is reloaded.
GdtEarlySti ==
  <<"cli", "entry", "entry", "entry", "entry", "set_gdt", "reload_cs", "sti", "reload_ss">>

initialize_gdt ==
  <<"cli", "entry", "entry", "entry", "entry", "set_gdt", "reload_cs", "reload_ss", "sti">>

Gdt(op) ==
  CASE op = "cli"       -> if' = FALSE /\ UNCHANGED <<gdt, gdtr, segs>>
    [] op = "entry"     -> gdt' = Append(gdt, SegmentBytes(segments[Len(gdt)]))
                             /\ UNCHANGED <<gdtr, segs, if>>
    [] op = "set_gdt"   -> gdtr' = [base |-> "table", limit |-> Len(gdt) * 8 - 1]
                             /\ UNCHANGED <<gdt, segs, if>>
    [] op = "reload_cs" -> segs' = [segs EXCEPT !.cs = 8] /\ UNCHANGED <<gdt, gdtr, if>>
    [] op = "reload_ss" -> segs' = [segs EXCEPT !.ss = 16] /\ UNCHANGED <<gdt, gdtr, if>>
    [] op = "sti"       -> if' = TRUE /\ UNCHANGED <<gdt, gdtr, segs>>

InitializeGdt ==
  /\ pc = "gdt"
  /\ Gdt(initialize_gdt[i])
  /\ IF i < Len(initialize_gdt)
     THEN i' = i + 1 /\ pc' = pc
     ELSE i' = 1 /\ pc' = "idt"
  /\ UNCHANGED <<given, uartvars, idtvars, said>>

-----------------------------------------------------------------------------
(* initialize_idt                                                          *)

\* set_interrupts_in_table: REGISTER_ISR for vectors 0 to 31, then 128.
isrs == [k \in 1 .. 33 |-> IF k = 33 THEN 128 ELSE k - 1]

RegisterIsr ==
  /\ pc = "idt"
  /\ gates' = [v \in DOMAIN gates \cup {isrs[i]} |->
                 IF v = isrs[i]
                 THEN GateBytes(create_interrupt_descriptor(Stub[v], 8, 0))
                 ELSE gates[v]]
  /\ IF i < Len(isrs) THEN i' = i + 1 /\ pc' = pc ELSE i' = 1 /\ pc' = "handlers"
  /\ UNCHANGED <<given, uartvars, segvars, handlers, idtr, MAXPHYSADDR, said>>

load_custom_interrupts ==
  /\ Goto("handlers", "load_idt")
  /\ handlers' = handlers \cup {3}
  /\ UNCHANGED <<given, uartvars, segvars, gates, idtr, MAXPHYSADDR, said>>

\* load_idt is declared without parameters and called without arguments:
\* its di and rsi are whatever the caller's code left in them, and no code
\* of the caller has the table's address and size there.
load_idt ==
  /\ Goto("load_idt", "paging")
  /\ idtr' = "leftover"
  /\ UNCHANGED <<given, uartvars, segvars, gates, handlers, MAXPHYSADDR, said>>

\* The first extended leaf, and the one with the address widths.
ExtendedLeaf == U32 \div 2
WidthLeaf == ExtendedLeaf + 8

\* Mutant: the comparison its source seems to make.
get_max_phys_addr_bits_as_written ==
  IF cpu.max_leaf <= WidthLeaf THEN 36 ELSE (cpu.linear * 256 + cpu.phys) % 256

\* cmp takes its immediate sign-extended to 64 bits, and jle compares signed:
\* every answer of cpuid is greater.  A processor without the leaf answers
\* something all the same.
get_max_phys_addr_bits ==
  LET immediate == IF WidthLeaf >= U32 \div 2 THEN WidthLeaf - U32 ELSE WidthLeaf
  IN  IF cpu.max_leaf <= immediate THEN 36
      ELSE (cpu.linear * 256 + cpu.phys) % 256

initialize_paging ==
  /\ Goto("paging", "check_framebuffer")
  /\ MAXPHYSADDR' = get_max_phys_addr_bits
  /\ Prints("physical_address_bits")
  /\ UNCHANGED <<given, uartvars, segvars, gates, handlers, idtr>>

-----------------------------------------------------------------------------
(* The machine                                                             *)

\* The segment a selector designates.  Limine's table has 64-bit segments of
\* the kernel at 40 and 48.
Segment(selector) ==
  IF selector + 7 > gdtr.limit THEN <<"none", "none">>
  ELSE IF gdtr.base = "bootloader"
       THEN CASE selector = 40 -> <<"kernel", "code">>
              [] selector = 48 -> <<"kernel", "data">>
              [] OTHER -> <<"other", "other">>
       ELSE SegmentKind(gdt[selector \div 8 + 1])

\* A gate can be taken only if the IDTR designates a table that has it and
\* the gate's selector is a code segment.  Module Traps takes over from there.
\* In every other case nothing the kernel chose runs again: the processor shuts
\* down, or goes where leftover bytes send it.
Vectored(v) ==
  /\ idtr = "interrupt_table" /\ v \in DOMAIN gates
  /\ GatePresent(gates[v])
  /\ Segment(GateSelector(gates[v])) = <<"kernel", "code">>

\* An interrupt strikes, if they are on; or one that cannot be masked.
Interrupt(maskable) ==
  /\ pc # "shutdown"
  /\ maskable => if
  /\ ~Vectored(2)
  /\ pc' = "shutdown" /\ i' = 1
  /\ UNCHANGED <<given, uartvars, segvars, idtvars, said>>

\* The page fault of the unchecked memory map response.
Fault ==
  /\ ~Vectored(14)
  /\ Goto("fault", "shutdown")
  /\ UNCHANGED <<given, uartvars, segvars, idtvars, said>>

Shutdown == pc = "shutdown" /\ UNCHANGED vars

Kernel ==
  \/ CheckRevision \/ Com1 \/ InitializeGdt
  \/ RegisterIsr \/ load_custom_interrupts \/ load_idt \/ initialize_paging
  \/ CheckFramebuffer \/ PrintAmount \/ PrintEntry \/ Draw \/ PrintHello
  \/ Hcf \/ Fault \/ Shutdown

Next ==
  \/ CheckRevision \/ Com1 \/ InitializeGdt
  \/ RegisterIsr \/ load_custom_interrupts \/ load_idt \/ initialize_paging
  \/ CheckFramebuffer \/ PrintAmount \/ PrintEntry \/ Draw \/ PrintHello
  \/ Hcf \/ Fault \/ Shutdown
  \/ \E maskable \in BOOLEAN : Interrupt(maskable)

Spec == Init /\ [][Next]_vars

\* The processor keeps executing; nobody owes the kernel an interrupt.
FairSpec == Spec /\ WF_vars(Kernel)
-----------------------------------------------------------------------------
(* Properties.                                                             *)

Range(s) == {s[k] : k \in DOMAIN s}

TypeOK ==
  /\ i \in 1 .. 33 \cup 1 .. MaxEntries + 1
  /\ DOMAIN uart = {"ier", "dll", "dlm", "fcr", "lcr", "mcr"}
  /\ gdt \in Seq([1 .. 8 -> Byte]) /\ Len(gdt) <= 5
  /\ segs.cs \in {8, 40} /\ segs.ss \in {16, 48}
  /\ DOMAIN gates \subseteq Range(isrs)
  /\ \A v \in DOMAIN gates : gates[v] \in [1 .. 16 -> Byte]
  /\ MAXPHYSADDR \in Byte
  /\ idtr \in {"bootloader", "leftover"}
  /\ Len(said) <= 3 + MaxEntries

\* Whenever an interrupt can be taken, cs and ss designate segments of the
\* right type in the GDT the processor is using: the switch of descriptor
\* tables in initialize_gdt, which leaves the bootloader's selectors behind
\* the new limit, happens with interrupts off and is over before sti.
SegmentsValidWhenInterruptible ==
  if => /\ Segment(segs.cs) = <<"kernel", "code">>
        /\ Segment(segs.ss) = <<"kernel", "data">>

\* The first character goes out, and every later one, through a UART that is
\* set to 115200 baud, 8N1, with FIFOs on, the divisor latch closed and its
\* interrupts off: no printf comes before initialize_com1 or in its midst.
SpeaksOnlyWhenProgrammed ==
  [][said' # said =>
       /\ uart.dll = 1 /\ uart.dlm = 0
       /\ uart.lcr = 3
       /\ uart.fcr % 2 = 1
       /\ uart.ier = 0]_vars

\* When the IDTR is loaded the table is finished.  As the processor reads
\* its bytes, each of the 33 gates is a present trap gate on the current
\* stack that leads to its own stub through a kernel code segment, and the
\* breakpoint gate leads on to a handler.
TableFinishedBeforeLoad ==
  [][idtr' # idtr =>
       /\ handlers = {3}
       /\ DOMAIN gates = 0 .. 31 \cup {128}
       /\ \A v \in DOMAIN gates :
            /\ GatePresent(gates[v]) /\ GateType(gates[v]) = 15
            /\ GateStack(gates[v]) = 0
            /\ GateOffset(gates[v]) = Stub[v]
            /\ Segment(GateSelector(gates[v])) = <<"kernel", "code">>]_vars

\* A processor that has the leaf with the address widths is believed: the
\* width the kernel goes on with is the one it reports, also when that leaf
\* is the last it has, although the comparison that guards it is not the one
\* its comment describes (pmm.asm:11).
ReportedWidthIsUsed ==
  MAXPHYSADDR # 0 /\ cpu.max_leaf >= WidthLeaf => MAXPHYSADDR = cpu.phys

\* What the comments of load_idt say it moves into the IDTR.
IdtrDesignatesTable ==
  pc \in {"paging", "check_framebuffer", "print_amount", "print_entries", "print_hello"}
    => idtr = "interrupt_table"

\* A kernel the bootloader served says all it has to say and halts, in this
\* order; only an exception or an interrupt can keep it from doing so.
ServedBootCompletes ==
  (revision_ok /\ framebuffer = "present" /\ memmap.response = "present")
    ~> \/ pc = "shutdown"
       \/ /\ pc = "hcf"
          /\ said = <<"physical_address_bits", "amount">>
                      \o [k \in 1 .. memmap.entry_count |-> "entry"] \o <<"hello">>
=============================================================================
