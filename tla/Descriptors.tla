----------------------------- MODULE Descriptors ----------------------------
(***************************************************************************)
(* The descriptors gdt.c and idt.c build, as the bytes they leave in       *)
(* memory, and what the processor makes of those bytes.  The structures    *)
(* are packed, so a descriptor is its fields' bytes, least significant     *)
(* first, in the order gdt.h and idt.h declare them.                       *)
(***************************************************************************)
EXTENDS Naturals, Sequences

Byte == 0 .. 255
U16 == {x \in Nat : x < 65536}

\* A 64-bit address as four 16-bit limbs, the lowest first.
Address == [1 .. 4 -> U16]

Low(x) == x % 256
High(x) == x \div 256
-----------------------------------------------------------------------------
(* Segments                                                                *)

create_segment(base, limit, access, flags) ==
  [limit       |-> limit % 65536,
   base_low    |-> base % 65536,
   base_middle |-> (base \div 65536) % 256,
   access      |-> access,
   options     |-> ((limit \div 65536) % 16) + (flags % 16) * 16,
   base_high   |-> (base \div 16777216) % 256]

\* segment_descriptor in memory.
SegmentBytes(d) ==
  << Low(d.limit), High(d.limit), Low(d.base_low), High(d.base_low),
     d.base_middle, d.access, d.options, d.base_high >>

NullDescriptor == [k \in 1 .. 8 |-> 0]

\* What the processor reads.
SegmentBase(b) == b[3] + 256 * b[4] + 65536 * b[5] + 16777216 * b[8]
SegmentLimit(b) == b[1] + 256 * b[2] + 65536 * (b[7] % 16)
SegmentAccess(b) == b[6]
SegmentFlags(b) == b[7] \div 16

\* The bit of x that has this weight.
Bit(x, weight) == (x \div weight) % 2 = 1

\* The segment a descriptor is, in long mode: a code segment must have its L
\* bit set and its D bit clear, a stack segment must be writable data.
SegmentKind(b) ==
  LET access == SegmentAccess(b)
      who == CASE (access \div 32) % 4 = 0 -> "kernel"
               [] (access \div 32) % 4 = 3 -> "user"
               [] OTHER -> "other"
      what == IF Bit(access, 8)
              THEN IF Bit(SegmentFlags(b), 2) /\ ~Bit(SegmentFlags(b), 4)
                   THEN "code" ELSE "none"
              ELSE IF Bit(access, 2) THEN "data" ELSE "none"
  IN  IF Bit(access, 128) /\ Bit(access, 16) THEN <<who, what>> ELSE <<"none", "none">>

-----------------------------------------------------------------------------
(* Gates                                                                   *)

\* Mutant: the middle of the handler's address is left out.
create_interrupt_descriptor_no_middle(handler, segment_selector, ist) ==
  [offset_low       |-> handler[1],
   segment_selector |-> segment_selector,
   options          |-> 143 * 256 + ist,
   offset_middle    |-> 0,
   offset_high      |-> <<handler[3], handler[4]>>,
   _reserved        |-> 0]

\* attributes: present, DPL 0, trap gate (0x8F).
create_interrupt_descriptor(handler, segment_selector, ist) ==
  [offset_low       |-> handler[1],
   segment_selector |-> segment_selector,
   options          |-> 143 * 256 + ist,
   offset_middle    |-> handler[2],
   offset_high      |-> <<handler[3], handler[4]>>,
   _reserved        |-> 0]

\* interrupt_descriptor_t in memory.
GateBytes(d) ==
  << Low(d.offset_low), High(d.offset_low),
     Low(d.segment_selector), High(d.segment_selector),
     Low(d.options), High(d.options),
     Low(d.offset_middle), High(d.offset_middle),
     Low(d.offset_high[1]), High(d.offset_high[1]),
     Low(d.offset_high[2]), High(d.offset_high[2]), 0, 0, 0, 0 >>

\* What the processor reads.
GateOffset(b) ==
  <<b[1] + 256 * b[2], b[7] + 256 * b[8], b[9] + 256 * b[10], b[11] + 256 * b[12]>>
GateSelector(b) == b[3] + 256 * b[4]
GateStack(b) == b[5] % 8
GateType(b) == b[6] % 16
GatePrivilege(b) == (b[6] \div 32) % 4
GatePresent(b) == b[6] >= 128
=============================================================================
