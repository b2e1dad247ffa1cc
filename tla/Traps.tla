-------------------------------- MODULE Traps -------------------------------
(***************************************************************************)
(* Entry into and return from a trap, instruction by instruction: what the *)
(* processor pushes, the stub of isr.asm, isr_handler and the handlers of  *)
(* idt.c, and the way back through popaq and iretq, with further traps     *)
(* delivered between any two of these instructions.                        *)
(*                                                                         *)
(* One stack, one register file.  The stack is a sequence of quadwords,    *)
(* its last element at the lowest address, so rsp is its length; it is     *)
(* 16-byte aligned when that length is even.  A quadword is a tuple that   *)
(* starts with what it is: <<"reg", c, r>> is something context c had in   *)
(* register r, <<"code", p, i>> and <<"stub", v, i>> the address of an     *)
(* instruction of p or of the stub for v, <<"rsp", n>> a stack pointer,    *)
(* <<"imm", q>> a number and <<"error", c>> the error code of trap c.      *)
(*                                                                         *)
(* saved is history: the state of each interrupted context, taken by an    *)
(* observer when the trap strikes.  The program never reads it.            *)
(***************************************************************************)
EXTENDS Integers, Sequences, SequencesExt

CONSTANTS
  Vectors,     \* the vectors delivered, a subset of those with a stub
  ErrorCoded,  \* those of them for which the processor pushes an error code
  MaxTraps,    \* bound: traps delivered in a behaviour
  MaxNest      \* bound: traps in progress at once

Breakpoint == 3

\* isr.asm 63-95: the vectors whose stub is an ISR_ERRCODE one.
ErrorStubs == {8, 10, 11, 12, 13, 14}

\* Alignment check needs CPL 3, and vectors 21, 29 and 30 need CET or an SVM
\* guest: this kernel runs at CPL 0 and turns on none of them, so the
\* vectors delivered push an error code exactly where the stub expects one.
ASSUME TrapsAssumption ==
  /\ Vectors \subseteq 0 .. 31
  /\ ErrorCoded = Vectors \cap ErrorStubs
  /\ MaxTraps \in Nat /\ MaxNest \in Nat

-----------------------------------------------------------------------------
(* The code.                                                               *)

\* Mutant: rdi and rsi change places.
PushaqSwapped == <<"rax", "rbx", "rcx", "rdx", "rbp", "rsi", "rdi", "r8", "r9",
                   "r10", "r11", "r12", "r13", "r14", "r15">>

\* The order of pushaq; popaq is its reverse.
pushaq == <<"rax", "rbx", "rcx", "rdx", "rbp", "rdi", "rsi", "r8", "r9",
            "r10", "r11", "r12", "r13", "r14", "r15">>
\* Mutant: the callee-saved rbx and the caller-saved rcx change places.
PopaqSwapped == <<"r15", "r14", "r13", "r12", "r11", "r10", "r9", "r8", "rsi",
                  "rdi", "rbp", "rdx", "rbx", "rcx", "rax">>

popaq == <<"r15", "r14", "r13", "r12", "r11", "r10", "r9", "r8", "rsi",
           "rdi", "rbp", "rdx", "rcx", "rbx", "rax">>

GPR == Range(pushaq)

\* What a C function may change; it restores the rest (System V ABI).
CallerSaved == {"rax", "rcx", "rdx", "rsi", "rdi", "r8", "r9", "r10", "r11"}

\* A quadword as four 16-bit limbs, the most significant first.
Imm(n) == <<0, 0, 0, n>>

\* What push leaves on the stack: the instruction has room for 32 bits of its
\* operand, which the processor sign-extends.
SignExtended32(q) == LET s == IF q[3] < 32768 THEN 0 ELSE 65535 IN <<s, s, q[3], q[4]>>

\* MISSING_ERROR_CODE_MAGIC, 0xb36b9b8e1a7d7d63, which isr.asm spells out.
MISSING_ERROR_CODE_MAGIC == <<45931, 39822, 6781, 32099>>

\* Mutant: nothing stands in for a missing error code.
IsrWithoutMagic(v) == << <<"push_imm", Imm(v)>> >>

isr(v) ==
  IF v \in ErrorStubs
  THEN << <<"push_imm", Imm(v)>> >>
  ELSE << <<"push_imm", MISSING_ERROR_CODE_MAGIC>>, <<"push_imm", Imm(v)>> >>

\* Mutants: the vector, but not the error code, is dropped; the pointer is
\* taken before the registers are pushed.
StubDropsOneWord ==
  [k \in DOMAIN pushaq |-> <<"push", pushaq[k]>>]
    \o << <<"mov_rdi_rsp">>, <<"cld">>, <<"call_isr_handler">> >>
    \o [k \in DOMAIN popaq |-> <<"pop", popaq[k]>>]
    \o << <<"add_rsp", 1>>, <<"iretq">> >>
StubTakesPointerFirst ==
  << <<"mov_rdi_rsp">> >>
    \o [k \in DOMAIN pushaq |-> <<"push", pushaq[k]>>]
    \o << <<"cld">>, <<"call_isr_handler">> >>
    \o [k \in DOMAIN popaq |-> <<"pop", popaq[k]>>]
    \o << <<"add_rsp", 2>>, <<"iretq">> >>

isr_common_stub ==
  [i \in DOMAIN pushaq |-> <<"push", pushaq[i]>>]
    \o << <<"mov_rdi_rsp">>, <<"cld">>, <<"call_isr_handler">> >>
    \o [i \in DOMAIN popaq |-> <<"pop", popaq[i]>>]
    \o << <<"add_rsp", 2>>, <<"iretq">> >>

Stub(v) == isr(v) \o isr_common_stub

\* struct registers of idt.h, from the lowest address up.
registers == <<"r15", "r14", "r13", "r12", "r11", "r10", "r9", "r8", "rsi",
               "rdi", "rbp", "rdx", "rcx", "rbx", "rax", "int_no", "error",
               "rip", "cs", "rflags", "rsp", "ss">>

Offset(field) == (CHOOSE i \in DOMAIN registers : registers[i] = field) - 1

-----------------------------------------------------------------------------
VARIABLES
  stk,    \* the kernel stack
  regs,   \* the general registers, rflags, cs and ss
  rip,    \* <<"code", p, i>> or <<"stub", v, i>>
  taken,  \* how many traps have struck
  saved   \* history: the interrupted states, the latest last

vars == <<stk, regs, rip, taken, saved>>

Names == GPR \cup {"rflags", "cs", "ss"}
Pad == <<"pad", 0>>

\* r->field for the structure whose address is the stack pointer r.
Field(r, field) == stk[r - Offset(field)]

Kmain(i) == <<"code", "kmain", i>>

Init ==
  /\ stk \in {<<>>, <<Pad>>}
  /\ regs = [r \in Names |-> <<"reg", 0, r>>]
  /\ rip = Kmain(1)
  /\ taken = 0
  /\ saved = <<>>

\* The code a trap interrupts, whatever it is, changes a register; then it is
\* in hcf, which a trap can interrupt too.
Compute ==
  /\ rip = Kmain(1)
  /\ \E scratch \in {"rax", "r12"} :
       regs' = [regs EXCEPT ![scratch] = <<"reg", -1, scratch>>]
  /\ rip' = Kmain(2)
  /\ UNCHANGED <<stk, taken, saved>>

Hcf == rip \in {Kmain(2), <<"code", "panic", 2>>} /\ UNCHANGED vars

-----------------------------------------------------------------------------
\* The processor delivers vector v: it aligns the stack, saves ss, rsp,
\* rflags, cs and rip on it, then an error code if v has one.
Deliver(v) ==
  /\ taken < MaxTraps
  /\ Len(saved) < MaxNest
  /\ taken' = taken + 1
  /\ stk' = stk
       \o (IF Len(stk) % 2 = 0 THEN <<>> ELSE <<Pad>>)
       \o <<regs["ss"], <<"rsp", Len(stk)>>, regs["rflags"], regs["cs"], rip>>
       \o (IF v \in ErrorCoded THEN << <<"error", taken + 1>> >> ELSE <<>>)
  /\ rip' = <<"stub", v, 1>>
  /\ saved' = Append(saved, [vector |-> v, trap |-> taken + 1, stk |-> stk,
                             regs |-> regs, rip |-> rip])
  /\ UNCHANGED regs

InStub == rip[1] = "stub"
Instruction == Stub(rip[2])[rip[3]]
NextInstruction == rip' = <<"stub", rip[2], rip[3] + 1>>

PushImm ==
  /\ InStub /\ Instruction[1] = "push_imm"
  /\ stk' = Append(stk, <<"imm", SignExtended32(Instruction[2])>>)
  /\ NextInstruction
  /\ UNCHANGED <<regs, taken, saved>>

Push ==
  /\ InStub /\ Instruction[1] = "push"
  /\ stk' = Append(stk, regs[Instruction[2]])
  /\ NextInstruction
  /\ UNCHANGED <<regs, taken, saved>>

Pop ==
  /\ InStub /\ Instruction[1] = "pop"
  /\ regs' = [regs EXCEPT ![Instruction[2]] = Last(stk)]
  /\ stk' = Front(stk)
  /\ NextInstruction
  /\ UNCHANGED <<taken, saved>>

MovRdiRsp ==
  /\ InStub /\ Instruction[1] = "mov_rdi_rsp"
  /\ regs' = [regs EXCEPT !["rdi"] = <<"rsp", Len(stk)>>]
  /\ NextInstruction
  /\ UNCHANGED <<stk, taken, saved>>

Cld ==
  /\ InStub /\ Instruction[1] = "cld"
  /\ regs' = [regs EXCEPT !["rflags"] = <<"reg", taken, "cleared_df">>]
  /\ NextInstruction
  /\ UNCHANGED <<stk, taken, saved>>

Call ==
  /\ InStub /\ Instruction[1] = "call_isr_handler"
  /\ stk' = Append(stk, <<"stub", rip[2], rip[3] + 1>>)
  /\ rip' = <<"code", "isr_handler", 1>>
  /\ UNCHANGED <<regs, taken, saved>>

AddRsp ==
  /\ InStub /\ Instruction[1] = "add_rsp"
  /\ stk' = SubSeq(stk, 1, Len(stk) - Instruction[2])
  /\ NextInstruction
  /\ UNCHANGED <<regs, taken, saved>>

\* iretq takes rip, cs, rflags, rsp and ss from the stack, whatever is there.
Iretq ==
  /\ InStub /\ Instruction[1] = "iretq"
  /\ LET n == Len(stk) IN
       /\ rip' = stk[n]
       /\ regs' = [regs EXCEPT !["cs"] = stk[n - 1], !["rflags"] = stk[n - 2],
                               !["ss"] = stk[n - 4]]
       /\ stk' = SubSeq(stk, 1, stk[n - 3][2])
  /\ saved' = Front(saved)
  /\ UNCHANGED taken

-----------------------------------------------------------------------------
(* isr_handler, in C.                                                      *)

\* Mutant: the handler is registered for vector 1.
HandlerTableWrongIndex(int_no) == IF int_no = <<"imm", Imm(1)>> THEN "breakpoint" ELSE "NULL"

isr_handler_table(int_no) == IF int_no = <<"imm", Imm(Breakpoint)>> THEN "breakpoint" ELSE "NULL"

\* isr_handler looks the handler up; without one it goes on to the panic.
Dispatch ==
  /\ rip = <<"code", "isr_handler", 1>>
  /\ rip' = IF isr_handler_table(Field(regs["rdi"][2], "int_no")) # "NULL"
            THEN <<"code", "breakpoint", 1>>
            ELSE <<"code", "panic", 1>>
  /\ UNCHANGED <<stk, regs, taken, saved>>

\* The handler's body, its return and isr_handler's: all a C function may
\* change is changed, and execution goes to the address on the stack.
Breakpointed ==
  /\ rip = <<"code", "breakpoint", 1>>
  /\ regs' = [r \in Names |->
                IF r \in CallerSaved \cup {"rflags"} THEN <<"reg", taken, "clobbered">>
                ELSE regs[r]]
  /\ rip' = Last(stk)
  /\ stk' = Front(stk)
  /\ UNCHANGED <<taken, saved>>

\* The panic has printed the structure and is left in hcf for ever.
Panic ==
  /\ rip = <<"code", "panic", 1>>
  /\ rip' = <<"code", "panic", 2>>
  /\ UNCHANGED <<stk, regs, taken, saved>>

Step ==
  \/ Compute \/ Hcf
  \/ PushImm \/ Push \/ Pop \/ MovRdiRsp \/ Cld \/ Call \/ AddRsp \/ Iretq
  \/ Dispatch \/ Breakpointed \/ Panic

Next ==
  \/ Compute \/ Hcf
  \/ PushImm \/ Push \/ Pop \/ MovRdiRsp \/ Cld \/ Call \/ AddRsp \/ Iretq
  \/ Dispatch \/ Breakpointed \/ Panic
  \/ \E v \in Vectors : Deliver(v)

Spec == Init /\ [][Next]_vars

\* The processor keeps executing; nobody owes the kernel a trap.
FairSpec == Spec /\ WF_vars(Step)
-----------------------------------------------------------------------------
(* Properties.                                                             *)

Locations ==
  {Kmain(1), Kmain(2), <<"code", "isr_handler", 1>>, <<"code", "breakpoint", 1>>}
    \cup {<<"code", "panic", i>> : i \in 1 .. 2}
    \cup UNION {{<<"stub", v, i>> : i \in DOMAIN Stub(v)} : v \in Vectors}

TypeOK ==
  /\ DOMAIN regs = Names
  /\ rip \in Locations
  /\ taken \in 0 .. MaxTraps
  /\ Len(saved) <= MaxNest

\* The pointer the stub hands to isr_handler for the trap that found s: behind
\* the five or six words of the processor, the stub's and pushaq's.
FrameOf(s) == Len(s.stk) + (Len(s.stk) % 2) + Len(registers)

\* The value field f had when the trap struck that found s.
TrueValue(s, f) ==
  CASE f = "int_no" -> <<"imm", Imm(s.vector)>>
    [] f = "error"  -> IF s.vector \in ErrorCoded
                       THEN <<"error", s.trap>>
                       ELSE <<"imm", SignExtended32(MISSING_ERROR_CODE_MAGIC)>>
    [] f = "rip"    -> s.rip
    [] f = "rsp"    -> <<"rsp", Len(s.stk)>>
    [] OTHER        -> s.regs[f]

\* The stack pointer in the k-th trap in progress: now, or when the next struck.
Depth(k) == IF k = Len(saved) THEN Len(stk) ELSE Len(saved[k + 1].stk)

\* From the moment a trap's frame is built until popaq starts to take it
\* down, and whatever traps come on top of it, the struct registers that
\* isr_handler reads says what was true when the trap struck: the register
\* dump of a panic is the interrupted context's, its RIP the faulting one.
FrameIsTrue ==
  \A k \in DOMAIN saved :
    Depth(k) >= FrameOf(saved[k]) =>
      \A i \in DOMAIN registers :
        Field(FrameOf(saved[k]), registers[i]) = TrueValue(saved[k], registers[i])

\* What idt.h and isr.asm say of a vector without an error code: the error
\* field of its frame is MISSING_ERROR_CODE_MAGIC.
MissingErrorIsMarked ==
  \A k \in DOMAIN saved :
    Depth(k) >= FrameOf(saved[k]) /\ saved[k].vector \notin ErrorCoded =>
      Field(FrameOf(saved[k]), "error") = <<"imm", MISSING_ERROR_CODE_MAGIC>>

\* While isr_handler and what it calls run, r is that structure.
PointerIsFrame ==
  rip = <<"code", "isr_handler", 1>> => regs["rdi"] = <<"rsp", FrameOf(Last(saved))>>

\* The stack is 16-byte aligned wherever the stub calls C, as the System V
\* ABI (and gcc's aligned SSE spills in printf.c) demands: from every
\* alignment of the interrupted context, and for vectors with and without
\* an error code.
CallAligned == InStub /\ Instruction[1] = "call_isr_handler" => Len(stk) % 2 = 0

\* iretq resumes the interrupted context as it was: the same instruction,
\* every register, the flags and the stack, though the handler clobbered
\* what C may clobber and other traps came and went.
IretqResumes ==
  [][Len(saved') < Len(saved) =>
       /\ rip' = Last(saved).rip
       /\ regs' = Last(saved).regs
       /\ stk' = Last(saved).stk]_vars

\* A breakpoint with no panic on top of it does return.
BreakpointResumes ==
  \A k \in 1 .. MaxNest : \A t \in 1 .. MaxTraps :
    (/\ k = Len(saved) /\ saved[k].trap = t /\ saved[k].vector = Breakpoint)
      ~> \/ \A j \in DOMAIN saved : saved[j].trap # t
         \/ \E j \in k .. Len(saved) : saved[j].vector # Breakpoint
=============================================================================
