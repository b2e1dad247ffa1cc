------------------------------ MODULE Mandatory -----------------------------
(***************************************************************************)
(* mandatory.c: memcpy, memset, memmove and memcmp, byte by byte, over one *)
(* memory in which source and destination may overlap.                     *)
(*                                                                         *)
(* A behaviour is one call with any arguments that lie in the memory.      *)
(* old is history: the memory the call found.                              *)
(***************************************************************************)
EXTENDS Integers

CONSTANTS
  Size,   \* bound: bytes of memory, at addresses 0 .. Size - 1
  Bytes,  \* the byte values memory may hold
  Ints    \* the values of memset's int argument

ASSUME MandatoryAssumption ==
  /\ Size \in Nat
  /\ Ints \subseteq Int
  /\ Bytes \subseteq 0 .. 255
  /\ \A c \in Ints : c % 256 \in Bytes

Addresses == 0 .. Size - 1

VARIABLES
  call,    \* [f, dest, src, n, c]; src is s2 and dest s1 of memcmp
  mem,     \* the memory
  i,       \* the loop's counter
  pc,      \* "forward", "backward", "fill", "compare" or "done"
  result,  \* what the call returned
  old      \* history: mem when the call was made

vars == <<call, mem, i, pc, result, old>>

\* memcpy's arguments are restrict: its caller passes ranges that are
\* disjoint (gcc also passes equal ones).
Restrict(k) == k.dest + k.n <= k.src \/ k.src + k.n <= k.dest \/ k.src = k.dest

Calls ==
  {k \in [f : {"memcpy", "memset", "memmove", "memcmp"},
          dest : 0 .. Size, src : 0 .. Size, n : 0 .. Size, c : Ints] :
     /\ k.dest + k.n <= Size /\ k.src + k.n <= Size
     /\ k.f = "memcpy" => Restrict(k)}

\* Mutant: memmove always copies forward.
LoopAlwaysForward(k) ==
  CASE k.f \in {"memcpy", "memmove"} -> "forward"
    [] k.f = "memset" -> "fill"
    [] k.f = "memcmp" -> "compare"

\* Which loop a call runs; memmove compares the pointers to choose, and does
\* nothing when they are equal.
Loop(k) ==
  CASE k.f = "memcpy" -> "forward"
    [] k.f = "memset" -> "fill"
    [] k.f = "memcmp" -> "compare"
    [] k.f = "memmove" /\ k.src > k.dest -> "forward"
    [] k.f = "memmove" /\ k.src < k.dest -> "backward"
    [] k.f = "memmove" /\ k.src = k.dest -> "done"

Init ==
  /\ call \in Calls
  /\ mem \in [Addresses -> Bytes]
  /\ old = mem
  /\ pc = Loop(call)
  /\ i = IF pc = "backward" THEN call.n ELSE 0
  /\ result = call.dest

\* Mutant: one byte too many.
ForwardOneMore ==
  /\ pc = "forward" /\ i <= call.n
  /\ mem' = [mem EXCEPT ![call.dest + i] = mem[IF call.src + i < Size THEN call.src + i ELSE 0]]
  /\ i' = i + 1
  /\ UNCHANGED <<call, pc, result, old>>

Forward ==
  /\ pc = "forward" /\ i < call.n
  /\ mem' = [mem EXCEPT ![call.dest + i] = mem[call.src + i]]
  /\ i' = i + 1
  /\ UNCHANGED <<call, pc, result, old>>

Backward ==
  /\ pc = "backward" /\ i > 0
  /\ mem' = [mem EXCEPT ![call.dest + i - 1] = mem[call.src + i - 1]]
  /\ i' = i - 1
  /\ UNCHANGED <<call, pc, result, old>>

\* Mutant: filled from the end, with an index that is one too high.
FillFromEnd ==
  /\ pc = "fill" /\ i < call.n
  /\ mem' = [mem EXCEPT ![call.dest + call.n - i] = call.c % 256]
  /\ i' = i + 1
  /\ UNCHANGED <<call, pc, result, old>>

Fill ==
  /\ pc = "fill" /\ i < call.n
  /\ mem' = [mem EXCEPT ![call.dest + i] = call.c % 256]
  /\ i' = i + 1
  /\ UNCHANGED <<call, pc, result, old>>

\* memcmp goes on over equal bytes and returns at the first that differ.
CompareEqual ==
  /\ pc = "compare" /\ i < call.n
  /\ mem[call.dest + i] = mem[call.src + i]
  /\ i' = i + 1
  /\ UNCHANGED <<call, mem, pc, result, old>>

\* Mutant: the bytes are compared as signed char.
CompareDifferSigned ==
  LET Schar(b) == IF b >= 128 THEN b - 256 ELSE b IN
  /\ pc = "compare" /\ i < call.n
  /\ mem[call.dest + i] # mem[call.src + i]
  /\ result' = IF Schar(mem[call.dest + i]) < Schar(mem[call.src + i]) THEN -1 ELSE 1
  /\ pc' = "done"
  /\ UNCHANGED <<call, mem, i, old>>

CompareDiffer ==
  /\ pc = "compare" /\ i < call.n
  /\ mem[call.dest + i] # mem[call.src + i]
  /\ result' = IF mem[call.dest + i] < mem[call.src + i] THEN -1 ELSE 1
  /\ pc' = "done"
  /\ UNCHANGED <<call, mem, i, old>>

\* Mutant: the backward loop's test, i >= 0, is one a size_t never fails.
FinishNeverBackward ==
  /\ pc \in {"forward", "fill", "compare"} /\ i = call.n
  /\ pc' = "done"
  /\ result' = IF call.f = "memcmp" THEN 0 ELSE result
  /\ UNCHANGED <<call, mem, i, old>>

\* The loop is over; memcmp returns 0, the others their first argument.
Finish ==
  /\ \/ pc \in {"forward", "fill", "compare"} /\ i = call.n
     \/ pc = "backward" /\ i = 0
  /\ pc' = "done"
  /\ result' = IF call.f = "memcmp" THEN 0 ELSE result
  /\ UNCHANGED <<call, mem, i, old>>

Next == Forward \/ Backward \/ Fill \/ CompareEqual \/ CompareDiffer \/ Finish

Spec == Init /\ [][Next]_vars
FairSpec == Spec /\ WF_vars(Next)

-----------------------------------------------------------------------------
(* What the C specification mandates.                                      *)

TypeOK ==
  /\ call \in Calls
  /\ mem \in [Addresses -> Bytes] /\ old \in [Addresses -> Bytes]
  /\ i \in 0 .. call.n
  /\ pc \in {"forward", "backward", "fill", "compare", "done"}
  /\ result \in Int

Destination == call.dest .. call.dest + call.n - 1

\* memmove, whichever way its ranges overlap, and memcpy leave in the
\* destination what the source held when they were called, though on the
\* way they overwrite part of the source; and touch nothing else.
MovesOldBytes ==
  pc = "done" /\ call.f \in {"memmove", "memcpy"} =>
    /\ result = call.dest
    /\ mem = [a \in Addresses |->
                IF a \in Destination THEN old[call.src + (a - call.dest)] ELSE old[a]]

\* memset leaves (unsigned char) c in every byte it was given and no other.
SetsBytes ==
  pc = "done" /\ call.f = "memset" =>
    /\ result = call.dest
    /\ mem = [a \in Addresses |-> IF a \in Destination THEN call.c % 256 ELSE old[a]]

\* memcmp returns the sign of the first difference, and changes nothing.
ComparesFirstDifference ==
  pc = "done" /\ call.f = "memcmp" =>
    LET differ == {k \in 0 .. call.n - 1 : old[call.dest + k] # old[call.src + k]} IN
      /\ mem = old
      /\ differ = {} => result = 0
      /\ \A k \in differ :
           (\A j \in differ : k <= j) =>
              result = IF old[call.dest + k] < old[call.src + k] THEN -1 ELSE 1

\* Every call returns.
Returns == <>(pc = "done")
=============================================================================
