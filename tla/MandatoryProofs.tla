--------------------------- MODULE MandatoryProofs --------------------------
(***************************************************************************)
(* The routines of mandatory.c do what the C specification mandates, for   *)
(* every memory, every length and every overlap of their arguments.        *)
(***************************************************************************)
EXTENDS Mandatory, TLAPS

\* The bytes of the destination from lo up to, not including, hi have what
\* the source held at first; every other byte has what it held.
Copied(lo, hi) ==
  \A a \in Addresses :
    mem[a] = IF call.dest + lo <= a /\ a < call.dest + hi
             THEN old[call.src + (a - call.dest)] ELSE old[a]

\* A forward copy never reads a byte it has written.
ForwardSafe == call.src > call.dest \/ Restrict(call)

CopyInv ==
  call.f \in {"memmove", "memcpy"} =>
    /\ result = call.dest
    /\ pc \in {"forward", "backward", "done"}
    /\ pc = "forward"  => ForwardSafe /\ Copied(0, i)
    /\ pc = "backward" => call.src < call.dest /\ Copied(i, call.n)
    /\ pc = "done"     => Copied(0, call.n)

FillInv ==
  call.f = "memset" =>
    /\ result = call.dest
    /\ pc \in {"fill", "done"}
    /\ pc = "done" => i = call.n
    /\ \A a \in Addresses :
         mem[a] = IF call.dest <= a /\ a < call.dest + i THEN call.c % 256 ELSE old[a]

Equal(k) == old[call.dest + k] = old[call.src + k]

CompareInv ==
  call.f = "memcmp" =>
    /\ mem = old
    /\ pc \in {"compare", "done"}
    /\ \A k \in 0 .. i - 1 : Equal(k)
    /\ pc = "done" =>
         \/ i = call.n /\ result = 0
         \/ /\ i < call.n /\ ~Equal(i)
            /\ result = IF old[call.dest + i] < old[call.src + i] THEN -1 ELSE 1

\* Which call runs which loop.
LoopInv ==
  /\ pc \in {"forward", "backward"} => call.f \in {"memmove", "memcpy"}
  /\ pc = "fill" => call.f = "memset"
  /\ pc = "compare" => call.f = "memcmp"

IInv == TypeOK /\ LoopInv /\ CopyInv /\ FillInv /\ CompareInv

-----------------------------------------------------------------------------
\* What a call's arguments are.
LEMMA Arguments ==
  ASSUME call \in Calls
  PROVE  /\ call.f \in {"memcpy", "memset", "memmove", "memcmp"}
         /\ call.dest \in Nat /\ call.src \in Nat /\ call.n \in Nat /\ call.c \in Ints
         /\ call.dest + call.n <= Size /\ call.src + call.n <= Size
         /\ call.f = "memcpy" => Restrict(call)
  BY MandatoryAssumption DEF Calls

LEMMA InitIInv == ASSUME Init PROVE IInv
<1>1. call \in Calls /\ mem \in [Addresses -> Bytes] /\ old = mem
  BY DEF Init
<1>2. pc = Loop(call) /\ i = (IF pc = "backward" THEN call.n ELSE 0) /\ result = call.dest
  BY DEF Init
<1>3. /\ call.f = "memcpy" => pc = "forward" /\ Restrict(call)
      /\ call.f = "memset" => pc = "fill"
      /\ call.f = "memcmp" => pc = "compare"
      /\ call.f = "memmove" =>
           \/ pc = "forward" /\ call.src > call.dest
           \/ pc = "backward" /\ call.src < call.dest
           \/ pc = "done" /\ call.src = call.dest
  BY <1>1, <1>2, Arguments DEF Loop
<1>4. pc \in {"forward", "backward", "fill", "compare", "done"}
  BY <1>1, <1>3, Arguments
<1>5. TypeOK
  BY <1>1, <1>2, <1>4, Arguments DEF TypeOK
<1>6. LoopInv
  BY <1>1, <1>3, Arguments DEF LoopInv
<1>7. CopyInv
  BY <1>1, <1>2, <1>3, Arguments DEF CopyInv, Copied, ForwardSafe, Addresses
<1>8. FillInv
  BY <1>1, <1>2, <1>3, Arguments DEF FillInv, Addresses
<1>9. CompareInv
  BY <1>1, <1>2, <1>3, Arguments DEF CompareInv
<1> QED  BY <1>5, <1>6, <1>7, <1>8, <1>9 DEF IInv

LEMMA ForwardIInv == ASSUME IInv, Forward PROVE IInv'
<1> DEFINE d == call.dest
           s == call.src
<1>1. /\ TypeOK /\ call \in Calls /\ call.f \in {"memmove", "memcpy"}
      /\ ForwardSafe /\ Copied(0, i) /\ result = call.dest
  BY DEF IInv, Forward, LoopInv, CopyInv, TypeOK
<1>2. /\ i < call.n /\ pc = "forward" /\ i' = i + 1
      /\ mem' = [mem EXCEPT ![d + i] = mem[s + i]]
      /\ UNCHANGED <<call, pc, result, old>>
  BY DEF Forward
<1>3. /\ i \in Nat /\ d \in Nat /\ s \in Nat /\ call.n \in Nat
      /\ d + call.n <= Size /\ s + call.n <= Size
  BY <1>1, Arguments DEF TypeOK
<1>4. d + i \in Addresses /\ s + i \in Addresses
  BY <1>2, <1>3, MandatoryAssumption DEF Addresses
<1>5. TypeOK'
  BY <1>1, <1>2, <1>3, <1>4 DEF TypeOK
<1>6. mem[s + i] = old[s + i]
  <2>1. ~(d + 0 <= s + i /\ s + i < d + i)
    BY <1>1, <1>2, <1>3 DEF ForwardSafe, Restrict
  <2> QED  BY <2>1, <1>1, <1>4 DEF Copied
<1>7. Copied(0, i)'
  <2> SUFFICES ASSUME NEW a \in Addresses
               PROVE  mem'[a] = IF d + 0 <= a /\ a < d + (i + 1)
                                THEN old[s + (a - d)] ELSE old[a]
    BY <1>2 DEF Copied
  <2>1. a \in Nat
    BY DEF Addresses
  <2>2. CASE a = d + i
    <3>1. a - d = i
      BY <2>2, <1>3
    <3>2. mem'[a] = mem[s + i]
      BY <2>2, <1>1, <1>2, <1>4 DEF TypeOK
    <3> QED  BY <2>2, <3>1, <3>2, <1>3, <1>6
  <2>3. CASE a # d + i
    <3>1. mem'[a] = mem[a]
      BY <2>3, <1>1, <1>2 DEF TypeOK
    <3> QED  BY <2>1, <2>3, <3>1, <1>1, <1>3 DEF Copied
  <2> QED  BY <2>2, <2>3
<1> QED  BY <1>1, <1>2, <1>5, <1>7
         DEF IInv, LoopInv, CopyInv, FillInv, CompareInv, ForwardSafe, Restrict

LEMMA BackwardIInv == ASSUME IInv, Backward PROVE IInv'
<1> DEFINE d == call.dest
           s == call.src
           n == call.n
<1>1. /\ TypeOK /\ call \in Calls /\ call.f \in {"memmove", "memcpy"}
      /\ s < d /\ Copied(i, n) /\ result = call.dest
  BY DEF IInv, Backward, LoopInv, CopyInv, TypeOK
<1>2. /\ i > 0 /\ pc = "backward" /\ i' = i - 1
      /\ mem' = [mem EXCEPT ![d + i - 1] = mem[s + i - 1]]
      /\ UNCHANGED <<call, pc, result, old>>
  BY DEF Backward
<1>3. /\ i \in Nat /\ d \in Nat /\ s \in Nat /\ n \in Nat /\ i <= n
      /\ d + n <= Size /\ s + n <= Size
  BY <1>1, Arguments DEF TypeOK
<1>4. d + i - 1 \in Addresses /\ s + i - 1 \in Addresses
  BY <1>2, <1>3, MandatoryAssumption DEF Addresses
<1>5. TypeOK'
  BY <1>1, <1>2, <1>3, <1>4 DEF TypeOK
<1>6. mem[s + i - 1] = old[s + i - 1]
  <2>1. ~(d + i <= s + i - 1 /\ s + i - 1 < d + n)
    BY <1>1, <1>2, <1>3
  <2> QED  BY <2>1, <1>1, <1>4 DEF Copied
<1>7. Copied(i, n)'
  <2> SUFFICES ASSUME NEW a \in Addresses
               PROVE  mem'[a] = IF d + (i - 1) <= a /\ a < d + n
                                THEN old[s + (a - d)] ELSE old[a]
    BY <1>2 DEF Copied
  <2>1. a \in Nat
    BY DEF Addresses
  <2>2. CASE a = d + i - 1
    <3>1. s + (a - d) = s + i - 1
      BY <2>2, <1>3
    <3>2. mem'[a] = mem[s + i - 1]
      BY <2>2, <1>1, <1>2, <1>4 DEF TypeOK
    <3> QED  BY <2>2, <3>1, <3>2, <1>3, <1>6
  <2>3. CASE a # d + i - 1
    <3>1. mem'[a] = mem[a]
      BY <2>3, <1>1, <1>2 DEF TypeOK
    <3> QED  BY <2>1, <2>3, <3>1, <1>1, <1>3 DEF Copied
  <2> QED  BY <2>2, <2>3
<1> QED  BY <1>1, <1>2, <1>5, <1>7 DEF IInv, LoopInv, CopyInv, FillInv, CompareInv

LEMMA FillIInv == ASSUME IInv, Fill PROVE IInv'
<1> DEFINE d == call.dest
<1>1. /\ TypeOK /\ call \in Calls /\ call.f = "memset" /\ FillInv
  BY DEF IInv, Fill, LoopInv, TypeOK
<1>2. /\ i < call.n /\ pc = "fill" /\ i' = i + 1
      /\ mem' = [mem EXCEPT ![d + i] = call.c % 256]
      /\ UNCHANGED <<call, pc, result, old>>
  BY DEF Fill
<1>3. /\ i \in Nat /\ d \in Nat /\ call.n \in Nat /\ d + call.n <= Size
      /\ call.c % 256 \in Bytes
  <2>1. i \in Nat /\ d \in Nat /\ call.n \in Nat /\ d + call.n <= Size
    BY <1>1, Arguments DEF TypeOK
  <2>2. call.c \in Ints
    BY <1>1, Arguments
  <2>3. call.c % 256 \in Bytes
    BY <2>2, MandatoryAssumption, Zenon
  <2> QED  BY <2>1, <2>3
<1>4. d + i \in Addresses
  BY <1>2, <1>3, MandatoryAssumption DEF Addresses
<1>5. TypeOK'
  BY <1>1, <1>2, <1>3, <1>4 DEF TypeOK
<1>6. FillInv'
  <2> DEFINE b == call.c % 256
  <2> HIDE DEF b
  <2>1. ASSUME NEW a \in Addresses
        PROVE  mem'[a] = IF d <= a /\ a < d + (i + 1) THEN b ELSE old[a]
    <3>1. a \in Nat
      BY DEF Addresses
    <3>2. mem[a] = IF d <= a /\ a < d + i THEN b ELSE old[a]
      BY <1>1 DEF FillInv, b
    <3>3. mem'[a] = IF a = d + i THEN b ELSE mem[a]
      BY <1>1, <1>2, <1>4 DEF TypeOK, b
    <3> QED  BY <3>1, <3>2, <3>3, <1>3
  <2> QED  BY <2>1, <1>1, <1>2 DEF FillInv, b
<1> QED  BY <1>1, <1>2, <1>5, <1>6 DEF IInv, LoopInv, CopyInv, CompareInv

LEMMA CompareIInv == ASSUME IInv, CompareEqual \/ CompareDiffer PROVE IInv'
<1>1. /\ TypeOK /\ call \in Calls /\ call.f = "memcmp" /\ CompareInv
      /\ pc = "compare" /\ i < call.n /\ UNCHANGED <<call, mem, old>>
  BY DEF IInv, CompareEqual, CompareDiffer, LoopInv, TypeOK
<1>2. i \in Nat /\ call.n \in Nat
  BY <1>1, Arguments DEF TypeOK
<1>3. mem = old
  BY <1>1 DEF CompareInv
<1>4. CASE CompareEqual
  <2>1. Equal(i) /\ i' = i + 1 /\ UNCHANGED <<pc, result>>
    BY <1>3, <1>4 DEF CompareEqual, Equal
  <2>2. \A k \in 0 .. i' - 1 : Equal(k)
    BY <2>1, <1>1, <1>2 DEF CompareInv
  <2>3. CompareInv'
    BY <2>1, <2>2, <1>1, <1>3 DEF CompareInv, Equal
  <2>4. TypeOK'
    BY <2>1, <1>1, <1>2 DEF TypeOK
  <2> QED  BY <1>1, <2>1, <2>3, <2>4 DEF IInv, LoopInv, CopyInv, FillInv
<1>5. CASE CompareDiffer
  <2>1. /\ ~Equal(i) /\ i' = i /\ pc' = "done"
        /\ result' = IF old[call.dest + i] < old[call.src + i] THEN -1 ELSE 1
    BY <1>3, <1>5 DEF CompareDiffer, Equal
  <2>2. CompareInv'
    BY <2>1, <1>1, <1>3 DEF CompareInv, Equal
  <2>3. TypeOK'
    BY <2>1, <1>1 DEF TypeOK
  <2> QED  BY <1>1, <2>1, <2>2, <2>3 DEF IInv, LoopInv, CopyInv, FillInv
<1> QED  BY <1>4, <1>5

LEMMA FinishIInv == ASSUME IInv, Finish PROVE IInv'
<1>1. /\ TypeOK /\ call \in Calls
      /\ LoopInv /\ CopyInv /\ FillInv /\ CompareInv
  BY DEF IInv, TypeOK
<1>2. /\ pc' = "done" /\ UNCHANGED <<call, mem, i, old>>
      /\ result' = IF call.f = "memcmp" THEN 0 ELSE result
      /\ \/ pc \in {"forward", "fill", "compare"} /\ i = call.n
         \/ pc = "backward" /\ i = 0
  BY DEF Finish
<1>3. TypeOK' /\ LoopInv'
  BY <1>1, <1>2 DEF TypeOK, LoopInv
<1>4. CopyInv'
  BY <1>1, <1>2 DEF CopyInv, LoopInv, Copied
<1>5. FillInv'
  BY <1>1, <1>2 DEF FillInv, LoopInv
<1>6. CompareInv'
  BY <1>1, <1>2 DEF CompareInv, LoopInv, Equal
<1> QED  BY <1>3, <1>4, <1>5, <1>6 DEF IInv

LEMMA IInvAlways == Spec => []IInv
<1>1. IInv /\ [Next]_vars => IInv'
  <2> SUFFICES ASSUME IInv, [Next]_vars PROVE IInv'
    OBVIOUS
  <2>1. CASE Forward  BY <2>1, ForwardIInv
  <2>2. CASE Backward  BY <2>2, BackwardIInv
  <2>3. CASE Fill  BY <2>3, FillIInv
  <2>4. CASE CompareEqual \/ CompareDiffer  BY <2>4, CompareIInv
  <2>5. CASE Finish  BY <2>5, FinishIInv
  <2>6. CASE UNCHANGED vars
    BY <2>6 DEF vars, IInv, TypeOK, LoopInv, CopyInv, Copied, ForwardSafe, FillInv,
                CompareInv, Equal
  <2> QED  BY <2>1, <2>2, <2>3, <2>4, <2>5, <2>6 DEF Next
<1> QED  BY InitIInv, <1>1, PTL DEF Spec

-----------------------------------------------------------------------------
\* memmove and memcpy copy what the source held when they were called.
THEOREM MemmoveCorrect == Spec => []MovesOldBytes
<1>1. IInv => MovesOldBytes
  <2> SUFFICES ASSUME IInv, pc = "done", call.f \in {"memmove", "memcpy"}
               PROVE  /\ result = call.dest
                      /\ mem = [a \in Addresses |->
                                  IF a \in Destination THEN old[call.src + (a - call.dest)]
                                  ELSE old[a]]
    BY DEF MovesOldBytes
  <2>1. mem \in [Addresses -> Bytes] /\ result = call.dest /\ Copied(0, call.n)
    BY DEF IInv, TypeOK, CopyInv
  <2>2. call.dest \in Nat /\ call.n \in Nat
    BY Arguments DEF IInv, TypeOK
  <2>3. \A a \in Addresses :
          a \in Destination <=> call.dest + 0 <= a /\ a < call.dest + call.n
    BY <2>2 DEF Destination, Addresses
  <2> QED  BY <2>1, <2>3 DEF Copied
<1> QED  BY <1>1, IInvAlways, PTL

\* memset fills exactly the bytes it was given.
THEOREM MemsetCorrect == Spec => []SetsBytes
<1>1. IInv => SetsBytes
  <2> SUFFICES ASSUME IInv, pc = "done", call.f = "memset" PROVE SetsBytes
    BY DEF SetsBytes
  <2> DEFINE b == call.c % 256
  <2> HIDE DEF b
  <2>1. /\ mem \in [Addresses -> Bytes] /\ result = call.dest
        /\ \A a \in Addresses :
             mem[a] = IF call.dest <= a /\ a < call.dest + call.n THEN b ELSE old[a]
    BY DEF IInv, TypeOK, FillInv, b
  <2>2. call.dest \in Nat /\ call.n \in Nat
    BY Arguments DEF IInv, TypeOK
  <2>3. \A a \in Addresses : a \in Destination <=> call.dest <= a /\ a < call.dest + call.n
    BY <2>2 DEF Destination, Addresses
  <2> QED  BY <2>1, <2>3 DEF SetsBytes, b
<1> QED  BY <1>1, IInvAlways, PTL

\* memcmp returns the sign of the first difference of its ranges.
THEOREM MemcmpCorrect == Spec => []ComparesFirstDifference
<1>1. IInv => ComparesFirstDifference
  <2> SUFFICES ASSUME IInv, pc = "done", call.f = "memcmp" PROVE ComparesFirstDifference
    BY DEF ComparesFirstDifference
  <2>1. i \in Nat /\ call.n \in Nat /\ i <= call.n
    BY Arguments DEF IInv, TypeOK
  <2>2. /\ mem = old /\ \A k \in 0 .. i - 1 : Equal(k)
        /\ \/ i = call.n /\ result = 0
           \/ /\ i < call.n /\ ~Equal(i)
              /\ result = IF old[call.dest + i] < old[call.src + i] THEN -1 ELSE 1
    BY DEF IInv, CompareInv
  <2> DEFINE differ == {k \in 0 .. call.n - 1 : ~Equal(k)}
  <2>3. CASE i = call.n /\ result = 0
    <3>1. differ = {}
      BY <2>2, <2>3
    <3> QED  BY <2>2, <2>3, <3>1 DEF ComparesFirstDifference, Equal
  <2>4. CASE /\ i < call.n /\ ~Equal(i)
             /\ result = IF old[call.dest + i] < old[call.src + i] THEN -1 ELSE 1
    <3>1. i \in differ
      BY <2>1, <2>4
    <3>2. ASSUME NEW k \in differ, \A j \in differ : k <= j PROVE k = i
      BY <2>1, <2>2, <3>1, <3>2
    <3> QED  BY <2>2, <2>4, <3>1, <3>2 DEF ComparesFirstDifference, Equal
  <2> QED  BY <2>2, <2>3, <2>4
<1> QED  BY <1>1, IInvAlways, PTL

\* Every byte the four functions store is a byte of memory, and their index
\* stays between 0 and n: no call runs past the length it was given.
THEOREM MandatoryTypeOK == Spec => []TypeOK
<1>1. IInv => TypeOK
  BY DEF IInv
<1> QED  BY <1>1, IInvAlways, PTL
=============================================================================
