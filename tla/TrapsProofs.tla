----------------------------- MODULE TrapsProofs ----------------------------
(***************************************************************************)
(* The trap path builds a true frame, calls C on an aligned stack and      *)
(* resumes exactly what it interrupted, for every set of vectors that have *)
(* the error codes their stubs expect, and every number and nesting of     *)
(* traps.                                                                  *)
(*                                                                         *)
(* The invariant describes the stack as a list of frames.  A trap finds a  *)
(* stack s.stk and builds on it, word by word, always the same 22 words;   *)
(* the position in its stub says how many of them are there and which      *)
(* registers still, or again, have the values it found.  A trap that has   *)
(* been interrupted is in just such a state, so that the same description  *)
(* holds of every trap in progress, of the top one now and of the others   *)
(* as the next one found them.                                             *)
(***************************************************************************)
EXTENDS Traps, TLAPS

\* A sequence, whatever its elements.
List(q) == Len(q) \in Nat /\ q = [i \in 1 .. Len(q) |-> q[i]]
Regs(g) == g = [r \in Names |-> g[r]]

Prefix(q, r) == Len(q) <= Len(r) /\ \A i \in 1 .. Len(q) : r[i] = q[i]

\* The state of the k-th trap in progress, of kmain for k = 0: the machine's,
\* or what the next trap found.
Machine == [stk |-> stk, regs |-> regs, rip |-> rip]
State(k) == IF k = Len(saved) THEN Machine ELSE saved[k + 1]

\* Where the processor starts to push for the trap that found s, and the m-th
\* word above that.
Start(s) == Len(s.stk) + (Len(s.stk) % 2)
Word(s, m) == TrueValue(s, registers[23 - m])

\* The stack with h of the 22 words on it.
Upto(s, h) ==
  [p \in 1 .. Start(s) + h |->
     IF p <= Len(s.stk) THEN s.stk[p] ELSE IF p <= Start(s) THEN Pad ELSE Word(s, p - Start(s))]

\* The instructions before isr_common_stub.
Skew(v) == IF v \in ErrorStubs THEN 1 ELSE 2

\* The words on the stack before the j-th instruction of isr_common_stub, and
\* the registers that then have the values the trap found.
Height(j) ==
  IF j <= 16 THEN 6 + j ELSE IF j <= 18 THEN 22 ELSE IF j <= 34 THEN 41 - j ELSE 5

CalleeSaved == Names \ (CallerSaved \cup {"rflags"})
Kept(j) == IF j <= 16 THEN Names
           ELSE CalleeSaved \cup {popaq[m] : m \in {n \in 1 .. 15 : n <= j - 19}}

Keeps(s, t, names) == \A r \in names : t.regs[r] = s.regs[r]

\* t is the state before the j-th instruction of the stub, for the trap that
\* found s.
At(s, t, j) ==
  /\ t.rip = <<"stub", s.vector, j + Skew(s.vector)>>
  /\ t.stk = Upto(s, Height(j))
  /\ Keeps(s, t, Kept(j))
  /\ j \in {17, 18} => t.regs["rdi"] = <<"rsp", FrameOf(s)>>

InAssembly(s, t) == \E j \in 1 - Skew(s.vector) .. 35 : At(s, t, j)

\* t is a state of the C code the stub calls, for the trap that found s.
InC(s, t) ==
  /\ t.rip \in {<<"code", "isr_handler", 1>>, <<"code", "breakpoint", 1>>,
                <<"code", "panic", 1>>, <<"code", "panic", 2>>}
  /\ t.stk = Append(Upto(s, 22), <<"stub", s.vector, 19 + Skew(s.vector)>>)
  /\ Keeps(s, t, CalleeSaved)
  /\ t.rip = <<"code", "isr_handler", 1>> => t.regs["rdi"] = <<"rsp", FrameOf(s)>>

Shape ==
  /\ taken \in 0 .. MaxTraps
  /\ List(saved) /\ Len(saved) <= MaxNest
  /\ List(stk) /\ Regs(regs)
  /\ \A k \in 1 .. Len(saved) :
       List(saved[k].stk) /\ Regs(saved[k].regs) /\ saved[k].vector \in Vectors

InTrap(s, t) == InAssembly(s, t) \/ InC(s, t)

TInv ==
  /\ Shape
  /\ State(0).rip \in {Kmain(1), Kmain(2)}
  /\ \A k \in 1 .. Len(saved) : InTrap(saved[k], State(k))
  /\ \A k, l \in 1 .. Len(saved) : k <= l => Prefix(saved[k].stk, saved[l].stk)
-----------------------------------------------------------------------------
(* Sequences, whatever their elements.                                     *)

LEMMA Listed ==
  ASSUME NEW S, NEW q \in Seq(S)
  PROVE  List(q)
BY DEF List

LEMMA Elements ==
  ASSUME NEW q, List(q), NEW S, \A i \in 1 .. Len(q) : q[i] \in S
  PROVE  q \in Seq(S)
BY DEF List

\* A function on 1 .. n is a sequence of n elements.
LEMMA Built ==
  ASSUME NEW n \in Nat, NEW F, NEW q, q = [i \in 1 .. n |-> F[i]]
  PROVE  List(q) /\ Len(q) = n
BY DEF List

LEMMA Equal ==
  ASSUME NEW q, List(q), NEW r, List(r), Len(q) = Len(r), \A i \in 1 .. Len(q) : q[i] = r[i]
  PROVE  q = r
BY DEF List

LEMMA Appended ==
  ASSUME NEW q, List(q), NEW x
  PROVE  /\ List(Append(q, x)) /\ Len(Append(q, x)) = Len(q) + 1
         /\ Append(q, x)[Len(q) + 1] = x
         /\ \A i \in 1 .. Len(q) : Append(q, x)[i] = q[i]
<1> DEFINE S == {q[i] : i \in 1 .. Len(q)} \cup {x}
           r == Append(q, x)
<1>1. q \in Seq(S) /\ x \in S
  BY Elements
<1> HIDE DEF S
<1>2. /\ r \in Seq(S) /\ Len(r) = Len(q) + 1 /\ r[Len(q) + 1] = x
      /\ \A i \in 1 .. Len(q) : r[i] = q[i]
  BY <1>1
<1> HIDE DEF r
<1>3. /\ List(r) /\ Len(r) = Len(q) + 1 /\ r[Len(q) + 1] = x
      /\ \A i \in 1 .. Len(q) : r[i] = q[i]
  BY <1>2, Listed
<1> QED
  BY <1>3 DEF r

LEMMA Cut ==
  ASSUME NEW q, List(q), NEW n \in 0 .. Len(q), NEW r, r = SubSeq(q, 1, n)
  PROVE  List(r) /\ Len(r) = n /\ \A i \in 1 .. n : r[i] = q[i]
<1> DEFINE S == {q[i] : i \in 1 .. Len(q)}
<1>1. q \in Seq(S)
  BY Elements
<1> HIDE DEF S
<1>2. r \in Seq(S) /\ Len(r) = n /\ \A i \in 1 .. n : r[i] = q[i]
  BY <1>1 DEF List
<1> QED
  BY <1>2, Listed

LEMMA LastAndFront ==
  ASSUME NEW q, List(q), Len(q) > 0
  PROVE  /\ Last(q) = q[Len(q)]
         /\ List(Front(q)) /\ Len(Front(q)) = Len(q) - 1
         /\ \A i \in 1 .. Len(q) - 1 : Front(q)[i] = q[i]
<1>1. Len(q) - 1 \in 0 .. Len(q)
  BY DEF List
<1> QED
  BY <1>1, Cut DEF Last, Front

LEMMA Joined ==
  ASSUME NEW q, List(q), NEW r, List(r)
  PROVE  /\ List(q \o r) /\ Len(q \o r) = Len(q) + Len(r)
         /\ \A i \in 1 .. Len(q) : (q \o r)[i] = q[i]
         /\ \A i \in 1 .. Len(r) : (q \o r)[Len(q) + i] = r[i]
<1> DEFINE S == {q[i] : i \in 1 .. Len(q)} \cup {r[i] : i \in 1 .. Len(r)}
           qr == q \o r
<1>1. q \in Seq(S) /\ r \in Seq(S)
  BY Elements
<1> HIDE DEF S
<1>2. /\ qr \in Seq(S) /\ Len(qr) = Len(q) + Len(r)
      /\ \A i \in 1 .. Len(q) : qr[i] = q[i]
      /\ \A i \in 1 .. Len(r) : qr[Len(q) + i] = r[i]
  BY <1>1
<1> HIDE DEF qr
<1>3. List(qr)
  BY <1>2, Listed
<1>4. /\ List(qr) /\ Len(qr) = Len(q) + Len(r)
      /\ \A i \in 1 .. Len(q) : qr[i] = q[i]
      /\ \A i \in 1 .. Len(r) : qr[Len(q) + i] = r[i]
  BY <1>2, <1>3
<1> QED
  BY <1>4 DEF qr
-----------------------------------------------------------------------------
(* The code.                                                               *)

\* pushaq and popaq, element by element.
LEMMA Pushed ==
  /\ DOMAIN pushaq = 1 .. 15 /\ DOMAIN popaq = 1 .. 15
  /\ \A m \in 1 .. 15 : pushaq[m] = popaq[16 - m]
<1>1. DOMAIN pushaq = 1 .. 15 /\ DOMAIN popaq = 1 .. 15
  BY DEF pushaq, popaq
<1>2. \A m \in 1 .. 15 : pushaq[m] = popaq[16 - m]
  BY DEF pushaq, popaq
<1> QED
  BY <1>1, <1>2

\* popaq takes back every general register.
LEMMA Popped == GPR = {popaq[m] : m \in 1 .. 15}
BY Pushed DEF GPR, Range

\* The structure's first fields, upwards, are the registers popaq takes.
LEMMA Fields ==
  /\ DOMAIN registers = 1 .. 22 /\ Len(registers) = 22
  /\ \A m \in 1 .. 15 : registers[m] = popaq[m]
  /\ registers[16] = "int_no" /\ registers[17] = "error" /\ registers[18] = "rip"
  /\ registers[19] = "cs" /\ registers[20] = "rflags" /\ registers[21] = "rsp"
  /\ registers[22] = "ss"
BY DEF registers, popaq

\* No two fields have the same name.
LEMMA FieldsDiffer == \A m, n \in 1 .. 22 : registers[m] = registers[n] => m = n
BY DEF registers

LEMMA Offsets == \A m \in 1 .. 22 : Offset(registers[m]) = m - 1
<1> TAKE m \in 1 .. 22
<1>1. PICK n \in 1 .. 22 : n = CHOOSE i \in DOMAIN registers : registers[i] = registers[m]
  BY Fields
<1>2. registers[n] = registers[m]
  BY <1>1, Fields
<1> QED
  BY <1>1, <1>2, FieldsDiffer DEF Offset

\* Concatenation, element by element.
LEMMA Concat ==
  ASSUME NEW S, NEW s \in Seq(S), NEW t \in Seq(S), NEW st, st = s \o t
  PROVE  /\ st \in Seq(S) /\ Len(st) = Len(s) + Len(t)
         /\ \A i \in 1 .. Len(s) : st[i] = s[i]
         /\ \A i \in 1 .. Len(t) : st[Len(s) + i] = t[i]
OBVIOUS

LEMMA CommonStub ==
  /\ \E S : isr_common_stub \in Seq(S) /\ Len(isr_common_stub) = 35
  /\ \A j \in 1 .. 15 : isr_common_stub[j] = <<"push", popaq[16 - j]>>
  /\ isr_common_stub[16] = <<"mov_rdi_rsp">>
  /\ isr_common_stub[17] = <<"cld">>
  /\ isr_common_stub[18] = <<"call_isr_handler">>
  /\ \A j \in 19 .. 33 : isr_common_stub[j] = <<"pop", popaq[j - 18]>>
  /\ isr_common_stub[34] = <<"add_rsp", 2>>
  /\ isr_common_stub[35] = <<"iretq">>
<1> DEFINE S == {<<"push", popaq[m]>> : m \in 1 .. 15} \cup {<<"pop", popaq[m]>> : m \in 1 .. 15}
                \cup {<<"mov_rdi_rsp">>, <<"cld">>, <<"call_isr_handler">>, <<"add_rsp", 2>>, <<"iretq">>}
           a == [i \in DOMAIN pushaq |-> <<"push", pushaq[i]>>]
           b == << <<"mov_rdi_rsp">>, <<"cld">>, <<"call_isr_handler">> >>
           c == [i \in DOMAIN popaq |-> <<"pop", popaq[i]>>]
           e == << <<"add_rsp", 2>>, <<"iretq">> >>
           ab == a \o b
           abc == ab \o c
<1>l. Len(a) = 15 /\ Len(b) = 3 /\ Len(c) = 15 /\ Len(e) = 2
  BY Pushed
<1>a. \A i \in 1 .. 15 : a[i] = <<"push", popaq[16 - i]>>
  BY Pushed
<1>b. b[1] = <<"mov_rdi_rsp">> /\ b[2] = <<"cld">> /\ b[3] = <<"call_isr_handler">>
  OBVIOUS
<1>c. \A i \in 1 .. 15 : c[i] = <<"pop", popaq[i]>>
  BY Pushed
<1>e. e[1] = <<"add_rsp", 2>> /\ e[2] = <<"iretq">>
  OBVIOUS
<1>1. a \in Seq(S) /\ b \in Seq(S) /\ c \in Seq(S) /\ e \in Seq(S)
  BY Pushed
<1>2. isr_common_stub = abc \o e /\ abc = ab \o c /\ ab = a \o b
  BY DEF isr_common_stub
<1> HIDE DEF S, a, b, c, e, ab, abc
<1>3. /\ ab \in Seq(S) /\ Len(ab) = Len(a) + Len(b)
      /\ \A i \in 1 .. Len(a) : ab[i] = a[i]
      /\ \A i \in 1 .. Len(b) : ab[Len(a) + i] = b[i]
  BY <1>1, <1>2, Concat
<1>4. /\ abc \in Seq(S) /\ Len(abc) = Len(ab) + Len(c)
      /\ \A i \in 1 .. Len(ab) : abc[i] = ab[i]
      /\ \A i \in 1 .. Len(c) : abc[Len(ab) + i] = c[i]
  BY <1>1, <1>2, <1>3, Concat, SMTT(30)
<1>5. /\ isr_common_stub \in Seq(S) /\ Len(isr_common_stub) = Len(abc) + Len(e)
      /\ \A i \in 1 .. Len(abc) : isr_common_stub[i] = abc[i]
      /\ \A i \in 1 .. Len(e) : isr_common_stub[Len(abc) + i] = e[i]
  BY <1>1, <1>2, <1>4, Concat
<1>6. Len(ab) = 18 /\ Len(abc) = 33 /\ Len(isr_common_stub) = 35
  <2>1. Len(ab) = Len(a) + Len(b)
    BY <1>3
  <2>2. Len(abc) = Len(ab) + Len(c)
    BY <1>4
  <2>3. Len(isr_common_stub) = Len(abc) + Len(e)
    BY <1>5
  <2> QED
    BY <1>l, <2>1, <2>2, <2>3
<1>7. /\ \A i \in 1 .. 15 : ab[i] = a[i]
      /\ \A i \in 1 .. 3 : ab[15 + i] = b[i]
  BY <1>3, <1>l
<1>8. /\ \A i \in 1 .. 18 : abc[i] = ab[i]
      /\ \A i \in 1 .. 15 : abc[18 + i] = c[i]
  <2>1. \A i \in 1 .. Len(ab) : abc[i] = ab[i]
    BY <1>4
  <2>2. \A i \in 1 .. Len(c) : abc[Len(ab) + i] = c[i]
    BY <1>4
  <2> QED
    BY <2>1, <2>2, <1>6, <1>l
<1>9. /\ \A i \in 1 .. 33 : isr_common_stub[i] = abc[i]
      /\ \A i \in 1 .. 2 : isr_common_stub[33 + i] = e[i]
  <2>1. \A i \in 1 .. Len(abc) : isr_common_stub[i] = abc[i]
    BY <1>5
  <2>2. \A i \in 1 .. Len(e) : isr_common_stub[Len(abc) + i] = e[i]
    BY <1>5
  <2> QED
    BY <2>1, <2>2, <1>6, <1>l
<1>10. \A j \in 1 .. 15 : isr_common_stub[j] = <<"push", popaq[16 - j]>>
  <2> TAKE j \in 1 .. 15
  <2>1. isr_common_stub[j] = abc[j] /\ abc[j] = ab[j] /\ ab[j] = a[j]
    BY <1>7, <1>8, <1>9
  <2> QED
    BY <2>1, <1>a
<1>11. /\ isr_common_stub[16] = <<"mov_rdi_rsp">>
       /\ isr_common_stub[17] = <<"cld">>
       /\ isr_common_stub[18] = <<"call_isr_handler">>
  <2>1. isr_common_stub[16] = ab[16] /\ isr_common_stub[17] = ab[17] /\ isr_common_stub[18] = ab[18]
    BY <1>8, <1>9
  <2>2. ab[16] = b[1] /\ ab[17] = b[2] /\ ab[18] = b[3]
    BY <1>7
  <2> QED
    BY <2>1, <2>2, <1>b, Zenon
<1>12. \A j \in 19 .. 33 : isr_common_stub[j] = <<"pop", popaq[j - 18]>>
  <2> TAKE j \in 19 .. 33
  <2>1. isr_common_stub[j] = abc[j] /\ abc[18 + (j - 18)] = c[j - 18]
    BY <1>8, <1>9
  <2> QED
    BY <2>1, <1>c
<1>13. isr_common_stub[34] = <<"add_rsp", 2>> /\ isr_common_stub[35] = <<"iretq">>
  <2>1. isr_common_stub[34] = e[1] /\ isr_common_stub[35] = e[2]
    BY <1>9
  <2> QED
    BY <2>1, <1>e
<1> QED
  BY <1>5, <1>6, <1>10, <1>11, <1>12, <1>13

\* The instructions of a stub, counted from isr_common_stub on.
LEMMA StubCode ==
  ASSUME NEW v
  PROVE  LET Ins(j) == Stub(v)[j + Skew(v)] IN
         /\ DOMAIN Stub(v) = 1 .. 35 + Skew(v)
         /\ v \notin ErrorStubs => Ins(-1) = <<"push_imm", MISSING_ERROR_CODE_MAGIC>>
         /\ Ins(0) = <<"push_imm", Imm(v)>>
         /\ \A j \in 1 .. 15 : Ins(j) = <<"push", popaq[16 - j]>>
         /\ Ins(16) = <<"mov_rdi_rsp">>
         /\ Ins(17) = <<"cld">>
         /\ Ins(18) = <<"call_isr_handler">>
         /\ \A j \in 19 .. 33 : Ins(j) = <<"pop", popaq[j - 18]>>
         /\ Ins(34) = <<"add_rsp", 2>>
         /\ Ins(35) = <<"iretq">>
<1>1. PICK S : isr_common_stub \in Seq(S) /\ Len(isr_common_stub) = 35
  BY CommonStub
<1>0. /\ \A j \in 1 .. 15 : isr_common_stub[j] = <<"push", popaq[16 - j]>>
      /\ isr_common_stub[16] = <<"mov_rdi_rsp">>
      /\ isr_common_stub[17] = <<"cld">>
      /\ isr_common_stub[18] = <<"call_isr_handler">>
      /\ \A j \in 19 .. 33 : isr_common_stub[j] = <<"pop", popaq[j - 18]>>
      /\ isr_common_stub[34] = <<"add_rsp", 2>>
      /\ isr_common_stub[35] = <<"iretq">>
  BY CommonStub
<1> DEFINE Ins(j) == Stub(v)[j + Skew(v)]
           T == S \cup {<<"push_imm", Imm(v)>>, <<"push_imm", MISSING_ERROR_CODE_MAGIC>>}
<1>2. isr(v) \in Seq(T) /\ Len(isr(v)) = Skew(v)
  <2>1. CASE v \in ErrorStubs
    <3>1. isr(v) = << <<"push_imm", Imm(v)>> >> /\ Skew(v) = 1
      BY <2>1 DEF isr, Skew
    <3>2. << <<"push_imm", Imm(v)>> >> \in Seq(T) /\ Len(<< <<"push_imm", Imm(v)>> >>) = 1
      OBVIOUS
    <3> HIDE DEF T
    <3> QED
      BY <3>1, <3>2
  <2>2. CASE v \notin ErrorStubs
    <3>1. isr(v) = << <<"push_imm", MISSING_ERROR_CODE_MAGIC>>, <<"push_imm", Imm(v)>> >>
          /\ Skew(v) = 2
      BY <2>2 DEF isr, Skew
    <3> DEFINE x == <<"push_imm", MISSING_ERROR_CODE_MAGIC>>
               y == <<"push_imm", Imm(v)>>
    <3>2. x \in T /\ y \in T
      OBVIOUS
    <3>3. isr(v) = <<x, y>>
      BY <3>1
    <3> HIDE DEF T, x, y
    <3>4. <<x, y>> \in Seq(T) /\ Len(<<x, y>>) = 2
      BY <3>2
    <3> QED
      BY <3>1, <3>3, <3>4
  <2> QED
    BY <2>1, <2>2
<1>3. /\ isr(v)[Skew(v)] = <<"push_imm", Imm(v)>>
      /\ v \notin ErrorStubs => Skew(v) = 2 /\ isr(v)[1] = <<"push_imm", MISSING_ERROR_CODE_MAGIC>>
  BY DEF isr, Skew
<1>4. isr_common_stub \in Seq(T)
  <2>1. S \subseteq T
    OBVIOUS
  <2> HIDE DEF T
  <2> QED
    BY <1>1, <2>1
<1>5. Skew(v) \in {1, 2}
  BY DEF Skew
<1> HIDE DEF T
<1>6. /\ Stub(v) \in Seq(T) /\ Len(Stub(v)) = Len(isr(v)) + Len(isr_common_stub)
      /\ \A i \in 1 .. Len(isr(v)) : Stub(v)[i] = isr(v)[i]
      /\ \A i \in 1 .. Len(isr_common_stub) : Stub(v)[Len(isr(v)) + i] = isr_common_stub[i]
  <2>1. isr(v) \in Seq(T) /\ Stub(v) = isr(v) \o isr_common_stub
    BY <1>2 DEF Stub
  <2> QED
    BY <2>1, <1>4, Concat
<1>7. DOMAIN Stub(v) = 1 .. 35 + Skew(v)
  <2>1. Len(Stub(v)) = Len(isr(v)) + Len(isr_common_stub)
    BY <1>6
  <2>2. Len(Stub(v)) = 35 + Skew(v)
    BY <1>1, <1>2, <1>5, <2>1
  <2>3. DOMAIN Stub(v) = 1 .. Len(Stub(v))
    BY <1>6
  <2> QED
    BY <2>2, <2>3
<1>8. \A j \in 1 .. 35 : Ins(j) = isr_common_stub[j]
  <2>1. \A i \in 1 .. Len(isr_common_stub) : Stub(v)[Len(isr(v)) + i] = isr_common_stub[i]
    BY <1>6
  <2>2. \A i \in 1 .. 35 : Stub(v)[Skew(v) + i] = isr_common_stub[i]
    BY <1>1, <1>2, <2>1
  <2>3. \A i \in 1 .. 35 : Skew(v) + i = i + Skew(v)
    BY <1>5
  <2> QED
    BY <2>2, <2>3
<1>9. /\ Ins(0) = isr(v)[Skew(v)]
      /\ v \notin ErrorStubs => Ins(-1) = isr(v)[1]
  <2>1. \A i \in 1 .. Skew(v) : Stub(v)[i] = isr(v)[i]
    BY <1>2, <1>6
  <2>2. Stub(v)[Skew(v)] = isr(v)[Skew(v)] /\ Stub(v)[1] = isr(v)[1]
    BY <1>5, <2>1
  <2>3. 0 + Skew(v) = Skew(v) /\ (v \notin ErrorStubs => -1 + Skew(v) = 1)
    BY DEF Skew
  <2> QED
    BY <2>2, <2>3
<1> HIDE DEF Ins
<1>10. /\ v \notin ErrorStubs => Ins(-1) = <<"push_imm", MISSING_ERROR_CODE_MAGIC>>
       /\ Ins(0) = <<"push_imm", Imm(v)>>
  BY <1>3, <1>9
<1>11. \A j \in 1 .. 15 : Ins(j) = <<"push", popaq[16 - j]>>
  <2>1. \A j \in 1 .. 15 : Ins(j) = isr_common_stub[j]
    BY <1>8
  <2> QED
    BY <1>0, <2>1, Zenon
<1>12. Ins(16) = <<"mov_rdi_rsp">> /\ Ins(17) = <<"cld">> /\ Ins(18) = <<"call_isr_handler">>
  <2>1. Ins(16) = isr_common_stub[16] /\ Ins(17) = isr_common_stub[17] /\ Ins(18) = isr_common_stub[18]
    BY <1>8
  <2> QED
    BY <1>0, <2>1, Zenon
<1>13. \A j \in 19 .. 33 : Ins(j) = <<"pop", popaq[j - 18]>>
  <2>1. \A j \in 19 .. 33 : Ins(j) = isr_common_stub[j]
    BY <1>8
  <2> QED
    BY <1>0, <2>1, Zenon
<1>14. Ins(34) = <<"add_rsp", 2>> /\ Ins(35) = <<"iretq">>
  <2>1. Ins(34) = isr_common_stub[34] /\ Ins(35) = isr_common_stub[35]
    BY <1>8
  <2> QED
    BY <1>0, <2>1, Zenon
<1> QED
  BY <1>7, <1>10, <1>11, <1>12, <1>13, <1>14 DEF Ins

\* What the first word of the instruction before which t stands says of j.
LEMMA Decode ==
  ASSUME NEW v, NEW j \in 1 - Skew(v) .. 35, NEW ins, ins = Stub(v)[j + Skew(v)]
  PROVE  /\ ins[1] = "push_imm" =>
              \/ j = 0 /\ ins[2] = Imm(v)
              \/ j = -1 /\ v \notin ErrorStubs /\ ins[2] = MISSING_ERROR_CODE_MAGIC
         /\ ins[1] = "push" => j \in 1 .. 15 /\ ins[2] = popaq[16 - j]
         /\ ins[1] = "mov_rdi_rsp" => j = 16
         /\ ins[1] = "cld" => j = 17
         /\ ins[1] = "call_isr_handler" => j = 18
         /\ ins[1] = "pop" => j \in 19 .. 33 /\ ins[2] = popaq[j - 18]
         /\ ins[1] = "add_rsp" => j = 34 /\ ins[2] = 2
         /\ ins[1] = "iretq" => j = 35
<1>1. j >= -1 /\ (v \in ErrorStubs => j # -1)
  BY DEF Skew
<1>2. j = -1 => ins[1] = "push_imm" /\ ins[2] = MISSING_ERROR_CODE_MAGIC
  <2>1. j = -1 => ins = <<"push_imm", MISSING_ERROR_CODE_MAGIC>>
    BY <1>1, StubCode
  <2> QED
    BY <2>1
<1>3. j = 0 => ins[1] = "push_imm" /\ ins[2] = Imm(v)
  <2>1. j = 0 => ins = <<"push_imm", Imm(v)>>
    BY StubCode
  <2> QED
    BY <2>1
<1>4. j \in 1 .. 15 => ins[1] = "push" /\ ins[2] = popaq[16 - j]
  <2>1. j \in 1 .. 15 => ins = <<"push", popaq[16 - j]>>
    BY StubCode
  <2> QED
    BY <2>1
<1>5. j = 16 => ins[1] = "mov_rdi_rsp"
  <2>1. j = 16 => ins = <<"mov_rdi_rsp">>
    BY StubCode
  <2> QED
    BY <2>1
<1>6. j = 17 => ins[1] = "cld"
  <2>1. j = 17 => ins = <<"cld">>
    BY StubCode
  <2> QED
    BY <2>1
<1>7. j = 18 => ins[1] = "call_isr_handler"
  <2>1. j = 18 => ins = <<"call_isr_handler">>
    BY StubCode
  <2> QED
    BY <2>1
<1>8. j \in 19 .. 33 => ins[1] = "pop" /\ ins[2] = popaq[j - 18]
  <2>1. j \in 19 .. 33 => ins = <<"pop", popaq[j - 18]>>
    BY StubCode
  <2> QED
    BY <2>1
<1>9. j = 34 => ins[1] = "add_rsp" /\ ins[2] = 2
  <2>1. j = 34 => ins = <<"add_rsp", 2>>
    BY StubCode
  <2> QED
    BY <2>1
<1>10. j = 35 => ins[1] = "iretq"
  <2>1. j = 35 => ins = <<"iretq">>
    BY StubCode
  <2> QED
    BY <2>1
<1> QED
  BY <1>1, <1>2, <1>3, <1>4, <1>5, <1>6, <1>7, <1>8, <1>9, <1>10
-----------------------------------------------------------------------------
(* The stack of a trap.                                                    *)

\* The 22 words, from the processor's up.
LEMMA Words ==
  ASSUME NEW s
  PROVE  /\ Word(s, 1) = s.regs["ss"] /\ Word(s, 2) = <<"rsp", Len(s.stk)>>
         /\ Word(s, 3) = s.regs["rflags"] /\ Word(s, 4) = s.regs["cs"] /\ Word(s, 5) = s.rip
         /\ s.vector \in ErrorCoded => Word(s, 6) = <<"error", s.trap>>
         /\ s.vector \notin ErrorCoded =>
              Word(s, 6) = <<"imm", SignExtended32(MISSING_ERROR_CODE_MAGIC)>>
         /\ Word(s, 7) = <<"imm", Imm(s.vector)>>
         /\ \A m \in 1 .. 15 : Word(s, 23 - m) = s.regs[popaq[m]]
<1>1. \A m \in 1 .. 15 : popaq[m] \notin {"int_no", "error", "rip", "rsp"}
  BY DEF popaq
<1>2. \A m \in 1 .. 15 : Word(s, 23 - m) = s.regs[popaq[m]]
  <2> TAKE m \in 1 .. 15
  <2>1. registers[23 - (23 - m)] = popaq[m]
    BY Fields
  <2> QED
    BY <1>1, <2>1 DEF Word, TrueValue
<1>3. /\ Word(s, 1) = s.regs["ss"] /\ Word(s, 3) = s.regs["rflags"] /\ Word(s, 4) = s.regs["cs"]
  <2>1. /\ Word(s, 1) = TrueValue(s, "ss") /\ Word(s, 3) = TrueValue(s, "rflags")
        /\ Word(s, 4) = TrueValue(s, "cs")
    BY Fields DEF Word
  <2>2. TrueValue(s, "ss") = s.regs["ss"]
    BY DEF TrueValue
  <2>3. TrueValue(s, "rflags") = s.regs["rflags"]
    BY DEF TrueValue
  <2>4. TrueValue(s, "cs") = s.regs["cs"]
    BY DEF TrueValue
  <2> QED
    BY <2>1, <2>2, <2>3, <2>4
<1>4. Word(s, 5) = s.rip /\ Word(s, 2) = <<"rsp", Len(s.stk)>>
  <2>1. Word(s, 5) = TrueValue(s, "rip") /\ Word(s, 2) = TrueValue(s, "rsp")
    BY Fields DEF Word
  <2> QED
    BY <2>1 DEF TrueValue
<1>5. /\ s.vector \in ErrorCoded => Word(s, 6) = <<"error", s.trap>>
      /\ s.vector \notin ErrorCoded =>
              Word(s, 6) = <<"imm", SignExtended32(MISSING_ERROR_CODE_MAGIC)>>
  <2>1. Word(s, 6) = TrueValue(s, "error")
    BY Fields DEF Word
  <2> QED
    BY <2>1 DEF TrueValue
<1>6. Word(s, 7) = <<"imm", Imm(s.vector)>>
  <2>1. Word(s, 7) = TrueValue(s, "int_no")
    BY Fields DEF Word
  <2> QED
    BY <2>1 DEF TrueValue
<1> QED
  BY <1>2, <1>3, <1>4, <1>5, <1>6

LEMMA Aligned ==
  ASSUME NEW s, List(s.stk)
  PROVE  Start(s) \in Nat /\ Start(s) % 2 = 0 /\ Start(s) - Len(s.stk) \in {0, 1}
<1> DEFINE n == Len(s.stk)
<1>1. n \in Nat /\ Start(s) = n + (n % 2)
  BY DEF Start, List
<1> HIDE DEF n
<1>2. n % 2 \in {0, 1} /\ (n + (n % 2)) % 2 = 0
  BY <1>1
<1>3. Start(s) \in Nat /\ Start(s) % 2 = 0 /\ Start(s) - n \in {0, 1}
  BY <1>1, <1>2
<1> QED
  BY <1>3 DEF n

\* The stack, word by word.
LEMMA Stack ==
  ASSUME NEW s, List(s.stk), NEW h \in Nat
  PROVE  /\ List(Upto(s, h)) /\ Len(Upto(s, h)) = Start(s) + h
         /\ Prefix(s.stk, Upto(s, h))
         /\ \A m \in 1 .. h : Upto(s, h)[Start(s) + m] = Word(s, m)
<1> DEFINE n == Start(s) + h
<1>1. n \in Nat
  BY Aligned
<1>2. Upto(s, h) = [p \in 1 .. n |-> Upto(s, h)[p]]
  BY DEF Upto
<1> HIDE DEF n
<1>3. List(Upto(s, h)) /\ Len(Upto(s, h)) = n
  BY <1>1, <1>2, Built
<1>4. Prefix(s.stk, Upto(s, h))
  BY <1>3, Aligned DEF n, Upto, Prefix, List
<1>5. ASSUME NEW m \in 1 .. h PROVE Upto(s, h)[Start(s) + m] = Word(s, m)
  <2>1. Start(s) + m \in 1 .. Start(s) + h /\ ~(Start(s) + m <= Start(s)) /\ ~(Start(s) + m <= Len(s.stk))
    BY Aligned DEF List
  <2>2. (Start(s) + m) - Start(s) = m
    BY Aligned
  <2> QED
    BY <2>1, <2>2 DEF Upto
<1> QED
  BY <1>3, <1>4, <1>5 DEF n

\* Another word on top, the top word taken away, several of them.
LEMMA Higher ==
  ASSUME NEW s, List(s.stk), NEW h \in Nat, NEW x, x = Word(s, h + 1)
  PROVE  Append(Upto(s, h), x) = Upto(s, h + 1)
<1> DEFINE q == Append(Upto(s, h), x)
<1>1. List(Upto(s, h)) /\ Len(Upto(s, h)) = Start(s) + h
  BY Stack
<1>2. /\ List(q) /\ Len(q) = Start(s) + h + 1 /\ q[Start(s) + h + 1] = x
      /\ \A i \in 1 .. Start(s) + h : q[i] = Upto(s, h)[i]
  BY <1>1, Appended
<1>3. List(Upto(s, h + 1)) /\ Len(Upto(s, h + 1)) = Start(s) + h + 1
  <2>1. h + 1 \in Nat /\ Start(s) + (h + 1) = Start(s) + h + 1
    BY Aligned
  <2>2. List(Upto(s, h + 1)) /\ Len(Upto(s, h + 1)) = Start(s) + (h + 1)
    BY <2>1, Stack
  <2> QED
    BY <2>1, <2>2
<1> HIDE DEF q
<1>4. \A i \in 1 .. Start(s) + h + 1 : q[i] = Upto(s, h + 1)[i]
  <2> TAKE i \in 1 .. Start(s) + h + 1
  <2>1. CASE i \in 1 .. Start(s) + h
    <3>1. i \in 1 .. Start(s) + (h + 1)
      BY <2>1, Aligned
    <3>2. Upto(s, h)[i] = Upto(s, h + 1)[i]
      BY <2>1, <3>1 DEF Upto
    <3> QED
      BY <2>1, <3>2, <1>2
  <2>2. CASE i = Start(s) + (h + 1)
    <3>1. Upto(s, h + 1)[Start(s) + (h + 1)] = Word(s, h + 1)
      <4>1. h + 1 \in Nat /\ h + 1 \in 1 .. h + 1
        OBVIOUS
      <4>2. \A m \in 1 .. h + 1 : Upto(s, h + 1)[Start(s) + m] = Word(s, m)
        BY <4>1, Stack, SMTT(30)
      <4> QED
        BY <4>1, <4>2
    <3>2. q[Start(s) + (h + 1)] = x
      BY <1>2, Aligned
    <3> QED
      BY <2>2, <3>1, <3>2
  <2>3. i \in 1 .. Start(s) + h \/ i = Start(s) + (h + 1)
    BY Aligned
  <2> QED
    BY <2>1, <2>2, <2>3
<1> QED
  BY <1>2, <1>3, <1>4, Equal DEF q

LEMMA Lower ==
  ASSUME NEW s, List(s.stk), NEW h \in Nat, NEW g \in 0 .. h
  PROVE  SubSeq(Upto(s, h), 1, Start(s) + g) = Upto(s, g)
<1> DEFINE q == SubSeq(Upto(s, h), 1, Start(s) + g)
<1>0. Start(s) + g \in 0 .. Start(s) + h
  BY Aligned
<1>1. List(Upto(s, h)) /\ Len(Upto(s, h)) = Start(s) + h /\ Start(s) + g \in 0 .. Start(s) + h
  BY <1>0, Stack
<1>2. List(q) /\ Len(q) = Start(s) + g /\ \A i \in 1 .. Start(s) + g : q[i] = Upto(s, h)[i]
  <2> DEFINE u == Upto(s, h)
             n == Start(s) + g
  <2>1. List(u) /\ q = SubSeq(u, 1, n) /\ n \in 0 .. Len(u)
    BY <1>1
  <2> HIDE DEF q, u, n
  <2>2. List(q) /\ Len(q) = n /\ \A i \in 1 .. n : q[i] = u[i]
    BY <2>1, Cut
  <2> QED
    BY <2>2 DEF u, n
<1>3. List(Upto(s, g)) /\ Len(Upto(s, g)) = Start(s) + g
  BY Stack
<1> HIDE DEF q
<1>4. \A i \in 1 .. Start(s) + g : q[i] = Upto(s, g)[i]
  <2> TAKE i \in 1 .. Start(s) + g
  <2>1. i \in 1 .. Start(s) + h
    BY Aligned
  <2>2. Upto(s, h)[i] = Upto(s, g)[i]
    BY <2>1 DEF Upto
  <2> QED
    BY <2>2, <1>2
<1> QED
  BY <1>2, <1>3, <1>4, Equal DEF q

\* What the trap found is still there, as far as its stack goes.
LEMMA Lowest ==
  ASSUME NEW s, List(s.stk), NEW h \in Nat
  PROVE  SubSeq(Upto(s, h), 1, Len(s.stk)) = s.stk
<1> DEFINE q == SubSeq(Upto(s, h), 1, Len(s.stk))
<1>1. List(Upto(s, h)) /\ Len(s.stk) \in 0 .. Len(Upto(s, h)) /\ Prefix(s.stk, Upto(s, h))
  BY Stack, Aligned DEF List
<1>2. List(q) /\ Len(q) = Len(s.stk) /\ \A i \in 1 .. Len(s.stk) : q[i] = Upto(s, h)[i]
  <2> DEFINE u == Upto(s, h)
             n == Len(s.stk)
  <2>1. List(u) /\ q = SubSeq(u, 1, n) /\ n \in 0 .. Len(u)
    BY <1>1
  <2> HIDE DEF q, u, n
  <2>2. List(q) /\ Len(q) = n /\ \A i \in 1 .. n : q[i] = u[i]
    BY <2>1, Cut
  <2> QED
    BY <2>2 DEF u, n
<1> HIDE DEF q
<1>3. \A i \in 1 .. Len(s.stk) : q[i] = s.stk[i]
  BY <1>1, <1>2, SMTT(30) DEF Prefix
<1> QED
  BY <1>2, <1>3, Equal DEF q

\* Once the frame is whole, its words are where Field looks for them.
LEMMA Framed ==
  ASSUME NEW s, List(s.stk), NEW t, InTrap(s, t), Len(t.stk) >= FrameOf(s)
  PROVE  \A m \in 1 .. 22 : t.stk[Start(s) + m] = Word(s, m)
<1>1. FrameOf(s) = Start(s) + 22 /\ Start(s) \in Nat
  BY Fields, Aligned DEF FrameOf, Start
<1>2. CASE InAssembly(s, t)
  <2>1. PICK j \in 1 - Skew(s.vector) .. 35 : At(s, t, j)
    BY <1>2 DEF InAssembly
  <2>2. j >= -1
    BY DEF Skew
  <2>3. Height(j) \in 5 .. 22
    BY <2>2 DEF Height
  <2>4. t.stk = Upto(s, Height(j)) /\ Len(t.stk) = Start(s) + Height(j)
    <3>1. PICK h \in Nat : h = Height(j)
      BY <2>3
    <3>2. Len(Upto(s, h)) = Start(s) + h
      BY Stack, SMTT(30)
    <3>3. t.stk = Upto(s, Height(j))
      BY <2>1 DEF At
    <3> QED
      BY <3>1, <3>2, <3>3
  <2>5. Height(j) = 22
    <3> DEFINE n == Start(s)
               h == Height(j)
    <3>1. n + h >= n + 22 /\ n \in Nat /\ h \in 5 .. 22
      BY <1>1, <2>3, <2>4
    <3> HIDE DEF n, h
    <3>2. h = 22
      BY <3>1
    <3> QED
      BY <3>2 DEF h
  <2>6. \A m \in 1 .. 22 : Upto(s, 22)[Start(s) + m] = Word(s, m)
    BY Stack, SMTT(30)
  <2> QED
    BY <2>4, <2>5, <2>6
<1>3. CASE InC(s, t)
  <2> DEFINE u == Upto(s, 22)
             x == <<"stub", s.vector, 19 + Skew(s.vector)>>
  <2>1. t.stk = Append(u, x)
    BY <1>3 DEF InC
  <2>2. List(u) /\ Len(u) = Start(s) + 22 /\ \A m \in 1 .. 22 : u[Start(s) + m] = Word(s, m)
    BY Stack
  <2> HIDE DEF u, x
  <2>3. \A i \in 1 .. Len(u) : t.stk[i] = u[i]
    BY <2>1, <2>2, Appended
  <2>4. \A m \in 1 .. 22 : Start(s) + m \in 1 .. Len(u)
    <3>1. Len(u) = Start(s) + 22 /\ Start(s) \in Nat
      BY <1>1, <2>2
    <3> QED
      BY <3>1
  <2> QED
    BY <2>2, <2>3, <2>4
<1> QED
  BY <1>2, <1>3 DEF InTrap

\* A trap never goes below the stack it found.
LEMMA Above ==
  ASSUME NEW s, List(s.stk), NEW t, InTrap(s, t)
  PROVE  Prefix(s.stk, t.stk)
<1>1. CASE InAssembly(s, t)
  <2>1. PICK j \in 1 - Skew(s.vector) .. 35 : At(s, t, j)
    BY <1>1 DEF InAssembly
  <2>2. j >= -1
    BY DEF Skew
  <2>3. Height(j) \in Nat
    BY <2>2 DEF Height
  <2> QED
    BY <2>1, <2>3, Stack DEF At
<1>2. CASE InC(s, t)
  <2> DEFINE u == Upto(s, 22)
             x == <<"stub", s.vector, 19 + Skew(s.vector)>>
  <2>1. t.stk = Append(u, x)
    BY <1>2 DEF InC
  <2>2. List(u) /\ Prefix(s.stk, u)
    BY Stack
  <2> HIDE DEF u, x
  <2>3. Len(t.stk) = Len(u) + 1 /\ \A i \in 1 .. Len(u) : t.stk[i] = u[i]
    BY <2>1, <2>2, Appended
  <2> QED
    BY <2>2, <2>3 DEF Prefix, List
<1> QED
  BY <1>1, <1>2 DEF InTrap
-----------------------------------------------------------------------------
(* The trap in progress.                                                   *)

Top == saved[Len(saved)]

LEMMA TopIs ==
  ASSUME TInv, Len(saved) > 0
  PROVE  /\ Len(saved) \in Nat /\ Last(saved) = Top
         /\ List(Top.stk) /\ Regs(Top.regs) /\ Top.vector \in Vectors
         /\ InTrap(Top, Machine)
<1>1. Len(saved) \in 1 .. Len(saved) /\ List(saved)
  BY DEF TInv, Shape, List
<1>2. State(Len(saved)) = Machine
  BY DEF State
<1> QED
  BY <1>1, <1>2 DEF TInv, Shape, Top, Last, List

LEMMA MachineIs == Machine.stk = stk /\ Machine.regs = regs /\ Machine.rip = rip
BY DEF Machine

\* In the stub, the instruction is the one its position says.
LEMMA InStubIs ==
  ASSUME TInv, InStub
  PROVE  /\ Len(saved) > 0
         /\ \E j \in 1 - Skew(Top.vector) .. 35 :
              At(Top, Machine, j) /\ Instruction = Stub(Top.vector)[j + Skew(Top.vector)]
<1>1. Len(saved) \in Nat
  BY DEF TInv, Shape, List
<1>2. Len(saved) # 0
  <2> SUFFICES ASSUME Len(saved) = 0 PROVE FALSE
    OBVIOUS
  <2>1. State(0) = Machine
    BY DEF State
  <2>2. rip \in {Kmain(1), Kmain(2)}
    BY <2>1, MachineIs DEF TInv
  <2> QED
    BY <2>2 DEF InStub, Kmain
<1>3. ~InC(Top, Machine)
  BY MachineIs DEF InStub, InC
<1>4. PICK j \in 1 - Skew(Top.vector) .. 35 : At(Top, Machine, j)
  BY <1>1, <1>2, <1>3, TopIs DEF InTrap, InAssembly
<1>5. rip = <<"stub", Top.vector, j + Skew(Top.vector)>>
  BY <1>4, MachineIs DEF At
<1>6. Instruction = Stub(Top.vector)[j + Skew(Top.vector)]
  BY <1>5 DEF Instruction
<1> QED
  BY <1>1, <1>2, <1>4, <1>6

\* A step of the trap in progress leaves all that the others found alone.
LEMMA TopSteps ==
  ASSUME TInv, Len(saved) > 0, saved' = saved, taken' = taken,
         List(stk'), Regs(regs'), InTrap(Top, Machine')
  PROVE  TInv'
<1>1. Shape'
  BY DEF TInv, Shape
<1>2. Len(saved) \in Nat
  BY TopIs
<1>3. State(0)' = State(0)
  BY DEF State
<1>4. ASSUME NEW k \in 1 .. Len(saved) PROVE InTrap(saved[k], State(k)')
  <2>1. CASE k = Len(saved)
    BY <2>1 DEF State, Top
  <2>2. CASE k # Len(saved)
    <3>1. State(k)' = State(k)
      BY <2>2 DEF State
    <3> QED
      BY <3>1 DEF TInv
  <2> QED
    BY <2>1, <2>2
<1>5. \A k \in 1 .. Len(saved') : InTrap(saved[k]', State(k)')
  BY <1>4
<1>6. (\A k, l \in 1 .. Len(saved) : k <= l => Prefix(saved[k].stk, saved[l].stk))'
  BY DEF TInv
<1> QED
  BY <1>1, <1>3, <1>5, <1>6 DEF TInv

\* What the top trap does in assembly, when it goes on to its next instruction.
LEMMA Goes ==
  ASSUME TInv, InStub, NextInstruction, saved' = saved, taken' = taken,
         NEW j \in 1 - Skew(Top.vector) .. 34, At(Top, Machine, j), Regs(regs'),
         stk' = Upto(Top, Height(j + 1)),
         Keeps(Top, Machine', Kept(j + 1)),
         j + 1 \in {17, 18} => regs'["rdi"] = <<"rsp", FrameOf(Top)>>
  PROVE  TInv'
<1>1. j + 1 \in 1 - Skew(Top.vector) .. 35 /\ j + 1 >= -1
  BY DEF Skew
<1>2. Height(j + 1) \in Nat
  BY <1>1 DEF Height
<1>3. List(stk')
  BY <1>2, InStubIs, TopIs, Stack
<1>4. rip' = <<"stub", Top.vector, (j + 1) + Skew(Top.vector)>>
  <2>1. rip = <<"stub", Top.vector, j + Skew(Top.vector)>>
    BY MachineIs DEF At
  <2>2. j + Skew(Top.vector) + 1 = (j + 1) + Skew(Top.vector)
    BY DEF Skew
  <2> QED
    BY <2>1, <2>2 DEF NextInstruction
<1>5. At(Top, Machine', j + 1)
  BY <1>4 DEF At, Machine
<1>6. InTrap(Top, Machine')
  BY <1>1, <1>5 DEF InTrap, InAssembly
<1> QED
  BY <1>3, <1>6, InStubIs, TopSteps

LEMMA PushImmStep == TInv /\ PushImm => TInv'
<1> SUFFICES ASSUME TInv, PushImm PROVE TInv'
  OBVIOUS
<1>1. InStub
  BY DEF PushImm
<1>2. PICK j \in 1 - Skew(Top.vector) .. 35 :
        At(Top, Machine, j) /\ Instruction = Stub(Top.vector)[j + Skew(Top.vector)]
  BY <1>1, InStubIs
<1>3. \/ j = 0 /\ Instruction[2] = Imm(Top.vector)
      \/ j = -1 /\ Top.vector \notin ErrorStubs /\ Instruction[2] = MISSING_ERROR_CODE_MAGIC
  BY <1>2, Decode DEF PushImm
<1>4. List(Top.stk) /\ Top.vector \in Vectors /\ Regs(regs)
  BY <1>1, InStubIs, TopIs DEF TInv, Shape
<1>5. stk = Upto(Top, 6 + j)
  BY <1>2, <1>3, MachineIs DEF At, Height
<1>6. <<"imm", SignExtended32(Instruction[2])>> = Word(Top, (6 + j) + 1)
  <2>1. CASE j = 0
    <3>1. SignExtended32(Imm(Top.vector)) = Imm(Top.vector)
      BY DEF SignExtended32, Imm
    <3>2. Word(Top, 7) = <<"imm", Imm(Top.vector)>>
      BY Words
    <3> QED
      BY <1>3, <2>1, <3>1, <3>2
  <2>2. CASE j = -1
    <3>1. Top.vector \notin ErrorCoded
      BY <1>3, <2>2, TrapsAssumption
    <3>2. Word(Top, 6) = <<"imm", SignExtended32(MISSING_ERROR_CODE_MAGIC)>>
      BY <3>1, Words
    <3> QED
      BY <1>3, <2>2, <3>2
  <2> QED
    BY <1>3, <2>1, <2>2
<1>7. stk' = Upto(Top, (6 + j) + 1)
  <2>1. 6 + j \in Nat
    BY <1>3
  <2> QED
    BY <1>4, <1>5, <1>6, <2>1, Higher DEF PushImm
<1>8. Height(j + 1) = (6 + j) + 1 /\ Kept(j + 1) = Kept(j)
  BY <1>3 DEF Height, Kept
<1>9. Keeps(Top, Machine', Kept(j + 1))
  BY <1>2, <1>8 DEF At, Keeps, Machine, PushImm
<1> QED
  BY <1>1, <1>2, <1>3, <1>4, <1>7, <1>8, <1>9, Goes DEF PushImm

LEMMA PushStep == TInv /\ Push => TInv'
<1> SUFFICES ASSUME TInv, Push PROVE TInv'
  OBVIOUS
<1>1. InStub
  BY DEF Push
<1>2. PICK j \in 1 - Skew(Top.vector) .. 35 :
        At(Top, Machine, j) /\ Instruction = Stub(Top.vector)[j + Skew(Top.vector)]
  BY <1>1, InStubIs
<1>3. j \in 1 .. 15 /\ Instruction[2] = popaq[16 - j]
  BY <1>2, Decode DEF Push
<1>4. List(Top.stk) /\ Regs(regs)
  BY <1>1, InStubIs, TopIs DEF TInv, Shape
<1>5. stk = Upto(Top, 6 + j) /\ \A x \in Names : regs[x] = Top.regs[x]
  BY <1>2, <1>3, MachineIs DEF At, Height, Keeps, Kept
<1>6. regs[popaq[16 - j]] = Word(Top, (6 + j) + 1)
  <2>1. popaq[16 - j] \in Names
    BY <1>3, Popped DEF Names
  <2>2. Word(Top, (6 + j) + 1) = Top.regs[popaq[16 - j]]
    <3> DEFINE m == 16 - j
    <3>1. m \in 1 .. 15 /\ 23 - m = (6 + j) + 1
      BY <1>3
    <3> HIDE DEF m
    <3>2. Word(Top, 23 - m) = Top.regs[popaq[m]]
      BY <3>1, Words
    <3> QED
      BY <3>1, <3>2 DEF m
  <2> QED
    BY <1>5, <2>1, <2>2
<1>7. stk' = Upto(Top, (6 + j) + 1)
  <2>1. PICK h \in Nat : h = 6 + j
    BY <1>3
  <2>2. \A w : w = Word(Top, h + 1) => Append(Upto(Top, h), w) = Upto(Top, h + 1)
    BY <1>4, Higher
  <2>3. stk' = Append(stk, regs[popaq[16 - j]])
    BY <1>3 DEF Push
  <2> QED
    BY <1>5, <1>6, <2>1, <2>2, <2>3
<1>8. Height(j + 1) = (6 + j) + 1 /\ Kept(j + 1) = Names /\ Kept(j) = Names
  BY <1>3 DEF Height, Kept
<1>9. Keeps(Top, Machine', Kept(j + 1))
  BY <1>2, <1>8 DEF At, Keeps, Machine, Push
<1> QED
  BY <1>1, <1>2, <1>3, <1>4, <1>7, <1>8, <1>9, Goes DEF Push

LEMMA PopStep == TInv /\ Pop => TInv'
<1> SUFFICES ASSUME TInv, Pop PROVE TInv'
  OBVIOUS
<1>1. InStub
  BY DEF Pop
<1>2. PICK j \in 1 - Skew(Top.vector) .. 35 :
        At(Top, Machine, j) /\ Instruction = Stub(Top.vector)[j + Skew(Top.vector)]
  BY <1>1, InStubIs
<1>3. j \in 19 .. 33 /\ Instruction[2] = popaq[j - 18]
  BY <1>2, Decode DEF Pop
<1>4. List(Top.stk) /\ Regs(regs) /\ List(stk)
  BY <1>1, InStubIs, TopIs DEF TInv, Shape
<1>5. stk = Upto(Top, 41 - j)
  BY <1>2, <1>3, MachineIs DEF At, Height
<1>6. Len(stk) = Start(Top) + (41 - j) /\ Start(Top) \in Nat
  BY <1>3, <1>4, <1>5, Stack, Aligned
<1>7. Last(stk) = Top.regs[popaq[j - 18]]
  <2>1. Last(stk) = stk[Len(stk)]
    BY <1>3, <1>4, <1>6, LastAndFront
  <2>2. stk[Start(Top) + (41 - j)] = Word(Top, 41 - j)
    BY <1>3, <1>4, <1>5, Stack
  <2>3. Word(Top, 41 - j) = Top.regs[popaq[j - 18]]
    <3> DEFINE m == j - 18
    <3>1. m \in 1 .. 15 /\ 23 - m = 41 - j
      BY <1>3
    <3> HIDE DEF m
    <3>2. Word(Top, 23 - m) = Top.regs[popaq[m]]
      BY <3>1, Words
    <3> QED
      BY <3>1, <3>2 DEF m
  <2> QED
    BY <1>6, <2>1, <2>2, <2>3
<1>8. stk' = Upto(Top, 40 - j)
  <2>1. stk' = SubSeq(stk, 1, Len(stk) - 1)
    BY DEF Pop, Front
  <2>2. Len(stk) - 1 = Start(Top) + (40 - j) /\ 40 - j \in 0 .. 41 - j /\ 41 - j \in Nat
    BY <1>3, <1>6
  <2> QED
    BY <1>4, <1>5, <2>1, <2>2, Lower
<1>9. Height(j + 1) = 40 - j
  BY <1>3 DEF Height
<1>10. Keeps(Top, Machine', Kept(j + 1))
  <2> SUFFICES ASSUME NEW x \in Kept(j + 1) PROVE regs'[x] = Top.regs[x]
    BY DEF Keeps, Machine
  <2>1. x \in Names
    BY <1>3, Popped DEF Kept, CalleeSaved, Names
  <2>2. CASE x = popaq[j - 18]
    BY <1>4, <1>7, <1>3, <2>1, <2>2 DEF Pop, Regs
  <2>3. CASE x # popaq[j - 18]
    <3>1. x \in Kept(j)
      BY <1>3, <2>3 DEF Kept
    <3>2. regs'[x] = regs[x]
      BY <1>4, <1>3, <2>1, <2>3 DEF Pop, Regs
    <3> QED
      BY <1>2, <3>1, <3>2, MachineIs DEF At, Keeps
  <2> QED
    BY <2>2, <2>3
<1>11. Regs(regs')
  BY <1>4 DEF Pop, Regs
<1>12. NextInstruction /\ saved' = saved /\ taken' = taken
  BY DEF Pop
<1> QED
  BY <1>1, <1>2, <1>3, <1>8, <1>9, <1>10, <1>11, <1>12, Goes

LEMMA MovRdiRspStep == TInv /\ MovRdiRsp => TInv'
<1> SUFFICES ASSUME TInv, MovRdiRsp PROVE TInv'
  OBVIOUS
<1>1. InStub
  BY DEF MovRdiRsp
<1>2. PICK j \in 1 - Skew(Top.vector) .. 35 :
        At(Top, Machine, j) /\ Instruction = Stub(Top.vector)[j + Skew(Top.vector)]
  BY <1>1, InStubIs
<1>3. j = 16
  BY <1>2, Decode DEF MovRdiRsp
<1>4. List(Top.stk) /\ Regs(regs)
  BY <1>1, InStubIs, TopIs DEF TInv, Shape
<1>5. stk = Upto(Top, 22)
  BY <1>2, <1>3, MachineIs DEF At, Height
<1>6. Len(stk) = FrameOf(Top)
  <2>1. Len(stk) = Start(Top) + 22
    BY <1>4, <1>5, Stack
  <2> QED
    BY <2>1, Fields DEF FrameOf, Start
<1>7. "rdi" \in Names
  BY DEF Names, GPR, Range, pushaq
<1>8. regs'["rdi"] = <<"rsp", FrameOf(Top)>> /\ Regs(regs')
      /\ \A x \in Names : x # "rdi" => regs'[x] = regs[x]
  BY <1>4, <1>6, <1>7 DEF MovRdiRsp, Regs
<1>9. Height(j + 1) = 22 /\ Kept(j + 1) = CalleeSaved /\ Kept(j) = Names
  BY <1>3 DEF Height, Kept
<1>10. Keeps(Top, Machine', Kept(j + 1))
  <2>1. \A x \in CalleeSaved : x \in Names /\ x # "rdi"
    BY DEF CalleeSaved, CallerSaved
  <2> QED
    BY <1>2, <1>8, <1>9, <2>1, MachineIs DEF At, Keeps, Machine
<1>11. NextInstruction /\ saved' = saved /\ taken' = taken /\ stk' = stk
  BY DEF MovRdiRsp
<1> QED
  BY <1>1, <1>2, <1>3, <1>5, <1>8, <1>9, <1>10, <1>11, Goes

LEMMA CldStep == TInv /\ Cld => TInv'
<1> SUFFICES ASSUME TInv, Cld PROVE TInv'
  OBVIOUS
<1>1. InStub
  BY DEF Cld
<1>2. PICK j \in 1 - Skew(Top.vector) .. 35 :
        At(Top, Machine, j) /\ Instruction = Stub(Top.vector)[j + Skew(Top.vector)]
  BY <1>1, InStubIs
<1>3. j = 17
  BY <1>2, Decode DEF Cld
<1>4. Regs(regs)
  BY DEF TInv, Shape
<1>5. stk = Upto(Top, 22) /\ regs["rdi"] = <<"rsp", FrameOf(Top)>>
  BY <1>2, <1>3, MachineIs DEF At, Height
<1>6. "rdi" \in Names
  BY DEF Names, GPR, Range, pushaq
<1>7. Regs(regs') /\ \A x \in Names : x # "rflags" => regs'[x] = regs[x]
  BY <1>4 DEF Cld, Regs
<1>8. Height(j + 1) = 22 /\ Kept(j + 1) = CalleeSaved /\ Kept(j) = CalleeSaved
  BY <1>3 DEF Height, Kept
<1>9. Keeps(Top, Machine', Kept(j + 1))
  <2>1. \A x \in CalleeSaved : x \in Names /\ x # "rflags"
    BY DEF CalleeSaved
  <2> QED
    BY <1>2, <1>7, <1>8, <2>1, MachineIs DEF At, Keeps, Machine
<1>10. NextInstruction /\ saved' = saved /\ taken' = taken /\ stk' = stk
  BY DEF Cld
<1> QED
  BY <1>1, <1>2, <1>3, <1>5, <1>6, <1>7, <1>8, <1>9, <1>10, Goes

LEMMA CallStep == TInv /\ Call => TInv'
<1> SUFFICES ASSUME TInv, Call PROVE TInv'
  OBVIOUS
<1>1. InStub
  BY DEF Call
<1>2. PICK j \in 1 - Skew(Top.vector) .. 35 :
        At(Top, Machine, j) /\ Instruction = Stub(Top.vector)[j + Skew(Top.vector)]
  BY <1>1, InStubIs
<1>3. j = 18
  BY <1>2, Decode DEF Call
<1>4. Len(saved) > 0 /\ List(Top.stk) /\ Regs(regs) /\ List(stk)
  BY <1>1, InStubIs, TopIs DEF TInv, Shape
<1>5. stk = Upto(Top, 22) /\ regs["rdi"] = <<"rsp", FrameOf(Top)>>
  BY <1>2, <1>3, MachineIs DEF At, Height
<1>6. rip = <<"stub", Top.vector, 18 + Skew(Top.vector)>>
  BY <1>2, <1>3, MachineIs DEF At
<1>7. 18 + Skew(Top.vector) + 1 = 19 + Skew(Top.vector)
  BY DEF Skew
<1>8. stk' = Append(Upto(Top, 22), <<"stub", Top.vector, 19 + Skew(Top.vector)>>)
  BY <1>5, <1>6, <1>7 DEF Call
<1>9. List(stk')
  BY <1>4, Appended DEF Call
<1>10. Keeps(Top, Machine', CalleeSaved)
  BY <1>2, <1>3 DEF At, Keeps, Kept, Machine, Call
<1>11. /\ rip' = <<"code", "isr_handler", 1>>
       /\ saved' = saved /\ taken' = taken /\ regs' = regs
  BY DEF Call
<1>12. InC(Top, Machine')
  BY <1>5, <1>8, <1>10, <1>11 DEF InC, Machine
<1> QED
  BY <1>4, <1>9, <1>11, <1>12, TopSteps DEF InTrap

LEMMA AddRspStep == TInv /\ AddRsp => TInv'
<1> SUFFICES ASSUME TInv, AddRsp PROVE TInv'
  OBVIOUS
<1>1. InStub
  BY DEF AddRsp
<1>2. PICK j \in 1 - Skew(Top.vector) .. 35 :
        At(Top, Machine, j) /\ Instruction = Stub(Top.vector)[j + Skew(Top.vector)]
  BY <1>1, InStubIs
<1>3. j = 34 /\ Instruction[2] = 2
  BY <1>2, Decode DEF AddRsp
<1>4. List(Top.stk) /\ Regs(regs)
  BY <1>1, InStubIs, TopIs DEF TInv, Shape
<1>5. stk = Upto(Top, 7)
  BY <1>2, <1>3, MachineIs DEF At, Height
<1>6. Len(stk) - 2 = Start(Top) + 5
  <2>1. Len(stk) = Start(Top) + 7
    BY <1>4, <1>5, Stack
  <2>2. Start(Top) \in Nat
    BY <1>4, Aligned
  <2> QED
    BY <2>1, <2>2
<1>7. stk' = Upto(Top, 5)
  BY <1>3, <1>4, <1>5, <1>6, Lower DEF AddRsp
<1>8. Height(j + 1) = 5 /\ Kept(j + 1) \subseteq Kept(j)
  BY <1>3 DEF Height, Kept
<1>9. Keeps(Top, Machine', Kept(j + 1))
  BY <1>2, <1>8 DEF At, Keeps, Machine, AddRsp
<1>10. NextInstruction /\ saved' = saved /\ taken' = taken /\ regs' = regs
  BY DEF AddRsp
<1> QED
  BY <1>1, <1>2, <1>3, <1>4, <1>7, <1>8, <1>9, <1>10, Goes

\* iretq, at the end of the stub, resumes what the trap found.
LEMMA IretqReturns ==
  ASSUME TInv, Iretq
  PROVE  /\ Len(saved) > 0
         /\ stk' = Top.stk /\ regs' = Top.regs /\ rip' = Top.rip
<1>1. InStub
  BY DEF Iretq
<1>2. PICK j \in 1 - Skew(Top.vector) .. 35 :
        At(Top, Machine, j) /\ Instruction = Stub(Top.vector)[j + Skew(Top.vector)]
  BY <1>1, InStubIs
<1>3. j = 35
  BY <1>2, Decode DEF Iretq
<1>4. List(Top.stk) /\ Regs(regs) /\ Regs(Top.regs) /\ Len(saved) > 0
  BY <1>1, InStubIs, TopIs DEF TInv, Shape
<1>5. stk = Upto(Top, 5)
  BY <1>2, <1>3, MachineIs DEF At, Height
<1> DEFINE n == Len(stk)
<1>6. n = Start(Top) + 5 /\ Start(Top) \in Nat
  BY <1>4, <1>5, Stack, Aligned
<1>7. \A m \in 1 .. 5 : stk[Start(Top) + m] = Word(Top, m)
  BY <1>4, <1>5, Stack
<1>8. /\ stk[n] = Word(Top, 5) /\ stk[n - 1] = Word(Top, 4) /\ stk[n - 2] = Word(Top, 3)
      /\ stk[n - 3] = Word(Top, 2) /\ stk[n - 4] = Word(Top, 1)
  <2>1. /\ n = Start(Top) + 5 /\ n - 1 = Start(Top) + 4 /\ n - 2 = Start(Top) + 3
        /\ n - 3 = Start(Top) + 2 /\ n - 4 = Start(Top) + 1
    BY <1>6
  <2> HIDE DEF n
  <2> QED
    BY <1>7, <2>1
<1> HIDE DEF n
<1>9. /\ rip' = stk[n] /\ stk' = SubSeq(stk, 1, stk[n - 3][2])
      /\ regs' = [regs EXCEPT !["cs"] = stk[n - 1], !["rflags"] = stk[n - 2], !["ss"] = stk[n - 4]]
  BY DEF Iretq, n
<1>10. rip' = Top.rip
  BY <1>8, <1>9, Words
<1>11. stk' = Top.stk
  <2>1. stk[n - 3] = <<"rsp", Len(Top.stk)>>
    BY <1>8, Words
  <2>2. stk[n - 3][2] = Len(Top.stk)
    BY <2>1
  <2> QED
    BY <1>4, <1>5, <1>9, <2>2, Lowest
<1>12. /\ stk[n - 1] = Top.regs["cs"] /\ stk[n - 2] = Top.regs["rflags"]
       /\ stk[n - 4] = Top.regs["ss"]
  BY <1>8, Words
<1>13. ASSUME NEW x \in Names PROVE regs'[x] = Top.regs[x]
  <2>1. CASE x \in {"cs", "rflags", "ss"}
    BY <1>4, <1>9, <1>12, <2>1 DEF Regs
  <2>2. CASE x \notin {"cs", "rflags", "ss"}
    <3>1. x \in GPR
      BY <2>2 DEF Names
    <3>2. x \in Kept(35)
      BY <3>1, Popped DEF Kept
    <3>3. regs[x] = Top.regs[x]
      BY <1>2, <1>3, <3>2, MachineIs DEF At, Keeps
    <3>4. regs'[x] = regs[x]
      BY <1>4, <1>9, <2>2 DEF Regs
    <3> QED
      BY <3>3, <3>4
  <2> QED
    BY <2>1, <2>2
<1>14. Regs(regs')
  BY <1>4, <1>9 DEF Regs
<1>15. regs' = Top.regs
  BY <1>4, <1>13, <1>14 DEF Regs
<1> QED
  BY <1>4, <1>10, <1>11, <1>15

\* The trap that iretq ends is forgotten, and the one below is as it was.
LEMMA IretqStep == TInv /\ Iretq => TInv'
<1> SUFFICES ASSUME TInv, Iretq PROVE TInv'
  OBVIOUS
<1>1. Len(saved) > 0 /\ stk' = Top.stk /\ regs' = Top.regs /\ rip' = Top.rip
  BY IretqReturns
<1>2. List(saved) /\ Len(saved) \in Nat /\ List(Top.stk) /\ Regs(Top.regs)
  BY <1>1, TopIs DEF TInv, Shape
<1> DEFINE n == Len(saved) - 1
<1>3. /\ List(saved') /\ Len(saved') = n /\ \A k \in 1 .. n : saved'[k] = saved[k]
      /\ taken' = taken
  BY <1>1, <1>2, LastAndFront DEF Iretq
<1>4. n \in Nat /\ n <= Len(saved) /\ n # Len(saved) /\ saved[n + 1] = Top
  BY <1>1, <1>2 DEF Top
<1> HIDE DEF n
<1>5. Shape'
  <2>1. \A k \in 1 .. Len(saved) :
          List(saved[k].stk) /\ Regs(saved[k].regs) /\ saved[k].vector \in Vectors
    BY DEF TInv, Shape
  <2>2. \A k \in 1 .. Len(saved') :
          List(saved'[k].stk) /\ Regs(saved'[k].regs) /\ saved'[k].vector \in Vectors
    BY <1>2, <1>3, <1>4, <2>1
  <2>3. taken \in 0 .. MaxTraps /\ Len(saved) <= MaxNest /\ MaxNest \in Nat
    BY TrapsAssumption DEF TInv, Shape
  <2>4. Len(saved') <= MaxNest
    BY <1>2, <1>3, <1>4, <2>3
  <2>5. List(stk') /\ Regs(regs')
    BY <1>1, <1>2
  <2> QED
    BY <1>3, <2>2, <2>3, <2>4, <2>5 DEF Shape
<1>6. ASSUME NEW k \in 0 .. n
      PROVE  State(k)'.stk = State(k).stk /\ State(k)'.regs = State(k).regs
             /\ State(k)'.rip = State(k).rip
  <2>1. CASE k = n
    <3>1. State(k) = Top
      BY <1>4, <2>1 DEF State
    <3>2. State(k)' = Machine'
      BY <1>3, <2>1 DEF State
    <3> QED
      BY <1>1, <3>1, <3>2 DEF Machine
  <2>2. CASE k # n
    <3>1. k + 1 \in 1 .. n /\ k # Len(saved)
      BY <1>4, <2>2
    <3>2. State(k)' = saved'[k + 1] /\ State(k) = saved[k + 1]
      BY <1>3, <2>2, <3>1 DEF State
    <3> QED
      BY <1>3, <3>1, <3>2
  <2> QED
    BY <2>1, <2>2
<1>7. State(0)'.rip \in {Kmain(1), Kmain(2)}
  BY <1>4, <1>6 DEF TInv
<1>8. ASSUME NEW k \in 1 .. n PROVE InTrap(saved[k], State(k)')
  <2>1. InTrap(saved[k], State(k))
    BY <1>4 DEF TInv
  <2>2. k \in 0 .. n
    OBVIOUS
  <2> QED
    BY <1>6, <2>1, <2>2 DEF InTrap, InAssembly, InC, At, Keeps
<1>9. \A k \in 1 .. Len(saved') : InTrap(saved'[k], State(k)')
  BY <1>3, <1>8
<1>10. \A k, l \in 1 .. Len(saved') : k <= l => Prefix(saved'[k].stk, saved'[l].stk)
  BY <1>3, <1>4 DEF TInv
<1> QED
  BY <1>5, <1>7, <1>9, <1>10 DEF TInv

\* A trap is delivered: the stack it finds is whatever the one below had.
LEMMA DeliverStep == \A v \in Vectors : TInv /\ Deliver(v) => TInv'
<1> SUFFICES ASSUME NEW v \in Vectors, TInv, Deliver(v) PROVE TInv'
  OBVIOUS
<1> DEFINE s == [vector |-> v, trap |-> taken + 1, stk |-> stk, regs |-> regs, rip |-> rip]
           n == Len(saved)
<1>1. s.vector = v /\ s.trap = taken + 1 /\ s.stk = stk /\ s.regs = regs /\ s.rip = rip
  OBVIOUS
<1>2. saved' = Append(saved, s) /\ taken' = taken + 1 /\ taken < MaxTraps /\ n < MaxNest
      /\ regs' = regs /\ rip' = <<"stub", v, 1>>
  BY DEF Deliver
<1> HIDE DEF s
<1>3. List(saved) /\ List(stk) /\ Regs(regs) /\ n \in Nat /\ taken \in 0 .. MaxTraps
  BY DEF TInv, Shape, List
<1> HIDE DEF n
<1>4. List(saved') /\ Len(saved') = n + 1 /\ saved'[n + 1] = s /\ \A k \in 1 .. n : saved'[k] = saved[k]
  BY <1>2, <1>3, Appended DEF n
<1> DEFINE pad == IF Len(stk) % 2 = 0 THEN <<>> ELSE <<Pad>>
           five == <<regs["ss"], <<"rsp", Len(stk)>>, regs["rflags"], regs["cs"], rip>>
           code == IF v \in ErrorCoded THEN << <<"error", taken + 1>> >> ELSE <<>>
           h == IF v \in ErrorCoded THEN 6 ELSE 5
<1>5. stk' = Upto(s, h)
  <2> DEFINE a == stk \o pad
             b == a \o five
             c == b \o code
  <2>1. stk' = c
    BY DEF Deliver
  <2>2. /\ List(pad) /\ Len(pad) = Len(stk) % 2 /\ \A i \in 1 .. Len(pad) : pad[i] = Pad
    <3>1. CASE Len(stk) % 2 = 0
      <4>1. pad = <<>>
        BY <3>1
      <4> QED
        BY <4>1, <3>1 DEF List
    <3>2. CASE Len(stk) % 2 # 0
      <4>1. pad = <<Pad>> /\ Len(stk) % 2 = 1
        BY <3>2, <1>3 DEF List
      <4> QED
        BY <4>1 DEF List
    <3> QED
      BY <3>1, <3>2
  <2>3. List(five) /\ Len(five) = 5 /\ \A i \in 1 .. 5 : five[i] = Word(s, i)
    <3>1. /\ five[1] = Word(s, 1) /\ five[2] = Word(s, 2) /\ five[3] = Word(s, 3)
          /\ five[4] = Word(s, 4) /\ five[5] = Word(s, 5)
      BY <1>1, Words
    <3>2. Len(five) = 5 /\ List(five)
      BY DEF List
    <3> QED
      BY <3>1, <3>2
  <2>4. List(code) /\ Len(code) = h - 5 /\ \A i \in 1 .. Len(code) : code[i] = Word(s, 5 + i)
    <3>1. CASE v \in ErrorCoded
      <4>1. code = << <<"error", taken + 1>> >> /\ h = 6
        BY <3>1
      <4>2. Word(s, 6) = <<"error", taken + 1>>
        BY <1>1, <3>1, Words
      <4> QED
        BY <4>1, <4>2 DEF List
    <3>2. CASE v \notin ErrorCoded
      <4>1. code = <<>> /\ h = 5
        BY <3>2
      <4> QED
        BY <4>1 DEF List
    <3> QED
      BY <3>1, <3>2
  <2>5. h \in {5, 6}
    OBVIOUS
  <2> HIDE DEF pad, five, code, h
  <2>6. /\ List(a) /\ Len(a) = Len(stk) + Len(pad)
        /\ \A i \in 1 .. Len(stk) : a[i] = stk[i]
        /\ \A i \in 1 .. Len(pad) : a[Len(stk) + i] = pad[i]
    BY <1>3, <2>2, Joined
  <2> HIDE DEF a
  <2>7. /\ List(b) /\ Len(b) = Len(a) + Len(five)
        /\ \A i \in 1 .. Len(a) : b[i] = a[i]
        /\ \A i \in 1 .. Len(five) : b[Len(a) + i] = five[i]
    <3>1. List(a) /\ List(five)
      BY <2>3, <2>6
    <3> QED
      BY <3>1, Joined
  <2> HIDE DEF b
  <2>8. /\ List(c) /\ Len(c) = Len(b) + Len(code)
        /\ \A i \in 1 .. Len(b) : c[i] = b[i]
        /\ \A i \in 1 .. Len(code) : c[Len(b) + i] = code[i]
    <3>1. List(b) /\ List(code)
      BY <2>4, <2>7
    <3> QED
      BY <3>1, Joined
  <2> HIDE DEF c
  <2>9. Len(a) = Start(s) /\ Len(b) = Start(s) + 5 /\ Len(c) = Start(s) + h /\ Start(s) \in Nat
        /\ Len(stk) \in Nat /\ Len(stk) <= Start(s)
    <3>1. Start(s) \in Nat /\ Start(s) - Len(stk) \in {0, 1}
      BY <1>1, <1>3, Aligned
    <3>2. Len(a) = Start(s) /\ Len(stk) \in Nat
      BY <1>1, <1>3, <2>2, <2>6 DEF Start, List
    <3> QED
      BY <2>3, <2>4, <2>5, <2>7, <2>8, <3>1, <3>2
  <2>10. List(Upto(s, h)) /\ Len(Upto(s, h)) = Start(s) + h
    BY <1>1, <1>3, <2>5, Stack
  <2>11. ASSUME NEW i \in 1 .. Start(s) + h PROVE c[i] = Upto(s, h)[i]
    <3>1. CASE i <= Len(stk)
      <4>1. c[i] = stk[i]
        BY <2>6, <2>7, <2>8, <2>9, <3>1
      <4> QED
        BY <4>1, <1>1, <3>1 DEF Upto
    <3>2. CASE Len(stk) < i /\ i <= Start(s)
      <4> DEFINE d == i - Len(stk)
      <4>1. d \in 1 .. Len(pad) /\ Len(stk) + d = i
        BY <2>6, <2>9, <3>2
      <4> HIDE DEF d
      <4>2. a[i] = Pad
        BY <2>2, <2>6, <4>1
      <4>3. c[i] = a[i]
        BY <2>7, <2>8, <2>9, <3>2
      <4>4. ~(i <= Len(s.stk))
        BY <1>1, <2>9, <3>2
      <4> QED
        BY <3>2, <4>2, <4>3, <4>4 DEF Upto
    <3>3. CASE Start(s) < i
      <4> DEFINE d == i - Start(s)
      <4>1. d \in 1 .. h /\ Start(s) + d = i /\ (d \in 1 .. 5 \/ d = 6)
        BY <2>5, <2>9, <3>3
      <4> HIDE DEF d
      <4>2. Upto(s, h)[Start(s) + d] = Word(s, d)
        <5> h \in Nat /\ List(s.stk)
          BY <1>1, <1>3, <2>5
        <5>1. \A m \in 1 .. h : Upto(s, h)[Start(s) + m] = Word(s, m)
          BY Stack, SMTT(30)
        <5> QED
          BY <4>1, <5>1
      <4>3. CASE d \in 1 .. 5
        <5>1. b[Len(a) + d] = five[d] /\ five[d] = Word(s, d)
          BY <2>3, <2>7, <4>3
        <5>2. c[i] = b[i]
          BY <2>8, <2>9, <4>1, <4>3
        <5> QED
          BY <2>9, <4>1, <4>2, <5>1, <5>2
      <4>4. CASE d = 6
        <5>1. 1 \in 1 .. Len(code)
          BY <2>4, <2>5, <4>1, <4>4
        <5>2. c[Len(b) + 1] = Word(s, 6)
          BY <2>4, <2>8, <5>1
        <5>3. Len(b) + 1 = i
          BY <2>9, <4>1, <4>4
        <5> QED
          BY <4>1, <4>2, <4>4, <5>2, <5>3
      <4> QED
        BY <4>1, <4>3, <4>4
    <3> QED
      BY <2>9, <3>1, <3>2, <3>3
  <2> QED
    BY <2>1, <2>8, <2>9, <2>10, <2>11, Equal
<1>6. At(s, Machine', 1 - Skew(v))
  <2>1. Height(1 - Skew(v)) = h
    BY TrapsAssumption DEF Height, Skew
  <2>2. (1 - Skew(v)) + Skew(v) = 1 /\ 1 - Skew(v) <= 16
    BY DEF Skew
  <2>3. Keeps(s, Machine', Names)
    BY <1>1, <1>2 DEF Keeps, Machine
  <2>4. rip' = <<"stub", s.vector, (1 - Skew(s.vector)) + Skew(s.vector)>>
    BY <1>1, <1>2, <2>2
  <2>5. 1 - Skew(v) \notin {17, 18}
    BY <2>2 DEF Skew
  <2> HIDE DEF h
  <2> QED
    BY <1>1, <1>5, <2>1, <2>2, <2>3, <2>4, <2>5 DEF At, Machine, Kept
<1>7. InTrap(s, Machine')
  <2>1. 1 - Skew(s.vector) \in 1 - Skew(s.vector) .. 35
    BY DEF Skew
  <2> QED
    BY <1>1, <1>6, <2>1 DEF InTrap, InAssembly
<1>8. List(stk')
  BY <1>1, <1>3, <1>5, Stack
<1> HIDE DEF h
<1>9. Shape'
  <2>1. \A k \in 1 .. n : List(saved[k].stk) /\ Regs(saved[k].regs) /\ saved[k].vector \in Vectors
    BY DEF TInv, Shape, n
  <2>2. taken' \in 0 .. MaxTraps /\ Len(saved') <= MaxNest
    BY <1>2, <1>3, <1>4, TrapsAssumption
  <2>3. \A k \in 1 .. Len(saved') :
          List(saved'[k].stk) /\ Regs(saved'[k].regs) /\ saved'[k].vector \in Vectors
    BY <1>1, <1>3, <1>4, <2>1
  <2> QED
    BY <1>2, <1>3, <1>4, <1>8, <2>2, <2>3 DEF Shape
<1>10. ASSUME NEW k \in 0 .. n
       PROVE  State(k)'.stk = State(k).stk /\ State(k)'.regs = State(k).regs
              /\ State(k)'.rip = State(k).rip
  <2>1. State(k)' = saved'[k + 1]
    BY <1>3, <1>4 DEF State
  <2>2. CASE k = n
    BY <1>1, <1>4, <2>1, <2>2 DEF State, Machine, n
  <2>3. CASE k # n
    BY <1>3, <1>4, <2>1, <2>3 DEF State, n
  <2> QED
    BY <2>2, <2>3
<1>11. State(0)'.rip \in {Kmain(1), Kmain(2)}
  BY <1>3, <1>10 DEF TInv
<1>12. ASSUME NEW k \in 1 .. n + 1 PROVE InTrap(saved'[k], State(k)')
  <2>1. CASE k = n + 1
    <3>1. State(k)' = Machine'
      BY <1>4, <2>1 DEF State
    <3> QED
      BY <1>4, <1>7, <2>1, <3>1
  <2>2. CASE k \in 1 .. n
    <3>1. InTrap(saved[k], State(k))
      BY <2>2 DEF TInv, n
    <3>2. k \in 0 .. n /\ saved'[k] = saved[k]
      BY <1>4, <2>2
    <3> QED
      BY <1>10, <3>1, <3>2 DEF InTrap, InAssembly, InC, At, Keeps
  <2> QED
    BY <1>3, <2>1, <2>2
<1>13. ASSUME NEW k \in 1 .. n + 1, NEW l \in 1 .. n + 1, k <= l
       PROVE  Prefix(saved'[k].stk, saved'[l].stk)
  <2>1. CASE l \in 1 .. n
    BY <1>3, <1>4, <1>13, <2>1 DEF TInv, n
  <2>2. CASE k = n + 1
    <3>1. saved'[k].stk = stk /\ saved'[l].stk = stk
      BY <1>1, <1>3, <1>4, <1>13, <2>2
    <3> QED
      BY <1>3, <3>1 DEF Prefix, List
  <2>3. CASE l = n + 1 /\ k \in 1 .. n
    <3>1. Prefix(saved[k].stk, Top.stk)
      BY <1>3, <2>3 DEF TInv, n, Top
    <3>2. Prefix(Top.stk, stk)
      BY <1>3, <2>3, TopIs, Above, MachineIs DEF n
    <3>3. List(saved[k].stk) /\ List(Top.stk)
      <4>1. n > 0
        BY <1>3, <2>3
      <4>2. \A m \in 1 .. n : List(saved[m].stk)
        BY DEF n, TInv, Shape
      <4> QED
        BY <2>3, <4>1, <4>2, TopIs DEF n
    <3>4. Prefix(saved[k].stk, stk)
      BY <1>3, <3>1, <3>2, <3>3, SMTT(30) DEF Prefix, List
    <3> QED
      BY <1>1, <1>4, <2>3, <3>4
  <2> QED
    BY <1>3, <2>1, <2>2, <2>3
<1> QED
  BY <1>3, <1>4, <1>9, <1>11, <1>12, <1>13 DEF TInv

-----------------------------------------------------------------------------
(* C, and kmain.                                                           *)

\* In the C code the stub calls, the frame is below the return address.
LEMMA InCIs ==
  ASSUME TInv, rip[2] \in {"isr_handler", "breakpoint", "panic"}, ~InStub
  PROVE  Len(saved) > 0 /\ InC(Top, Machine)
<1>1. Len(saved) \in Nat
  BY DEF TInv, Shape, List
<1>2. Len(saved) # 0
  <2> SUFFICES ASSUME Len(saved) = 0 PROVE FALSE
    OBVIOUS
  <2>1. State(0) = Machine
    BY DEF State
  <2>2. rip \in {Kmain(1), Kmain(2)}
    BY <2>1, MachineIs DEF TInv
  <2> QED
    BY <2>2 DEF Kmain
<1>3. ~InAssembly(Top, Machine)
  BY MachineIs DEF InStub, InAssembly, At
<1> QED
  BY <1>1, <1>2, <1>3, TopIs DEF InTrap

LEMMA DispatchStep == TInv /\ Dispatch => TInv'
<1> SUFFICES ASSUME TInv, Dispatch PROVE TInv'
  OBVIOUS
<1>1. rip = <<"code", "isr_handler", 1>>
  BY DEF Dispatch
<1>2. rip[2] = "isr_handler" /\ ~InStub
  BY <1>1 DEF InStub
<1>3. Len(saved) > 0 /\ InC(Top, Machine)
  BY <1>2, InCIs
<1>4. rip' \in {<<"code", "breakpoint", 1>>, <<"code", "panic", 1>>}
      /\ stk' = stk /\ regs' = regs /\ saved' = saved /\ taken' = taken
  BY DEF Dispatch
<1>5. InC(Top, Machine')
  BY <1>3, <1>4 DEF InC, Machine, Keeps
<1> QED
  BY <1>3, <1>4, <1>5, TopSteps DEF InTrap, TInv, Shape

LEMMA PanicStep == TInv /\ Panic => TInv'
<1> SUFFICES ASSUME TInv, Panic PROVE TInv'
  OBVIOUS
<1>1. rip = <<"code", "panic", 1>>
  BY DEF Panic
<1>2. rip[2] = "panic" /\ ~InStub
  BY <1>1 DEF InStub
<1>3. Len(saved) > 0 /\ InC(Top, Machine)
  BY <1>2, InCIs
<1>4. rip' = <<"code", "panic", 2>>
      /\ stk' = stk /\ regs' = regs /\ saved' = saved /\ taken' = taken
  BY DEF Panic
<1>5. InC(Top, Machine')
  BY <1>3, <1>4 DEF InC, Machine, Keeps
<1> QED
  BY <1>3, <1>4, <1>5, TopSteps DEF InTrap, TInv, Shape

\* The handler returns behind the call, with what C must keep.
LEMMA BreakpointedStep == TInv /\ Breakpointed => TInv'
<1> SUFFICES ASSUME TInv, Breakpointed PROVE TInv'
  OBVIOUS
<1>1. rip = <<"code", "breakpoint", 1>>
  BY DEF Breakpointed
<1>2. rip[2] = "breakpoint" /\ ~InStub
  BY <1>1 DEF InStub
<1>3. Len(saved) > 0 /\ InC(Top, Machine)
  BY <1>2, InCIs
<1>4. List(Top.stk) /\ Regs(regs)
  BY <1>3, TopIs DEF TInv, Shape
<1> DEFINE u == Upto(Top, 22)
           x == <<"stub", Top.vector, 19 + Skew(Top.vector)>>
<1>5. stk = Append(u, x)
  BY <1>3, MachineIs DEF InC
<1>6. List(u)
  BY <1>4, Stack
<1> HIDE DEF x, u
<1>7. /\ List(stk) /\ Len(stk) = Len(u) + 1 /\ stk[Len(u) + 1] = x
      /\ \A i \in 1 .. Len(u) : stk[i] = u[i]
  BY <1>5, <1>6, Appended
<1>8. Len(u) \in Nat
  BY <1>6 DEF List
<1>9. rip' = x /\ stk' = u
  <2>1. /\ Last(stk) = x
        /\ List(Front(stk)) /\ Len(Front(stk)) = Len(u)
        /\ \A i \in 1 .. Len(u) : Front(stk)[i] = u[i]
    BY <1>7, <1>8, LastAndFront
  <2> QED
    BY <1>6, <2>1, Equal DEF Breakpointed
<1>10. Regs(regs') /\ \A y \in CalleeSaved : regs'[y] = regs[y]
  BY DEF Breakpointed, Regs, CalleeSaved
<1>11. Keeps(Top, Machine', CalleeSaved)
  BY <1>3, <1>10 DEF InC, Keeps, Machine
<1>12. Height(19) = 22 /\ Kept(19) = CalleeSaved
  BY DEF Height, Kept
<1>13. At(Top, Machine', 19)
  BY <1>9, <1>11, <1>12 DEF At, Machine, u, x
<1>14. InTrap(Top, Machine')
  <2>1. 19 \in 1 - Skew(Top.vector) .. 35
    BY DEF Skew
  <2> QED
    BY <1>13, <2>1 DEF InTrap, InAssembly
<1>15. saved' = saved /\ taken' = taken
  BY DEF Breakpointed
<1> QED
  BY <1>3, <1>6, <1>9, <1>10, <1>14, <1>15, TopSteps

LEMMA ComputeStep == TInv /\ Compute => TInv'
<1> SUFFICES ASSUME TInv, Compute PROVE TInv'
  OBVIOUS
<1>1. Len(saved) = 0
  <2> SUFFICES ASSUME Len(saved) # 0 PROVE FALSE
    OBVIOUS
  <2>1. Len(saved) > 0
    BY DEF TInv, Shape, List
  <2>2. InTrap(Top, Machine)
    BY <2>1, TopIs
  <2>3. rip = Kmain(1)
    BY DEF Compute
  <2> QED
    BY <2>2, <2>3, MachineIs DEF InTrap, InAssembly, At, InC, Kmain
<1>2. /\ rip' = Kmain(2) /\ stk' = stk /\ taken' = taken /\ saved' = saved
      /\ Regs(regs')
  BY DEF Compute, TInv, Shape, Regs
<1>3. State(0)' = Machine'
  BY <1>1, <1>2 DEF State
<1> QED
  BY <1>1, <1>2, <1>3 DEF TInv, Shape, Machine
-----------------------------------------------------------------------------
(* The invariant.                                                          *)

LEMMA InitTInv == Init => TInv
<1> SUFFICES ASSUME Init PROVE TInv
  OBVIOUS
<1>1. Len(saved) = 0 /\ List(saved)
  BY DEF Init, List
<1>2. List(stk)
  <2>1. CASE stk = <<>>
    BY <2>1 DEF List
  <2>2. CASE stk = <<Pad>>
    BY <2>2 DEF List
  <2> QED
    BY <2>1, <2>2 DEF Init
<1>3. Regs(regs)
  BY DEF Init, Regs
<1>4. State(0).rip = Kmain(1)
  BY <1>1 DEF State, Machine, Init
<1> QED
  BY <1>1, <1>2, <1>3, <1>4, TrapsAssumption DEF Init, TInv, Shape

LEMMA NextTInv == TInv /\ [Next]_vars => TInv'
<1> SUFFICES ASSUME TInv, [Next]_vars PROVE TInv'
  OBVIOUS
<1>1. CASE Hcf \/ UNCHANGED vars
  <2>1. UNCHANGED vars
    BY <1>1 DEF Hcf
  <2> QED
    BY <2>1 DEF vars, TInv, Shape, State, Machine
<1>2. CASE Compute
  BY <1>2, ComputeStep
<1>3. CASE PushImm
  BY <1>3, PushImmStep
<1>4. CASE Push
  BY <1>4, PushStep
<1>5. CASE Pop
  BY <1>5, PopStep
<1>6. CASE MovRdiRsp
  BY <1>6, MovRdiRspStep
<1>7. CASE Cld
  BY <1>7, CldStep
<1>8. CASE Call
  BY <1>8, CallStep
<1>9. CASE AddRsp
  BY <1>9, AddRspStep
<1>10. CASE Iretq
  BY <1>10, IretqStep
<1>11. CASE Dispatch
  BY <1>11, DispatchStep
<1>12. CASE Breakpointed
  BY <1>12, BreakpointedStep
<1>13. CASE Panic
  BY <1>13, PanicStep
<1>14. CASE \E v \in Vectors : Deliver(v)
  BY <1>14, DeliverStep
<1> QED
  BY <1>1, <1>2, <1>3, <1>4, <1>5, <1>6, <1>7, <1>8, <1>9, <1>10, <1>11, <1>12, <1>13, <1>14
  DEF Next

LEMMA Invariant == Spec => []TInv
BY InitTInv, NextTInv, PTL DEF Spec
-----------------------------------------------------------------------------
(* The theorems.                                                           *)

LEMMA TInvTypeOK == TInv => TypeOK
<1> SUFFICES ASSUME TInv PROVE TypeOK
  OBVIOUS
<1>1. DOMAIN regs = Names /\ taken \in 0 .. MaxTraps /\ Len(saved) <= MaxNest /\ Len(saved) \in Nat
  BY DEF TInv, Shape, Regs, List
<1>2. CASE Len(saved) = 0
  <2>1. State(0) = Machine
    BY <1>2 DEF State
  <2>2. rip \in {Kmain(1), Kmain(2)}
    BY <2>1, MachineIs DEF TInv
  <2> QED
    BY <1>1, <2>2 DEF TypeOK, Locations
<1>3. CASE Len(saved) > 0 /\ InC(Top, Machine)
  <2>1. rip \in {<<"code", "isr_handler", 1>>, <<"code", "breakpoint", 1>>,
                 <<"code", "panic", 1>>, <<"code", "panic", 2>>}
    BY <1>3, MachineIs DEF InC
  <2>2. rip \in Locations
    BY <2>1 DEF Locations
  <2> QED
    BY <1>1, <2>2 DEF TypeOK
<1>4. CASE Len(saved) > 0 /\ InAssembly(Top, Machine)
  <2>1. PICK j \in 1 - Skew(Top.vector) .. 35 : At(Top, Machine, j)
    BY <1>4 DEF InAssembly
  <2>2. Top.vector \in Vectors
    BY <1>4, TopIs
  <2>3. rip = <<"stub", Top.vector, j + Skew(Top.vector)>>
    BY <2>1, MachineIs DEF At
  <2>4. j + Skew(Top.vector) \in DOMAIN Stub(Top.vector)
    <3>1. j + Skew(Top.vector) \in 1 .. 35 + Skew(Top.vector)
      BY DEF Skew
    <3> QED
      BY <3>1, StubCode
  <2>5. rip \in Locations
    BY <2>2, <2>3, <2>4 DEF Locations
  <2> QED
    BY <1>1, <2>5 DEF TypeOK
<1> QED
  BY <1>1, <1>2, <1>3, <1>4, TopIs DEF InTrap

\* What holds of the frame of every trap in progress, by the stacks' nesting.
LEMMA TInvFrameIsTrue == TInv => FrameIsTrue
<1> SUFFICES ASSUME TInv, NEW k \in DOMAIN saved, Depth(k) >= FrameOf(saved[k]),
                    NEW i \in DOMAIN registers
             PROVE  Field(FrameOf(saved[k]), registers[i]) = TrueValue(saved[k], registers[i])
  BY DEF FrameIsTrue
<1> DEFINE s == saved[k]
<1>1. Len(saved) \in Nat /\ k \in 1 .. Len(saved) /\ List(s.stk) /\ InTrap(s, State(k))
  BY DEF TInv, Shape, List
<1>2. i \in 1 .. 22 /\ Offset(registers[i]) = i - 1
  BY Fields, Offsets
<1>3. FrameOf(s) = Start(s) + 22 /\ Start(s) \in Nat
  BY <1>1, Fields, Aligned DEF FrameOf, Start
<1>4. Depth(k) = Len(State(k).stk)
  BY DEF Depth, State, Machine
<1>5. \A m \in 1 .. 22 : State(k).stk[Start(s) + m] = Word(s, m)
  BY <1>1, <1>4, Framed
<1>6. Prefix(State(k).stk, stk)
  <2>1. CASE k = Len(saved)
    <3>1. State(k).stk = stk
      BY <2>1, MachineIs DEF State
    <3> QED
      BY <3>1 DEF TInv, Shape, Prefix, List
  <2>2. CASE k # Len(saved)
    <3>1. k + 1 \in 1 .. Len(saved) /\ Len(saved) \in 1 .. Len(saved) /\ k + 1 <= Len(saved)
      BY <1>1, <2>2
    <3>2. Prefix(saved[k + 1].stk, Top.stk)
      BY <3>1 DEF TInv, Top
    <3>3. Prefix(Top.stk, stk)
      BY <3>1, TopIs, Above, MachineIs
    <3>4. List(saved[k + 1].stk) /\ List(Top.stk) /\ List(stk)
      BY <3>1, TopIs DEF TInv, Shape
    <3>5. Prefix(saved[k + 1].stk, stk)
      BY <3>2, <3>3, <3>4 DEF Prefix, List
    <3> QED
      BY <2>2, <3>5 DEF State
  <2> QED
    BY <2>1, <2>2
<1> DEFINE m == 23 - i
<1>7. m \in 1 .. 22 /\ 23 - m = i
  BY <1>2
<1>8. FrameOf(s) - Offset(registers[i]) = Start(s) + m
  BY <1>2, <1>3
<1>9. stk[Start(s) + m] = Word(s, m)
  <2>1. State(k).stk[Start(s) + m] = Word(s, m)
    BY <1>5, <1>7
  <2>2. Start(s) + m \in 1 .. Len(State(k).stk)
    <3>1. List(State(k).stk)
      BY <1>1 DEF TInv, Shape, State, Machine
    <3> HIDE DEF m
    <3> QED
      BY <1>3, <1>4, <1>7, <3>1 DEF List
  <2> HIDE DEF m
  <2> QED
    BY <1>6, <2>1, <2>2 DEF Prefix
<1>10. Word(s, m) = TrueValue(s, registers[i])
  BY <1>7 DEF Word
<1> QED
  BY <1>8, <1>9, <1>10 DEF Field

LEMMA TInvPointerIsFrame == TInv => PointerIsFrame
<1> SUFFICES ASSUME TInv, rip = <<"code", "isr_handler", 1>>
             PROVE  regs["rdi"] = <<"rsp", FrameOf(Last(saved))>>
  BY DEF PointerIsFrame
<1>1. rip[2] = "isr_handler" /\ ~InStub
  BY DEF InStub
<1>2. Len(saved) > 0 /\ InC(Top, Machine)
  BY <1>1, InCIs
<1> QED
  BY <1>2, TopIs, MachineIs DEF InC

LEMMA TInvCallAligned == TInv => CallAligned
<1> SUFFICES ASSUME TInv, InStub, Instruction[1] = "call_isr_handler" PROVE Len(stk) % 2 = 0
  BY DEF CallAligned
<1>1. PICK j \in 1 - Skew(Top.vector) .. 35 :
        At(Top, Machine, j) /\ Instruction = Stub(Top.vector)[j + Skew(Top.vector)]
  BY InStubIs
<1>2. j = 18
  BY <1>1, Decode
<1>3. List(Top.stk)
  BY InStubIs, TopIs
<1>4. stk = Upto(Top, 22)
  BY <1>1, <1>2, MachineIs DEF At, Height
<1>5. Len(stk) = Start(Top) + 22
  BY <1>3, <1>4, Stack
<1>6. Start(Top) \in Nat /\ Start(Top) % 2 = 0
  BY <1>3, Aligned
<1> QED
  BY <1>5, <1>6

\* Only iretq ends a trap.
LEMMA TInvIretqResumes ==
  TInv /\ [Next]_vars =>
    [Len(saved') < Len(saved) =>
       /\ rip' = Last(saved).rip
       /\ regs' = Last(saved).regs
       /\ stk' = Last(saved).stk]_vars
<1> SUFFICES ASSUME TInv, Next, Len(saved') < Len(saved)
             PROVE  rip' = Last(saved).rip /\ regs' = Last(saved).regs /\ stk' = Last(saved).stk
  OBVIOUS
<1>1. Len(saved) \in Nat /\ List(saved)
  BY DEF TInv, Shape, List
<1>2. saved' # saved
  BY <1>1
<1>3. ~(\E v \in Vectors : Deliver(v))
  <2> SUFFICES ASSUME NEW v \in Vectors, Deliver(v) PROVE FALSE
    OBVIOUS
  <2> DEFINE s == [vector |-> v, trap |-> taken + 1, stk |-> stk, regs |-> regs, rip |-> rip]
  <2>1. saved' = Append(saved, s)
    BY DEF Deliver
  <2> HIDE DEF s
  <2>2. Len(saved') = Len(saved) + 1
    BY <1>1, <2>1, Appended
  <2> QED
    BY <1>1, <2>2
<1>4. Iretq
  BY <1>2, <1>3 DEF Next, Compute, Hcf, PushImm, Push, Pop, MovRdiRsp, Cld, Call, AddRsp,
                    Dispatch, Breakpointed, Panic, vars
<1> QED
  BY <1>4, IretqReturns, TopIs

\* The stack is a sequence of traps' frames, the instruction pointer is where
\* code is, and the bounds hold.
THEOREM TrapsTypeOK == Spec => []TypeOK
BY Invariant, TInvTypeOK, PTL

\* The structure isr_handler reads says what was true when the trap struck,
\* for every trap in progress, whatever traps came on top of it.
THEOREM TrapsFrameIsTrue == Spec => []FrameIsTrue
BY Invariant, TInvFrameIsTrue, PTL

\* isr_handler's argument points to that structure.
THEOREM TrapsPointerIsFrame == Spec => []PointerIsFrame
BY Invariant, TInvPointerIsFrame, PTL

\* The stub calls C with a stack aligned to 16 bytes.
THEOREM TrapsCallAligned == Spec => []CallAligned
BY Invariant, TInvCallAligned, PTL

\* iretq resumes the interrupted context exactly as it was.
THEOREM TrapsIretqResumes == Spec => IretqResumes
BY Invariant, TInvIretqResumes, PTL DEF Spec, IretqResumes

=============================================================================
