---------------------------- MODULE PrintfProofs ----------------------------
(***************************************************************************)
(* Whatever the format and its arguments, and whatever the sizes of the    *)
(* buffer and of the types: _vsnprintf leaves in its buffer the longest    *)
(* prefix that fits with a NUL behind it and nothing further, returns the  *)
(* length of the whole text, and hands every character of it on once.      *)
(*                                                                         *)
(* And what it says is right: every character, string, pointer and integer *)
(* item in ConformingItem is rendered as C prescribes.  The reference      *)
(* definition divides from the left and pads as the standard's words do;   *)
(* _ntoa writes its digits from the right into a buffer, pads them there,  *)
(* overwrites some and reverses: most of what follows relates the two.     *)
(***************************************************************************)
EXTENDS Printf, FiniteSetTheorems, TLAPS

-----------------------------------------------------------------------------
(* Sequences, whatever their elements.                                     *)

LEMMA Built ==
  ASSUME NEW n \in Nat, NEW F, NEW q, q = [k \in 1 .. n |-> F[k]]
  PROVE  Sequence(q) /\ Len(q) = n
BY DEF Sequence

LEMMA Typed ==
  ASSUME NEW q, Sequence(q)
  PROVE  q \in Seq({q[k] : k \in 1 .. Len(q)})
BY DEF Sequence

LEMMA Listed == ASSUME NEW S, NEW q \in Seq(S) PROVE Sequence(q)
BY DEF Sequence

LEMMA Short ==
  /\ Sequence(<<>>) /\ Len(<<>>) = 0
  /\ \A x : Sequence(<<x>>) /\ Len(<<x>>) = 1
  /\ \A q : Sequence(q) => (q = <<>> <=> Len(q) = 0)
<1>1. Sequence(<<>>) /\ Len(<<>>) = 0
  BY DEF Sequence
<1>2. ASSUME NEW x PROVE Sequence(<<x>>) /\ Len(<<x>>) = 1
  <2>1. <<x>> \in Seq({x})
    OBVIOUS
  <2> QED
    BY <2>1, Listed
<1>3. ASSUME NEW q, Sequence(q) PROVE q = <<>> <=> Len(q) = 0
  BY <1>3 DEF Sequence
<1> QED
  BY <1>1, <1>2, <1>3

LEMMA Appended ==
  ASSUME NEW q, Sequence(q), NEW x
  PROVE  /\ Sequence(Append(q, x)) /\ Len(Append(q, x)) = Len(q) + 1
         /\ Append(q, x)[Len(q) + 1] = x
         /\ \A k \in 1 .. Len(q) : Append(q, x)[k] = q[k]
<1> DEFINE S == {q[k] : k \in 1 .. Len(q)} \cup {x}
           r == Append(q, x)
<1>1. q \in Seq(S) /\ x \in S
  BY DEF Sequence
<1> HIDE DEF S
<1>2. /\ r \in Seq(S) /\ Len(r) = Len(q) + 1 /\ r[Len(q) + 1] = x
      /\ \A k \in 1 .. Len(q) : r[k] = q[k]
  BY <1>1
<1> HIDE DEF r
<1>3. /\ Sequence(r) /\ Len(r) = Len(q) + 1 /\ r[Len(q) + 1] = x
      /\ \A k \in 1 .. Len(q) : r[k] = q[k]
  BY <1>2, Listed
<1> QED
  BY <1>3 DEF r

LEMMA Joined ==
  ASSUME NEW q, Sequence(q), NEW r, Sequence(r)
  PROVE  /\ Sequence(q \o r) /\ Len(q \o r) = Len(q) + Len(r)
         /\ \A k \in 1 .. Len(q) : (q \o r)[k] = q[k]
         /\ \A k \in 1 .. Len(r) : (q \o r)[Len(q) + k] = r[k]
<1> DEFINE S == {q[k] : k \in 1 .. Len(q)} \cup {r[k] : k \in 1 .. Len(r)}
           qr == q \o r
<1>1. q \in Seq(S) /\ r \in Seq(S)
  BY DEF Sequence
<1> HIDE DEF S
<1>2. /\ qr \in Seq(S) /\ Len(qr) = Len(q) + Len(r)
      /\ \A k \in 1 .. Len(q) : qr[k] = q[k]
      /\ \A k \in 1 .. Len(r) : qr[Len(q) + k] = r[k]
  BY <1>1
<1> HIDE DEF qr
<1>3. Sequence(qr)
  BY <1>2, Listed
<1>4. /\ Sequence(qr) /\ Len(qr) = Len(q) + Len(r)
      /\ \A k \in 1 .. Len(q) : qr[k] = q[k]
      /\ \A k \in 1 .. Len(r) : qr[Len(q) + k] = r[k]
  BY <1>2, <1>3
<1> QED
  BY <1>4 DEF qr

LEMMA Rest ==
  ASSUME NEW q, Sequence(q), q # <<>>
  PROVE  /\ Head(q) = q[1]
         /\ Sequence(Tail(q)) /\ Len(Tail(q)) = Len(q) - 1 /\ Len(q) >= 1
         /\ \A k \in 1 .. Len(q) - 1 : Tail(q)[k] = q[k + 1]
<1> DEFINE S == {q[k] : k \in 1 .. Len(q)}
           r == Tail(q)
<1>1. q \in Seq(S)
  BY Typed
<1> HIDE DEF S
<1>2. /\ Head(q) = q[1] /\ r \in Seq(S) /\ Len(r) = Len(q) - 1 /\ Len(q) >= 1
      /\ \A k \in 1 .. Len(q) - 1 : r[k] = q[k + 1]
  BY <1>1
<1> HIDE DEF r
<1>3. Sequence(r)
  BY <1>2, Listed
<1> QED
  BY <1>2, <1>3 DEF r

-----------------------------------------------------------------------------
(* Numbers.  The function a LET defines by recursion is a CHOOSE to the    *)
(* provers, so that what it computes rests on there being such a function. *)

\* A set with 0 and the successor of each of its members holds every natural
\* number: one that n is missing from would map 0 .. n less what it misses
\* into itself without 0, by the successor, and that one to one.
LEMMA Induction ==
  ASSUME NEW G, 0 \in G, \A n \in Nat : n \in G => n + 1 \in G
  PROVE  \A n \in Nat : n \in G
<1> SUFFICES ASSUME NEW n \in Nat, n \notin G PROVE FALSE
  OBVIOUS
<1> DEFINE S == {k \in 0 .. n : k \in G}
           f == [k \in S |-> k + 1]
<1>1. IsFiniteSet(S)
  <2>1. IsFiniteSet(0 .. n) /\ S \subseteq 0 .. n
    BY FS_Interval
  <2> HIDE DEF S
  <2> QED
    BY <2>1, FS_Subset
<1>2. 0 \in S /\ \A k \in S : k + 1 \in S \ {0}
  OBVIOUS
<1>3. f \in [S -> S \ {0}] /\ \A k \in S : k \in Nat /\ f[k] = k + 1
  BY <1>2
<1> HIDE DEF S, f
<1>4. /\ IsFiniteSet(S \ {0}) /\ Cardinality(S \ {0}) = Cardinality(S) - 1
      /\ Cardinality(S) \in Nat
  BY <1>1, <1>2, FS_RemoveElement, FS_CardinalityType
<1>5. Cardinality(S \ {0}) < Cardinality(S)
  BY <1>4
<1>6. PICK x \in S, y \in S : x # y /\ f[x] = f[y]
  BY <1>1, <1>3, <1>4, <1>5, FS_PigeonHole
<1> QED
  BY <1>3, <1>6

\* A function of numbers given by its value at 0 and a step from each value to the next.
LEMMA Recursion ==
  ASSUME NEW a \in Nat, NEW step \in [Nat -> Nat]
  PROVE  \E f \in [Nat -> Nat] : f[0] = a /\ \A n \in Nat \ {0} : f[n] = step[f[n - 1]]
<1> DEFINE Upto(g, k) == /\ g \in [0 .. k -> Nat] /\ g[0] = a
                         /\ \A i \in 1 .. k : g[i] = step[g[i - 1]]
<1>1. \A k \in Nat : \E g : Upto(g, k)
  <2> DEFINE G == {k \in Nat : \E g : Upto(g, k)}
  <2>1. 0 \in G
    <3> DEFINE g == [i \in 0 .. 0 |-> a]
    <3>1. Upto(g, 0)
      OBVIOUS
    <3> QED
      BY <3>1
  <2>2. ASSUME NEW k \in Nat, k \in G PROVE k + 1 \in G
    <3>1. PICK g : Upto(g, k)
      BY <2>2
    <3> DEFINE h == [i \in 0 .. k + 1 |-> IF i = k + 1 THEN step[g[k]] ELSE g[i]]
    <3>2. step[g[k]] \in Nat /\ \A i \in 0 .. k : g[i] \in Nat
      BY <3>1, SMTT(30)
    <3>3. \A i \in 0 .. k + 1 : h[i] \in Nat
      BY <3>2
    <3>4. /\ h \in [0 .. k + 1 -> Nat] /\ h[k + 1] = step[g[k]]
          /\ \A i \in 0 .. k : h[i] = g[i]
      BY <3>3
    <3> HIDE DEF h
    <3>5. h[0] = a
      BY <3>1, <3>4
    <3>6. ASSUME NEW i \in 1 .. k + 1 PROVE h[i] = step[h[i - 1]]
      <4>1. CASE i = k + 1
        <5>1. i - 1 = k /\ k \in 0 .. k
          BY <4>1
        <5> QED
          BY <3>4, <4>1, <5>1
      <4>2. CASE i \in 1 .. k
        <5>1. i \in 0 .. k /\ i - 1 \in 0 .. k
          BY <4>2
        <5> QED
          BY <3>1, <3>4, <4>2, <5>1
      <4> QED
        BY <4>1, <4>2
    <3>7. Upto(h, k + 1)
      BY <3>4, <3>5, <3>6
    <3> HIDE DEF Upto
    <3>8. \E q : Upto(q, k + 1)
      BY <3>7
    <3> QED
      BY <3>8
  <2> HIDE DEF G
  <2>3. \A k \in Nat : k \in G
    BY <2>1, <2>2, Induction
  <2> QED
    BY <2>3 DEF G
<1>2. ASSUME NEW k \in Nat, NEW l \in Nat, NEW g, NEW h, Upto(g, k), Upto(h, l), k <= l
      PROVE  g[k] = h[k]
  <2> DEFINE G == {i \in Nat : i <= k => g[i] = h[i]}
  <2>1. 0 \in G
    BY <1>2
  <2>2. ASSUME NEW i \in Nat, i \in G PROVE i + 1 \in G
    <3> SUFFICES ASSUME i + 1 <= k PROVE g[i + 1] = h[i + 1]
      OBVIOUS
    <3>1. g[i] = h[i] /\ i + 1 \in 1 .. k /\ i + 1 \in 1 .. l /\ (i + 1) - 1 = i
      BY <1>2, <2>2
    <3>2. g[i + 1] = step[g[i]] /\ h[i + 1] = step[h[i]]
      BY <1>2, <3>1
    <3> QED
      BY <3>1, <3>2
  <2> HIDE DEF G
  <2>3. \A i \in Nat : i \in G
    BY <2>1, <2>2, Induction
  <2> QED
    BY <2>3 DEF G
<1> DEFINE F(k) == CHOOSE g : Upto(g, k)
           f == [k \in Nat |-> F(k)[k]]
<1>3. \A k \in Nat : Upto(F(k), k)
  BY <1>1
<1> HIDE DEF F
<1>4. f \in [Nat -> Nat] /\ f[0] = a
  BY <1>3
<1>5. ASSUME NEW n \in Nat \ {0} PROVE f[n] = step[f[n - 1]]
  <2>1. n - 1 \in Nat /\ n - 1 <= n /\ n \in 1 .. n
    OBVIOUS
  <2>2. Upto(F(n), n) /\ Upto(F(n - 1), n - 1)
    BY <1>3, <2>1
  <2>3. F(n - 1)[n - 1] = F(n)[n - 1]
    <3> HIDE DEF Upto
    <3> QED
      BY <1>2, <2>1, <2>2
  <2> QED
    BY <2>1, <2>2, <2>3
<1> HIDE DEF f
<1> QED
  BY <1>4, <1>5

LEMMA PowerRecursion ==
  ASSUME NEW base \in Nat
  PROVE  /\ Power(base, 0) = 1
         /\ \A n \in Nat : Power(base, n + 1) = base * Power(base, n)
         /\ \A n \in Nat : Power(base, n) \in Nat
<1> DEFINE step == [v \in Nat |-> base * v]
           Is(p) == p = [k \in Nat |-> IF k = 0 THEN 1 ELSE base * p[k - 1]]
           power == CHOOSE p : Is(p)
<1>1. step \in [Nat -> Nat] /\ \A v \in Nat : step[v] = base * v
  <2>1. \A v \in Nat : base * v \in Nat
    OBVIOUS
  <2> QED
    BY <2>1
<1> HIDE DEF step
<1>2. PICK f \in [Nat -> Nat] : f[0] = 1 /\ \A n \in Nat \ {0} : f[n] = step[f[n - 1]]
  <2> DEFINE one == 1
  <2>1. one \in Nat
    OBVIOUS
  <2> HIDE DEF one
  <2>2. \E f \in [Nat -> Nat] : f[0] = one /\ \A n \in Nat \ {0} : f[n] = step[f[n - 1]]
    BY <1>1, <2>1, Recursion
  <2> QED
    BY <2>2 DEF one
<1>3. Is(f)
  <2>1. \A k \in Nat \ {0} : f[k] = base * f[k - 1]
    <3>1. \A k \in Nat \ {0} : f[k - 1] \in Nat
      OBVIOUS
    <3> QED
      BY <1>1, <1>2, <3>1
  <2>2. \A k \in Nat : f[k] = IF k = 0 THEN 1 ELSE base * f[k - 1]
    BY <1>2, <2>1
  <2>3. f = [k \in Nat |-> f[k]]
    OBVIOUS
  <2> QED
    BY <2>2, <2>3
<1>4. Is(power)
  BY <1>3
<1>5. \A n : Power(base, n) = power[n]
  BY DEF Power
<1> HIDE DEF power
<1>6. power[0] = 1 /\ \A n \in Nat : power[n + 1] = base * power[n]
  <2>1. \A k \in Nat : power[k] = IF k = 0 THEN 1 ELSE base * power[k - 1]
    BY <1>4
  <2>2. \A n \in Nat : n + 1 \in Nat /\ n + 1 # 0 /\ (n + 1) - 1 = n
    OBVIOUS
  <2> QED
    BY <2>1, <2>2
<1>7. \A n \in Nat : power[n] \in Nat
  <2> DEFINE G == {n \in Nat : power[n] \in Nat}
  <2>1. 0 \in G /\ \A n \in Nat : n \in G => n + 1 \in G
    BY <1>6
  <2> HIDE DEF G
  <2>2. \A n \in Nat : n \in G
    BY <2>1, Induction
  <2> QED
    BY <2>2 DEF G
<1> QED
  BY <1>5, <1>6, <1>7

LEMMA RemainingRecursion ==
  ASSUME NEW value \in Nat, NEW base \in Nat \ {0}
  PROVE  /\ Remaining(value, base, 0) = value
         /\ \A n \in Nat : Remaining(value, base, n + 1) = Remaining(value, base, n) \div base
         /\ \A n \in Nat : Remaining(value, base, n) \in Nat
<1> DEFINE step == [v \in Nat |-> v \div base]
           Is(p) == p = [k \in Nat |-> IF k = 0 THEN value ELSE p[k - 1] \div base]
           left == CHOOSE p : Is(p)
<1>0. \A v \in Nat : v \div base \in Nat
  OBVIOUS
<1>1. step \in [Nat -> Nat] /\ \A v \in Nat : step[v] = v \div base
  BY <1>0
<1> HIDE DEF step
<1>2. PICK f \in [Nat -> Nat] : f[0] = value /\ \A n \in Nat \ {0} : f[n] = step[f[n - 1]]
  BY <1>1, Recursion
<1>3. Is(f)
  <2>1. \A k \in Nat \ {0} : f[k] = f[k - 1] \div base
    <3>1. \A k \in Nat \ {0} : f[k - 1] \in Nat
      OBVIOUS
    <3> QED
      BY <1>1, <1>2, <3>1
  <2>2. \A k \in Nat : f[k] = IF k = 0 THEN value ELSE f[k - 1] \div base
    BY <1>2, <2>1
  <2>3. f = [k \in Nat |-> f[k]]
    OBVIOUS
  <2> QED
    BY <2>2, <2>3
<1>4. Is(left)
  BY <1>3
<1>5. \A n : Remaining(value, base, n) = left[n]
  BY DEF Remaining
<1> HIDE DEF left
<1>6. left[0] = value /\ \A n \in Nat : left[n + 1] = left[n] \div base
  <2>1. \A k \in Nat : left[k] = IF k = 0 THEN value ELSE left[k - 1] \div base
    BY <1>4
  <2>2. \A n \in Nat : n + 1 \in Nat /\ n + 1 # 0 /\ (n + 1) - 1 = n
    OBVIOUS
  <2> QED
    BY <2>1, <2>2
<1>7. \A n \in Nat : left[n] \in Nat
  <2> DEFINE G == {n \in Nat : left[n] \in Nat}
  <2>1. 0 \in G /\ \A n \in Nat : n \in G => n + 1 \in G
    BY <1>0, <1>6
  <2> HIDE DEF G
  <2>2. \A n \in Nat : n \in G
    BY <2>1, Induction
  <2> QED
    BY <2>2 DEF G
<1> QED
  BY <1>5, <1>6, <1>7

-----------------------------------------------------------------------------
(* Division.                                                               *)

\* Multiplication keeps order.
LEMMA ProductMonotone ==
  ASSUME NEW b \in Nat, NEW x \in Nat, NEW y \in Nat, x <= y PROVE b * x <= b * y
<1> PICK d \in Nat : y = x + d
  <2>1. y - x \in Nat
    OBVIOUS
  <2> QED
    BY <2>1
<1>1. b * y = b * x + b * d /\ b * d \in Nat /\ b * x \in Nat
  OBVIOUS
<1> QED
  BY <1>1

\* The quotient is the number of whole divisors.
LEMMA Quotient ==
  ASSUME NEW v \in Nat, NEW b \in Nat \ {0}
  PROVE  /\ v \div b \in Nat /\ v % b \in 0 .. b - 1
         /\ v = (b * (v \div b)) + (v % b)
         /\ \A q \in Nat : b * q <= v /\ v < b * (q + 1) => v \div b = q
<1>1. v \div b \in Nat /\ v % b \in 0 .. b - 1 /\ v = (b * (v \div b)) + (v % b)
  OBVIOUS
<1>2. ASSUME NEW q \in Nat, b * q <= v, v < b * (q + 1) PROVE v \div b = q
  <2> PICK d \in Nat, r \in 0 .. b - 1 : d = v \div b /\ v = (b * d) + r
    BY <1>1
  <2>1. b * d <= v /\ v < b * (d + 1)
    OBVIOUS
  <2>2. ASSUME d + 1 <= q PROVE FALSE
    <3>1. b * (d + 1) <= b * q
      BY <2>2, ProductMonotone
    <3> QED
      BY <1>2, <2>1, <3>1
  <2>3. ASSUME q + 1 <= d PROVE FALSE
    <3>1. b * (q + 1) <= b * d
      BY <2>3, ProductMonotone
    <3> QED
      BY <1>2, <2>1, <3>1
  <2> QED
    BY <2>2, <2>3
<1> QED
  BY <1>1, <1>2

LEMMA PowerPositive ==
  ASSUME NEW base \in Nat \ {0}, NEW n \in Nat PROVE Power(base, n) \in Nat \ {0}
<1> DEFINE G == {k \in Nat : Power(base, k) \in Nat \ {0}}
<1>1. 0 \in G
  BY PowerRecursion
<1>2. ASSUME NEW k \in Nat, k \in G PROVE k + 1 \in G
  <2> PICK p \in Nat \ {0} : p = Power(base, k)
    BY <1>2
  <2>1. base * p \in Nat \ {0}
    OBVIOUS
  <2> QED
    BY <2>1, PowerRecursion
<1> HIDE DEF G
<1>3. \A k \in Nat : k \in G
  BY <1>1, <1>2, Induction
<1> QED
  BY <1>3 DEF G

LEMMA Nested ==
  ASSUME NEW v \in Nat, NEW p \in Nat \ {0}, NEW b \in Nat \ {0}
  PROVE  (v \div p) \div b = v \div (b * p)
<1> DEFINE q == v \div p
           r == v % p
           s == q \div b
           t == q % b
<1>1. q \in Nat /\ r \in 0 .. p - 1 /\ v = (p * q) + r
  BY Quotient
<1>2. s \in Nat /\ t \in 0 .. b - 1 /\ q = (b * s) + t
  BY <1>1, Quotient
<1>3. b * p \in Nat \ {0}
  OBVIOUS
<1> HIDE DEF q, r, s, t
<1>4. v = ((b * p) * s) + ((p * t) + r)
  BY <1>1, <1>2
<1>5. (p * t) + r \in 0 .. b * p - 1
  <2>1. p * t <= p * (b - 1)
    BY <1>2
  <2> QED
    BY <1>1, <1>2, <2>1
<1>6. v \div (b * p) = s
  <2> PICK c \in Nat \ {0} : c = b * p
    BY <1>3
  <2> PICK e \in Nat : e = (p * t) + r
    BY <1>1, <1>2
  <2>1. v = (c * s) + e /\ e < c
    BY <1>4, <1>5
  <2>2. c * s <= v /\ v < c * (s + 1)
    BY <1>2, <2>1
  <2> QED
    BY <1>2, <2>2, Quotient
<1> QED
  BY <1>6 DEF q, s

\* The loop's quotients are those of the powers of the base.
LEMMA RemainingIs ==
  ASSUME NEW value \in Nat, NEW base \in Nat \ {0}, NEW n \in Nat
  PROVE  Remaining(value, base, n) = value \div Power(base, n)
<1> DEFINE G == {k \in Nat : Remaining(value, base, k) = value \div Power(base, k)}
<1>1. 0 \in G
  BY PowerRecursion, RemainingRecursion
<1>2. ASSUME NEW k \in Nat, k \in G PROVE k + 1 \in G
  <2> PICK p \in Nat \ {0} : p = Power(base, k)
    BY PowerPositive
  <2>1. Remaining(value, base, k + 1) = (value \div p) \div base
    BY <1>2, RemainingRecursion
  <2>2. Power(base, k + 1) = base * p
    BY PowerRecursion
  <2> QED
    BY <2>1, <2>2, Nested
<1> HIDE DEF G
<1>3. \A k \in Nat : k \in G
  BY <1>1, <1>2, Induction
<1> QED
  BY <1>3 DEF G

-----------------------------------------------------------------------------
(* Texts.                                                                  *)

Text(q) == q \in Seq(Chars)

LEMMA TextIs == ASSUME NEW q, Text(q) PROVE Sequence(q) /\ Len(q) \in Nat
BY Listed DEF Text, Sequence

LEMMA ShortText ==
  /\ Text(<<>>)
  /\ \A c \in Chars : Text(<<c>>)
BY DEF Text

LEMMA TextJoined == ASSUME NEW q, Text(q), NEW r, Text(r) PROVE Text(q \o r)
BY DEF Text

LEMMA TextAppended == ASSUME NEW q, Text(q), NEW c \in Chars PROVE Text(Append(q, c))
BY DEF Text

LEMMA TextCut == ASSUME NEW q, Text(q), NEW n \in 0 .. Len(q) PROVE Text(SubSeq(q, 1, n))
BY DEF Text

LEMMA TextReversed == ASSUME NEW q, Text(q) PROVE Text(Reverse(q))
<1> DEFINE F == [k \in 1 .. Len(q) |-> q[(Len(q) - k) + 1]]
<1>1. Len(q) \in Nat /\ \A k \in 1 .. Len(q) : q[k] \in Chars
  BY DEF Text
<1>2. \A k \in 1 .. Len(q) : (Len(q) - k) + 1 \in 1 .. Len(q)
  BY <1>1
<1>3. F \in [1 .. Len(q) -> Chars]
  BY <1>1, <1>2
<1>4. Text(F)
  BY <1>1, <1>3 DEF Text
<1> QED
  BY <1>4, Zenon DEF Reverse, F

LEMMA Own ==
  /\ \A c \in {".", "+", "-", "x", "X", "b", "e", "E", "0", "n", "a", "f", "i", NUL} : c \in Chars
  /\ " " \in Chars
<1>1. OwnChars \subseteq Chars
  BY PrintfAssumption
<1>2. Lower[1] = "0" /\ Lower[12] = "b" /\ Lower[15] = "e" /\ Upper[15] = "E" /\ Lower[11] = "a"
      /\ Lower[16] = "f"
  BY DEF Lower, Upper
<1>3. \A c \in {".", "+", "-", "x", "X", "n", "i", NUL} : c \in Chars
  BY <1>1, Zenon DEF OwnChars
<1>4. " " \in Chars
  BY <1>1, Zenon DEF OwnChars
<1>5. \A k \in 1 .. 16 : Lower[k] \in Chars /\ Upper[k] \in Chars
  BY <1>1, Zenon DEF OwnChars
<1>6. \A c \in {"b", "e", "E", "0", "a", "f"} : c \in Chars
  BY <1>2, <1>5
<1> QED
  BY <1>3, <1>4, <1>6, Zenon

LEMMA CharacterIs ==
  ASSUME NEW digit \in 0 .. 15, NEW flags PROVE Character(digit, flags) \in Chars
<1>1. digit + 1 \in 1 .. 16
  OBVIOUS
<1>2. Lower[digit + 1] \in Chars /\ Upper[digit + 1] \in Chars
  BY <1>1, PrintfAssumption, Zenon DEF OwnChars
<1> QED
  BY <1>2, Zenon DEF Character

-----------------------------------------------------------------------------
(* Integer conversions.                                                    *)

LEMMA Repeated == ASSUME NEW n \in Int, NEW ch \in Chars PROVE Text(Copies(n, ch))
<1>1. CASE n > 0
  <2>1. [k \in 1 .. n |-> ch] \in [1 .. n -> Chars] /\ n \in Nat
    BY <1>1
  <2>2. Text([k \in 1 .. n |-> ch])
    BY <2>1 DEF Text
  <2> QED
    BY <1>1, <2>2, Zenon DEF Copies
<1>2. CASE ~(n > 0)
  BY <1>2, ShortText, Zenon DEF Copies
<1> QED
  BY <1>1, <1>2

LEMMA RepeatedBlanks == ASSUME NEW n \in Int PROVE Text(Copies(n, " "))
BY Own, Repeated, Zenon

LEMMA Counted ==
  ASSUME NEW value, NEW base
  PROVE  DigitCount(value, base) \in 1 .. 64 /\ NumeralLength(value, base) \in 1 .. 64
<1>1. 64 \in 1 .. 64
  OBVIOUS
<1> QED
  BY <1>1, Zenon DEF DigitCount, NumeralLength, First

\* The bases the specifiers have.
Bases == {2, 8, 10, 16}

LEMMA FiguresAre ==
  ASSUME NEW value \in Nat, NEW base \in Bases, NEW n \in Nat, NEW flags
  PROVE  Text(Figures(value, base, n, flags))
<1> DEFINE F == [k \in 1 .. n |-> Character(Remaining(value, base, k - 1) % base, flags)]
<1>1. base \in Nat \ {0}
  BY DEF Bases
<1>2. ASSUME NEW k \in 1 .. n PROVE F[k] \in Chars
  <2>1. k - 1 \in Nat
    OBVIOUS
  <2> PICK v \in Nat : v = Remaining(value, base, k - 1)
    BY <1>1, <2>1, RemainingRecursion
  <2>2. v % base \in 0 .. 15
    BY DEF Bases
  <2>3. Character(v % base, flags) \in Chars
    BY <2>2, CharacterIs
  <2> QED
    BY <2>3
<1>3. Text(F)
  BY <1>2 DEF Text
<1> QED
  BY <1>3, Zenon DEF Figures, F

LEMMA Least == ASSUME NEW a \in Int, NEW b \in Int
               PROVE  /\ Smaller(a, b) \in {a, b} /\ Smaller(a, b) <= a /\ Smaller(a, b) <= b
BY DEF Smaller

LEMMA DigitsAre ==
  ASSUME NEW value \in Nat, NEW base \in Bases, NEW flags
  PROVE  Text(Digits(value, base, flags))
<1> DEFINE n == Smaller(DigitCount(value, base), BufferSize)
<1>1. n \in Nat
  BY Counted, NtoaAssumption, Least, SMTT(30)
<1> HIDE DEF n
<1>2. Text(Figures(value, base, n, flags))
  BY <1>1, FiguresAre
<1> QED
  BY <1>2, ShortText, Zenon DEF Digits, n

LEMMA OutRevIs ==
  ASSUME NEW buf, Text(buf), NEW width \in Int, NEW flags
  PROVE  Text(_out_rev(buf, width, flags))
<1> DEFINE blanks == Copies(width - Len(buf), " ")
           before == IF flags \cap {"LEFT", "ZEROPAD"} = {} THEN blanks ELSE <<>>
           after == IF "LEFT" \in flags THEN blanks ELSE <<>>
<1>1. Text(blanks)
  <2>1. width - Len(buf) \in Int
    BY DEF Text
  <2> QED
    BY <2>1, RepeatedBlanks, Zenon
<1>2. Text(before) /\ Text(after)
  BY <1>1, ShortText, Zenon
<1> HIDE DEF before, after
<1>3. Text(before \o Reverse(buf))
  BY <1>2, TextReversed, TextJoined, Zenon
<1>4. Text((before \o Reverse(buf)) \o after)
  BY <1>2, <1>3, TextJoined, Zenon
<1> QED
  BY <1>4, Zenon DEF _out_rev, before, after

LEMMA ZerosAre ==
  ASSUME NEW buf, Text(buf), NEW n \in Int
  PROVE  Text(ZerosUpTo(buf, n))
<1>1. Smaller(n, BufferSize) - Len(buf) \in Int
  BY NtoaAssumption, Least DEF Text
<1> QED
  BY <1>1, Own, Repeated, TextJoined DEF ZerosUpTo

LEMMA RoomFor ==
  ASSUME NEW buf, Text(buf), NEW ch \in Chars
  PROVE  Text(AppendIfRoom(buf, ch))
BY TextAppended, Zenon DEF AppendIfRoom

LEMMA NtoaFormatIs ==
  ASSUME NEW buf, Text(buf), NEW negative, NEW base, NEW prec \in Int, NEW width \in Int,
         NEW flags
  PROVE  Text(_ntoa_format(buf, negative, base, prec, width, flags))
<1>1. ASSUME NEW w \in Int PROVE Text(PadZeros(buf, prec, w, flags))
  BY <1>1, ZerosAre DEF PadZeros
<1>2. ASSUME NEW b, Text(b), NEW w \in Int
      PROVE  Text(AddPrefix(b, base, prec, w, flags))
  <2> DEFINE fills == "PRECISION" \notin flags /\ b # <<>> /\ Len(b) \in {prec, w}
             taken == IF ~fills THEN 0 ELSE IF base = 16 /\ Len(b) > 1 THEN 2 ELSE 1
             kept == SubSeq(b, 1, Len(b) - taken)
             mark == CASE base = 16 -> AppendIfRoom(kept, IF "UPPERCASE" \in flags THEN "X" ELSE "x")
                       [] base = 2  -> AppendIfRoom(kept, "b")
                       [] OTHER     -> kept
  <2>1. Len(b) - taken \in 0 .. Len(b)
    <3>1. Len(b) \in Nat /\ (b # <<>> => Len(b) >= 1)
      BY <1>2 DEF Text
    <3> QED
      BY <3>1
  <2>2. Text(kept)
    BY <1>2, <2>1, TextCut
  <2> HIDE DEF kept
  <2>3. Text(mark)
    BY <2>2, Own, RoomFor, Zenon
  <2> HIDE DEF mark
  <2>4. Text(AppendIfRoom(mark, "0"))
    BY <2>3, Own, RoomFor, Zenon
  <2> QED
    BY <1>2, <2>4, Zenon DEF AddPrefix, mark, kept
<1>3. ASSUME NEW b, Text(b) PROVE Text(AddSign(b, negative, flags))
  BY <1>3, Own, RoomFor, Zenon DEF AddSign
<1> DEFINE w == IF "LEFT" \notin flags /\ width > 0 /\ "ZEROPAD" \in flags
                     /\ (negative \/ flags \cap {"PLUS", "SPACE"} # {})
                THEN width - 1 ELSE width
           b1 == PadZeros(buf, prec, w, flags)
           b2 == AddPrefix(b1, base, prec, w, flags)
           b3 == AddSign(b2, negative, flags)
<1>4. w \in Int
  OBVIOUS
<1> HIDE DEF w
<1>5. Text(b1)
  BY <1>1, <1>4
<1> HIDE DEF b1
<1>6. Text(b2)
  BY <1>2, <1>4, <1>5
<1> HIDE DEF b2
<1>7. Text(b3)
  BY <1>3, <1>6
<1> HIDE DEF b3
<1>8. Text(_out_rev(b3, w, flags))
  BY <1>4, <1>7, OutRevIs
<1> QED
  BY <1>8, Zenon DEF _ntoa_format, b1, b2, b3, w

LEMMA NtoaLongIs ==
  ASSUME NEW value \in Nat, NEW negative, NEW base \in Bases, NEW prec \in Int,
         NEW width \in Int, NEW flags
  PROVE  Text(_ntoa_long(value, negative, base, prec, width, flags))
<1> DEFINE f == IF value = 0 THEN flags \ {"HASH"} ELSE flags
<1> HIDE DEF f
<1>1. Text(_ntoa_format(Digits(value, base, f), negative, base, prec, width, f))
  BY DigitsAre, NtoaFormatIs
<1> QED
  BY <1>1, Zenon DEF _ntoa_long, f

-----------------------------------------------------------------------------
(* Floating point conversions.                                             *)

LEMMA FtoaBuffers == ASSUME NEW q, Text(q) PROVE Text(InFtoaBuffer(q))
<1>1. Smaller(Len(q), FtoaBufferSize) \in 0 .. Len(q)
  <2>1. Len(q) \in Nat /\ FtoaBufferSize \in Nat
    BY FtoaAssumption DEF Text
  <2> QED
    BY <2>1 DEF Smaller
<1> QED
  BY <1>1, TextCut DEF InFtoaBuffer

LEMMA SignIs == ASSUME NEW negative, NEW flags PROVE Text(Sign(negative, flags))
BY Own, ShortText, Zenon DEF Sign

LEMMA SpecialIs ==
  ASSUME NEW v, v.class \in {"nan", "inf"}, v.neg \in BOOLEAN, NEW width \in Int, NEW flags
  PROVE  Text(SpecialText(v, width, flags))
<1> DEFINE t == CASE v.class = "nan" -> <<"n", "a", "n">>
                  [] v.class = "inf" /\ v.neg -> <<"f", "n", "i", "-">>
                  [] v.class = "inf" /\ ~v.neg ->
                       <<"f", "n", "i">> \o (IF "PLUS" \in flags THEN <<"+">> ELSE <<>>)
<1>1. Text(<<"n", "a", "n">>) /\ Text(<<"f", "n", "i", "-">>) /\ Text(<<"f", "n", "i">>)
  <2>1. "n" \in Chars /\ "a" \in Chars /\ "f" \in Chars /\ "i" \in Chars /\ "-" \in Chars
    BY Own
  <2> QED
    BY <2>1 DEF Text
<1>2. Text(IF "PLUS" \in flags THEN <<"+">> ELSE <<>>)
  BY Own, ShortText, Zenon
<1>3. Text(<<"f", "n", "i">> \o (IF "PLUS" \in flags THEN <<"+">> ELSE <<>>))
  BY <1>1, <1>2, TextJoined
<1>4. Text(t)
  BY <1>1, <1>3, Zenon
<1> HIDE DEF t
<1>5. Text(_out_rev(t, width, flags))
  BY <1>4, OutRevIs
<1> QED
  BY <1>5, Zenon DEF SpecialText, t

LEMMA ToDoubleIs == ASSUME NEW t \in Nat PROVE ToDouble(t) \in Nat
<1> DEFINE drop == First(0, 64, LAMBDA k : t \div Power(2, DoubleBits - 1 + k) < 2)
           unit == Power(2, drop)
           rest == t % unit
           up   == 2 * rest > unit \/ (2 * rest = unit /\ (t \div unit) % 2 = 1)
<1>1. drop \in 0 .. 64
  <2>1. 64 \in 0 .. 64
    OBVIOUS
  <2> QED
    BY <2>1, Zenon DEF First
<1> HIDE DEF drop
<1>2. drop \in Nat /\ 2 \in Nat \ {0}
  BY <1>1
<1>3. unit \in Nat \ {0}
  BY <1>2, PowerPositive
<1>4. ToDouble(t) = IF up THEN t - rest + unit ELSE t - rest
  BY Zenon DEF ToDouble, RoundedTo, drop, unit, rest, up
<1> HIDE DEF unit, up
<1>5. rest \in Nat /\ rest <= t
  <2>1. rest \in Nat /\ t \div unit \in Nat /\ t = (unit * (t \div unit)) + rest
    BY <1>3, Quotient
  <2>2. \A a, b \in Nat : a * b \in Nat
    OBVIOUS
  <2>3. unit * (t \div unit) \in Nat
    BY <1>3, <2>1, <2>2
  <2> HIDE DEF rest
  <2> QED
    BY <2>1, <2>3
<1> HIDE DEF rest
<1> QED
  BY <1>3, <1>4, <1>5

LEMMA ProductIs ==
  ASSUME NEW n \in Nat, NEW d \in Nat \ {0}, NEW p \in Nat
  PROVE  Product(n, d, p) \in Nat
<1> PICK m \in Nat : m = n % d
  BY Quotient
<1> PICK ten \in Nat : ten = Power(10, p)
  BY PowerPositive
<1>1. m * ten \in Nat
  OBVIOUS
<1> QED
  BY <1>1, ToDoubleIs DEF Product

LEMMA RoundedIs ==
  ASSUME NEW n \in Nat, NEW d \in Nat \ {0}, NEW p \in Nat
  PROVE  Rounded(n, d, p)[1] \in Nat /\ Rounded(n, d, p)[2] \in Nat
<1> DEFINE ten   == Power(10, p)
           whole == n \div d
           tmp   == Product(n, d, p)
           frac  == tmp \div d
           twice == 2 * (tmp % d)
           r == CASE twice > d /\ frac + 1 >= ten -> <<whole + 1, 0>>
                  [] \/ twice > d /\ frac + 1 < ten
                     \/ twice = d /\ (frac = 0 \/ frac % 2 = 1) -> <<whole, frac + 1>>
                  [] OTHER -> <<whole, frac>>
<1>1. whole \in Nat
  BY Quotient
<1>2. Rounded(n, d, p) = (IF p = 0 /\ 2 * (n - r[1] * d) >= d /\ r[1] % 2 = 1
                          THEN <<r[1] + 1, r[2]>> ELSE r)
  BY DEF Rounded, RoundedAt
<1> HIDE DEF whole, ten
<1>3. tmp \in Nat
  BY ProductIs
<1> HIDE DEF tmp
<1>4. frac \in Nat
  BY <1>3, Quotient
<1> HIDE DEF frac, twice
<1>5. whole + 1 \in Nat /\ frac + 1 \in Nat /\ 0 \in Nat
  BY <1>1, <1>4
<1>6. r = <<whole + 1, 0>> \/ r = <<whole, frac + 1>> \/ r = <<whole, frac>>
  OBVIOUS
<1> HIDE DEF r
<1>7. r[1] \in Nat /\ r[2] \in Nat
  BY <1>1, <1>4, <1>5, <1>6
<1> PICK a \in Nat, b \in Nat : r[1] = a /\ r[2] = b
  BY <1>7
<1>8. <<a + 1, b>>[1] \in Nat /\ <<a + 1, b>>[2] \in Nat
  OBVIOUS
<1> QED
  BY <1>2, <1>7, <1>8

LEMMA FractionIs ==
  ASSUME NEW frac \in Nat, NEW p \in Nat
  PROVE  Text(Fraction(frac, p))
<1> DEFINE plain == Figures(frac, 10, p, {}) \o <<".">>
           over == Figures(frac, 10, p + 1, {}) \o Copies(FtoaBufferSize, "0")
<1>1. \A n \in Nat : Text(Figures(frac, 10, n, {}))
  BY FiguresAre DEF Bases
<1>2. Text(<<".">>) /\ Text(Copies(FtoaBufferSize, "0"))
  <2>1. FtoaBufferSize \in Int
    BY FtoaAssumption
  <2> QED
    BY <2>1, Own, ShortText, Repeated
<1>3. p + 1 \in Nat
  OBVIOUS
<1>4. Text(plain) /\ Text(over)
  BY <1>1, <1>2, <1>3, TextJoined
<1>5. Text(<<>>)
  BY ShortText
<1>6. p = 0 \/ p > 0
  OBVIOUS
<1> DEFINE ten == Power(10, p)
<1>7. frac < ten \/ frac >= ten
  <2>1. ten \in Nat
    BY PowerPositive
  <2> HIDE DEF ten
  <2> QED
    BY <2>1
<1> HIDE DEF plain, over, ten
<1>8. Fraction(frac, p) = <<>> \/ Fraction(frac, p) = plain \/ Fraction(frac, p) = over
  BY <1>6, <1>7 DEF Fraction, plain, over, ten
<1> QED
  BY <1>4, <1>5, <1>8, Zenon

LEMMA FixedIs ==
  ASSUME NEW v, v.n \in Nat, v.d \in Nat \ {0}, NEW given \in Nat, NEW width \in Int, NEW flags
  PROVE  Text(FixedText(v, given, width, flags))
<1> DEFINE prec == IF "PRECISION" \in flags THEN given ELSE DefaultPrecision
           p == Smaller(prec, LastPower)
           r == Rounded(v.n, v.d, p)
           point == Fraction(r[2], p)
           whole == Figures(r[1], 10, DigitCount(r[1], 10), {})
           num == InFtoaBuffer(Copies(prec - p, "0") \o point \o whole)
           zeros == "LEFT" \notin flags /\ "ZEROPAD" \in flags
           w == IF zeros /\ width > 0 /\ (Negative(v) \/ flags \cap {"PLUS", "SPACE"} # {})
                THEN width - 1 ELSE width
           padded == IF zeros THEN num \o Copies(w - Len(num), "0") ELSE num
<1>1. prec \in Nat /\ p \in Nat
  BY Least DEF DefaultPrecision, LastPower
<1> HIDE DEF prec, p
<1>11. r[1] \in Nat /\ r[2] \in Nat
  BY <1>1, RoundedIs
<1> HIDE DEF r
<1>2. Text(point)
  BY <1>1, <1>11, FractionIs
<1>3. Text(whole)
  <2>1. DigitCount(r[1], 10) \in Nat /\ 10 \in Bases
    BY Counted DEF Bases
  <2> QED
    BY <1>11, <2>1, FiguresAre
<1>4. Text(Copies(prec - p, "0"))
  <2>1. prec - p \in Int
    BY <1>1
  <2> QED
    BY <2>1, Own, Repeated
<1> HIDE DEF point, whole
<1>5. Text(Copies(prec - p, "0") \o point \o whole)
  BY <1>2, <1>3, <1>4, TextJoined
<1>6. Text(num)
  BY <1>5, FtoaBuffers
<1>7. w \in Int
  OBVIOUS
<1> HIDE DEF num, w
<1>8. Text(padded)
  <2>1. w - Len(num) \in Int
    BY <1>6, <1>7 DEF Text
  <2>2. Text(num \o Copies(w - Len(num), "0"))
    BY <1>6, <2>1, Own, Repeated, TextJoined
  <2> QED
    BY <1>6, <2>2
<1> HIDE DEF padded
<1>9. Text(InFtoaBuffer(padded \o Sign(Negative(v), flags)))
  BY <1>8, SignIs, TextJoined, FtoaBuffers
<1>10. Text(_out_rev(InFtoaBuffer(padded \o Sign(Negative(v), flags)), w, flags))
  BY <1>7, <1>9, OutRevIs
<1> QED
  BY <1>10, Zenon DEF FixedText, padded, num, w, point, whole, r, p, prec

LEMMA ExponentsAre == ASSUME NEW v PROVE Exponents(v) \subseteq Int
<1>1. FloorLog10(v.n, v.d) \in Int
  <2>1. NumeralLength(v.n \div v.d, 10) \in 1 .. 64
    BY Counted
  <2>2. First(1, 308, LAMBDA k : v.n * Power(10, k) >= v.d) \in 1 .. 308
    <3>1. 308 \in 1 .. 308
      OBVIOUS
    <3> QED
      BY <3>1, Zenon DEF First
  <2> DEFINE a == NumeralLength(v.n \div v.d, 10)
             b == First(1, 308, LAMBDA k : v.n * Power(10, k) >= v.d)
  <2>3. a - 1 \in Int /\ -b \in Int
    <3> HIDE DEF a, b
    <3>1. a \in 1 .. 64 /\ b \in 1 .. 308
      BY <2>1, <2>2 DEF a, b
    <3> QED
      BY <3>1
  <2>4. FloorLog10(v.n, v.d) = a - 1 \/ FloorLog10(v.n, v.d) = -b
    BY Zenon DEF FloorLog10
  <2> QED
    BY <2>3, <2>4, Zenon
<1> DEFINE e == FloorLog10(v.n, v.d)
<1> HIDE DEF e
<1>2. e \in Int /\ e - 1 \in Int /\ -308 \in Int
  BY <1>1 DEF e
<1>3. Exponents(v) \subseteq {-308, e - 1, e}
  BY Zenon DEF Exponents, e
<1> QED
  BY <1>2, <1>3

Doubles == [class : Classes, neg : BOOLEAN, n : Nat, d : Nat \ {0}]

LEMMA RescaledIs ==
  ASSUME NEW v \in Doubles, NEW e \in Int
  PROVE  Rescaled(v, e).n \in Nat /\ Rescaled(v, e).d \in Nat \ {0}
<1>1. CASE v.n = 0 \/ e = 0
  BY <1>1 DEF Rescaled, Doubles
<1>2. CASE v.n # 0 /\ e > 0
  <2> PICK ten \in Nat \ {0} : ten = Power(10, e)
    BY <1>2, PowerPositive
  <2>1. v.d * ten \in Nat \ {0}
    BY DEF Doubles
  <2>2. Rescaled(v, e) = [v EXCEPT !.d = v.d * ten]
    BY <1>2 DEF Rescaled
  <2> QED
    BY <2>1, <2>2 DEF Doubles
<1>3. CASE v.n # 0 /\ e < 0
  <2> PICK ten \in Nat \ {0} : ten = Power(10, -e)
    BY <1>3, PowerPositive
  <2>1. v.n * ten \in Nat
    BY DEF Doubles
  <2>2. Rescaled(v, e) = [v EXCEPT !.n = v.n * ten]
    BY <1>3 DEF Rescaled
  <2> QED
    BY <2>1, <2>2 DEF Doubles
<1> QED
  BY <1>1, <1>2, <1>3

LEMMA EtoaIs ==
  ASSUME NEW v \in Doubles, NEW expval \in Int, NEW given \in Nat, NEW width \in Nat, NEW flags
  PROVE  Text(EtoaText(v, expval, given, width, flags))
<1> DEFINE limited == "PRECISION" \in flags
           prec  == IF limited THEN given ELSE DefaultPrecision
           adapt == "ADAPT_EXP" \in flags
           fixed == adapt /\ InFixedRange(v)
           e     == IF fixed THEN 0 ELSE expval
           decimals == CASE fixed -> IF prec > expval THEN prec - expval - 1 ELSE 0
                         [] ~fixed /\ adapt /\ limited /\ prec > 0 -> prec - 1
                         [] OTHER -> prec
           minwidth == CASE fixed -> 0
                         [] ~fixed /\ expval \in -99 .. 99 -> 4
                         [] OTHER -> 5
           left   == "LEFT" \in flags /\ ~fixed
           fwidth == IF left \/ width <= minwidth THEN 0 ELSE width - minwidth
           mantissa == FixedText(Rescaled(v, e), decimals, fwidth,
                                 flags \cup (IF fixed THEN {"PRECISION"} ELSE {}))
           mark == <<IF "UPPERCASE" \in flags THEN "E" ELSE "e">>
           power == _ntoa_long(IF e < 0 THEN -e ELSE e, e < 0, 10, 0, minwidth - 1,
                               {"ZEROPAD", "PLUS"})
           both == IF fixed THEN mantissa ELSE mantissa \o (mark \o power)
<1>1. prec \in Nat
  BY DEF DefaultPrecision
<1> HIDE DEF limited, prec, adapt, fixed
<1>2. decimals \in Nat
  BY <1>1
<1>3. minwidth \in Int
  OBVIOUS
<1>12. e \in Int /\ (IF e < 0 THEN -e ELSE e) \in Nat
  OBVIOUS
<1> HIDE DEF decimals, minwidth, e, left
<1>4. fwidth \in Int
  BY <1>3
<1> HIDE DEF fwidth
<1>5. Text(mantissa)
  BY <1>2, <1>4, <1>12, RescaledIs, FixedIs
<1>6. minwidth - 1 \in Int /\ 0 \in Int /\ 10 \in Bases
  BY <1>3 DEF Bases
<1>7. Text(power)
  BY <1>6, <1>12, NtoaLongIs
<1> HIDE DEF mantissa, power
<1>8. Text(mark \o power)
  <2>1. Text(mark)
    BY Own, ShortText, Zenon
  <2> QED
    BY <1>7, <2>1, TextJoined, Zenon
<1>9. Text(mantissa \o (mark \o power))
  BY <1>5, <1>8, TextJoined, Zenon
<1>10. Text(both)
  BY <1>5, <1>9, Zenon
<1> HIDE DEF both, mark
<1>11. Text(both \o Copies(width - Len(both), " "))
  <2>1. width - Len(both) \in Int
    BY <1>10 DEF Text
  <2> QED
    BY <1>10, <2>1, RepeatedBlanks, TextJoined, Zenon
<1> QED
  BY <1>10, <1>11, Zenon DEF EtoaText, both, mark, power, mantissa, fwidth, left, minwidth,
     decimals, e, fixed, adapt, prec, limited

\* Whichever of its texts a floating point argument is given.
LEMMA FloatIs ==
  ASSUME NEW spec, NEW v \in Doubles,
         NEW p, p.width \in Nat, p.prec \in Nat, NEW t \in FloatTexts(spec, v, p)
  PROVE  Text(t)
<1> DEFINE flags == FloatFlags(spec, p.flags)
           width == p.width
           prec == p.prec
<1>1. width \in Nat /\ prec \in Nat
  OBVIOUS
<1> HIDE DEF flags, width, prec
<1>2. ASSUME v.class # "finite" PROVE Text(SpecialText(v, width, flags))
  BY <1>1, <1>2, SpecialIs DEF Doubles, Classes
<1>3. \A e \in Exponents(v) : Text(EtoaText(v, e, prec, width, flags))
  BY <1>1, ExponentsAre, EtoaIs
<1>4. Text(FixedText(v, prec, width, flags))
  BY <1>1, FixedIs DEF Doubles
<1>5. \A u \in _etoa(v, prec, width, flags) : Text(u)
  BY <1>2, <1>3 DEF _etoa
<1>6. \A u \in _ftoa(v, prec, width, flags) : Text(u)
  BY <1>4, <1>5 DEF _ftoa
<1> QED
  BY <1>5, <1>6, Zenon DEF FloatTexts, flags, width, prec

-----------------------------------------------------------------------------
(* Arguments.                                                              *)

\* r is q without its first n elements.
Drops(q, n, r) ==
  /\ n \in 0 .. Len(q)
  /\ Sequence(r) /\ Len(r) = Len(q) - n
  /\ \A j \in 1 .. Len(r) : r[j] = q[n + j]

LEMMA DropsNone == ASSUME NEW q, Sequence(q) PROVE Drops(q, 0, q)
<1>1. Len(q) \in Nat
  BY DEF Sequence
<1>2. \A j \in 1 .. Len(q) : j = 0 + j
  BY <1>1
<1>3. \A j \in 1 .. Len(q) : q[j] = q[0 + j]
  BY <1>2
<1>4. 0 \in 0 .. Len(q) /\ Len(q) = Len(q) - 0
  BY <1>1
<1> QED
  BY <1>3, <1>4, Zenon DEF Drops

LEMMA DropsOneMore ==
  ASSUME NEW q, Sequence(q), NEW n, NEW r, Drops(q, n, r), n < Len(q)
  PROVE  r # <<>> /\ Head(r) = q[n + 1] /\ Drops(q, n + 1, Tail(r))
<1>1. Len(q) \in Nat /\ n \in 0 .. Len(q) /\ Sequence(r) /\ Len(r) = Len(q) - n
      /\ \A j \in 1 .. Len(r) : r[j] = q[n + j]
  BY DEF Drops, Sequence
<1>2. Len(r) >= 1
  BY <1>1
<1>3. r # <<>>
  BY <1>1, <1>2, Short
<1>4. /\ Head(r) = r[1] /\ Sequence(Tail(r)) /\ Len(Tail(r)) = Len(r) - 1
      /\ \A k \in 1 .. Len(r) - 1 : Tail(r)[k] = r[k + 1]
  BY <1>1, <1>3, Rest
<1>5. r[1] = q[n + 1]
  BY <1>1, <1>2
<1>6. \A j \in 1 .. Len(Tail(r)) : Tail(r)[j] = q[(n + 1) + j]
  <2> TAKE j \in 1 .. Len(Tail(r))
  <2>1. j \in 1 .. Len(r) - 1 /\ j + 1 \in 1 .. Len(r) /\ n + (j + 1) = (n + 1) + j
    BY <1>1, <1>4
  <2>2. Tail(r)[j] = r[j + 1]
    BY <1>4, <2>1
  <2>3. r[j + 1] = q[n + (j + 1)]
    BY <1>1, <2>1
  <2> QED
    BY <2>1, <2>2, <2>3
<1>7. n + 1 \in 0 .. Len(q) /\ Len(Tail(r)) = Len(q) - (n + 1)
  BY <1>1, <1>4
<1> QED
  BY <1>3, <1>4, <1>5, <1>6, <1>7, Zenon DEF Drops

\* Reading a directive takes its "*" arguments and leaves its value first, if
\* it has one.
LEMMA ParseIs ==
  ASSUME NEW d, d.spec # "literal", NEW args, Sequence(args), Finds(d, args, 0)
  PROVE  LET p == Parse(d, args)
         IN  /\ p.width \in Nat /\ p.prec \in Nat
             /\ Drops(args, Stars(d), p.va)
             /\ d.spec # "other" => /\ Head(p.va) = args[Taken(d)]
                                    /\ Drops(args, Taken(d), Tail(p.va))
<1> DEFINE w == IF d.width = Star THEN Head(args) ELSE d.width
           afterWidth == IF d.width = Star THEN Tail(args) ELSE args
           a == IF d.width = Star THEN 1 ELSE 0
           c == IF d.prec = Star THEN Head(afterWidth) ELSE d.prec
           afterPrec == IF d.prec = Star THEN Tail(afterWidth) ELSE afterWidth
           b == IF d.prec = Star THEN 1 ELSE 0
           p == Parse(d, args)
<1>1. /\ d.width \in Nat \cup {Star} /\ d.prec \in Nat \cup {Star, None}
      /\ Stars(d) = a + b /\ Stars(d) <= Len(args)
      /\ Taken(d) = (IF d.spec = "other" THEN a + b ELSE a + b + 1) /\ Taken(d) <= Len(args)
      /\ \A k \in 1 .. Stars(d) : args[k] \in Int
  <2>1. /\ d.width \in Nat \cup {Star} /\ d.prec \in Nat \cup {Star, None}
        /\ 0 + Taken(d) <= Len(args) /\ \A k \in 1 .. Stars(d) : args[0 + k] \in Int
    BY DEF Finds
  <2>2. Stars(d) = a + b
    BY DEF Stars
  <2>3. Taken(d) = (IF d.spec = "other" THEN a + b ELSE a + b + 1)
    BY <2>2 DEF Taken
  <2>4. Len(args) \in Nat
    BY DEF Sequence
  <2>5. \A k \in 1 .. Stars(d) : 0 + k = k
    BY <2>2
  <2>6. 0 + Taken(d) = Taken(d) /\ Stars(d) <= Taken(d) /\ Taken(d) \in Nat /\ Stars(d) \in Nat
    BY <2>2, <2>3
  <2>7. Taken(d) <= Len(args)
    BY <2>1, <2>6
  <2>8. Stars(d) <= Len(args)
    BY <2>4, <2>6, <2>7
  <2> QED
    BY <2>1, <2>2, <2>3, <2>5, <2>7, <2>8
<1>2. Drops(args, 0, args) /\ Len(args) \in Nat
  BY DropsNone DEF Sequence
<1>3. Drops(args, a, afterWidth) /\ w \in Int
  <2>1. CASE d.width = Star
    <3>1. 0 < Len(args) /\ 0 + 1 = 1 /\ 1 \in 1 .. Stars(d)
      BY <1>1, <1>2, <2>1
    <3>2. Head(args) = args[0 + 1] /\ Drops(args, 0 + 1, Tail(args))
      BY <1>2, <3>1, DropsOneMore
    <3> QED
      BY <1>1, <2>1, <3>1, <3>2
  <2>2. CASE d.width # Star
    BY <1>1, <1>2, <2>2
  <2> QED
    BY <2>1, <2>2
<1>4. Drops(args, a + b, afterPrec) /\ c \in Int
  <2>1. CASE d.prec = Star
    <3>1. a < Len(args) /\ a + 1 \in 1 .. Stars(d) /\ a + b = a + 1
      BY <1>1, <1>2, <2>1
    <3>2. Head(afterWidth) = args[a + 1] /\ Drops(args, a + 1, Tail(afterWidth))
      <4> HIDE DEF a, afterWidth
      <4> QED
        BY <1>3, <3>1, DropsOneMore
    <3> QED
      BY <1>1, <2>1, <3>1, <3>2
  <2>2. CASE d.prec # Star
    <3>1. a + b = a
      BY <2>2
    <3>2. c \in Int
      BY <1>1, <2>2 DEF Star, None
    <3> QED
      BY <1>3, <2>2, <3>1, <3>2
  <2> QED
    BY <2>1, <2>2
<1>5. p.width = (IF w < 0 THEN -w ELSE w) /\ p.prec = (IF c > 0 THEN c ELSE 0) /\ p.va = afterPrec
  BY DEF Parse
<1> HIDE DEF w, c, afterPrec, afterWidth
<1>6. p.width \in Nat /\ p.prec \in Nat
  BY <1>3, <1>4, <1>5
<1>7. d.spec # "other" => a + b < Len(args) /\ (a + b) + 1 = Taken(d)
  BY <1>1, <1>2
<1> HIDE DEF a, b, p
<1>8. d.spec # "other" =>
        Head(afterPrec) = args[Taken(d)] /\ Drops(args, Taken(d), Tail(afterPrec))
  BY <1>4, <1>7, DropsOneMore
<1>9. Drops(args, Stars(d), afterPrec)
  BY <1>1, <1>4
<1> QED
  BY <1>5, <1>6, <1>8, <1>9 DEF p

LEMMA DropsFurther ==
  ASSUME NEW q, Sequence(q), NEW n, NEW r, Drops(q, n, r), NEW m, NEW t, Drops(r, m, t)
  PROVE  Drops(q, n + m, t)
<1>1. /\ Len(q) \in Nat /\ n \in 0 .. Len(q) /\ Len(r) = Len(q) - n
      /\ \A j \in 1 .. Len(r) : r[j] = q[n + j]
  BY DEF Drops, Sequence
<1>2. /\ m \in 0 .. Len(r) /\ Sequence(t) /\ Len(t) = Len(r) - m
      /\ \A j \in 1 .. Len(t) : t[j] = r[m + j]
  BY DEF Drops
<1>3. n + m \in 0 .. Len(q) /\ Len(t) = Len(q) - (n + m)
  BY <1>1, <1>2
<1>4. \A j \in 1 .. Len(t) : t[j] = q[(n + m) + j]
  <2> TAKE j \in 1 .. Len(t)
  <2>1. m + j \in 1 .. Len(r) /\ n + (m + j) = (n + m) + j
    BY <1>1, <1>2
  <2>2. t[j] = r[m + j] /\ r[m + j] = q[n + (m + j)]
    BY <1>1, <1>2, <2>1
  <2> QED
    BY <2>1, <2>2
<1> QED
  BY <1>2, <1>3, <1>4, Zenon DEF Drops

LEMMA FindsHere ==
  ASSUME NEW item, NEW args, Sequence(args), NEW n, NEW r, Drops(args, n, r), Finds(item, args, n)
  PROVE  Finds(item, r, 0)
<1> SUFFICES ASSUME item.spec # "literal" PROVE Finds(item, r, 0)
  BY DEF Finds
<1> DEFINE m == Taken(item)
<1>1. /\ Len(args) \in Nat /\ n \in 0 .. Len(args) /\ Len(r) = Len(args) - n
      /\ \A j \in 1 .. Len(r) : r[j] = args[n + j]
  BY DEF Drops, Sequence
<1>2. m \in 0 .. 3 /\ Stars(item) \in 0 .. m /\ (item.spec # "other" => m # 0)
  BY DEF Taken, Stars
<1>3. n + m <= Len(args) /\ \A k \in 1 .. Stars(item) : args[n + k] \in Int
  BY DEF Finds
<1> HIDE DEF m
<1>4. m \in 0 .. Len(r) /\ 0 + m <= Len(r) /\ 0 + m = m
  BY <1>1, <1>2, <1>3
<1>5. item.spec # "other" => r[0 + m] = args[n + m]
  BY <1>1, <1>2, <1>4
<1>6. \A k \in 1 .. Stars(item) : r[0 + k] \in Int
  <2> TAKE k \in 1 .. Stars(item)
  <2>1. k \in 1 .. Len(r) /\ 0 + k = k
    BY <1>1, <1>2, <1>4
  <2> QED
    BY <1>1, <1>3, <2>1
<1>7. /\ item.spec \in {"c", "s", "p", "other"} \cup IntegerSpecs \cup FloatSpecs
      /\ item.spec = "other" => item.ch \in Chars
      /\ item.flags \subseteq WrittenFlags
      /\ item.width \in Nat \cup {Star} /\ item.prec \in Nat \cup {Star, None}
      /\ item.spec \in IntegerSpecs => item.length \in Lengths
      /\ LET value == args[n + m] IN
           /\ item.spec \in {"p"} \cup IntegerSpecs => value \in Int
           /\ item.spec = "c" => value \in Chars
           /\ item.spec = "s" => value \in Seq(Chars \ {NUL})
           /\ item.spec \in FloatSpecs =>
                value \in [class : Classes, neg : BOOLEAN, n : Nat, d : Nat \ {0}]
  BY Zenon DEF Finds, m
<1>8. LET value == r[0 + m] IN
        /\ item.spec \in {"p"} \cup IntegerSpecs => value \in Int
        /\ item.spec = "c" => value \in Chars
        /\ item.spec = "s" => value \in Seq(Chars \ {NUL})
        /\ item.spec \in FloatSpecs =>
             value \in [class : Classes, neg : BOOLEAN, n : Nat, d : Nat \ {0}]
  <2>1. CASE item.spec # "other"
    BY <1>5, <1>7, <2>1, Zenon
  <2>2. CASE item.spec = "other"
    BY <2>2 DEF IntegerSpecs, FloatSpecs
  <2> QED
    BY <2>1, <2>2
<1> QED
  BY <1>4, <1>6, <1>7, <1>8, Zenon DEF Finds, m

-----------------------------------------------------------------------------
(* What every directive outputs is a text.                                 *)

LEMMA PaddedIs ==
  ASSUME NEW q, Text(q), NEW l \in Int, NEW width \in Int, NEW flags
  PROVE  Text(Padded(q, l, width, flags))
<1>1. Text(Copies(width - l, " "))
  <2>1. width - l \in Int
    OBVIOUS
  <2> QED
    BY <2>1, RepeatedBlanks, Zenon
<1> QED
  BY <1>1, TextJoined, Zenon DEF Padded

LEMMA StringIs ==
  ASSUME NEW q, Text(q), NEW p, p.width \in Nat, p.prec \in Nat
  PROVE  Text(StringText(q, p))
<1> DEFINE limited == "PRECISION" \in p.flags
           len == IF p.prec # 0 THEN _strnlen_s(q, p.prec) ELSE Len(q)
           l == IF limited THEN Smaller(len, p.prec) ELSE len
           n == Smaller(Len(q), p.prec)
           shown == IF limited THEN SubSeq(q, 1, n) ELSE q
<1>1. Len(q) \in Nat
  BY DEF Text
<1>2. n \in 0 .. Len(q)
  BY <1>1 DEF Smaller
<1>3. len \in Int
  BY <1>1 DEF Smaller, _strnlen_s
<1> HIDE DEF n, len
<1>4. l \in Int
  BY <1>3 DEF Smaller
<1>5. Text(SubSeq(q, 1, n))
  BY <1>2, TextCut
<1> HIDE DEF l
<1>6. Text(shown)
  BY <1>5
<1> HIDE DEF shown
<1>7. Text(Padded(shown, l, p.width, p.flags))
  BY <1>4, <1>6, PaddedIs
<1> QED
  BY <1>7, Zenon DEF StringText, shown, l, len, n

LEMMA Widths ==
  /\ \A length \in Lengths : Bits[length] \in 1 .. 64
  /\ Lengths = {"hh", "h", "", "l", "ll"}
BY PrintfAssumption, Zenon DEF Lengths

LEMMA ReadAsType ==
  ASSUME NEW x \in Int, NEW length \in Lengths
  PROVE  /\ Unsigned(x, length) \in Nat /\ Unsigned(x, length) < Power(2, Bits[length])
         /\ Signed(x, length) \in Int
<1> PICK w \in 1 .. 64 : w = Bits[length]
  BY Widths
<1>0. w \in Nat /\ w - 1 \in Nat /\ 2 \in Nat \ {0}
  OBVIOUS
<1> PICK m \in Nat \ {0} : m = Power(2, w)
  BY <1>0, PowerPositive
<1> PICK h \in Nat \ {0} : h = Power(2, w - 1)
  BY <1>0, PowerPositive
<1> PICK u \in 0 .. m - 1 : u = x % m
  OBVIOUS
<1>1. Unsigned(x, length) = u
  BY DEF Unsigned
<1>2. Signed(x, length) = IF u >= h THEN u - m ELSE u
  BY <1>1 DEF Signed
<1> QED
  BY <1>1, <1>2

LEMMA IntegerIs ==
  ASSUME NEW spec \in IntegerSpecs, NEW length \in Lengths, NEW x \in Int,
         NEW p, p.width \in Nat, p.prec \in Nat
  PROVE  Text(IntegerText(spec, length, x, p))
<1> DEFINE s == Signed(x, length)
           m == IF s > 0 THEN s ELSE 0 - s
           f == IntegerFlags(spec, p.flags)
<1>1. m \in Int
  BY ReadAsType
<1> HIDE DEF m
<1>2. Promoted(length) \in Lengths
  BY DEF Promoted, Lengths
<1>3. Unsigned(m, Promoted(length)) \in Nat /\ Unsigned(x, length) \in Nat
  BY <1>1, <1>2, ReadAsType
<1>4. Base(spec) \in Bases
  BY DEF Base, Bases, IntegerSpecs
<1> HIDE DEF f
<1>5. \A n \in Nat : \A negative : Text(_ntoa_long(n, negative, Base(spec), p.prec, p.width, f))
  BY <1>4, NtoaLongIs
<1> QED
  BY <1>3, <1>5, Zenon DEF IntegerText, f, m

LEMMA PointerIs ==
  ASSUME NEW x \in Int, NEW p, p.width \in Nat, p.prec \in Nat PROVE Text(PointerText(x, p))
<1>1. Unsigned(x, "ll") \in Nat /\ Bits["ll"] \in 1 .. 64
  BY ReadAsType, Widths
<1>2. \A n \in 1 .. 64 : n \div 4 \in Int
  OBVIOUS
<1> DEFINE v == Unsigned(x, "ll")
           w == Bits["ll"] \div 4
           f == p.flags \cup {"ZEROPAD", "UPPERCASE"}
<1>3. v \in Nat /\ w \in Int /\ 16 \in Bases /\ p.prec \in Int
  BY <1>1, <1>2 DEF Bases
<1> HIDE DEF v, w, f
<1>4. Text(_ntoa_long(v, FALSE, 16, p.prec, w, f))
  BY <1>3, NtoaLongIs, Zenon
<1> QED
  BY <1>4, Zenon DEF PointerText, v, w, f

\* Whichever action outputs an item: it finds the item's arguments, its
\* characters are a text and it leaves the arguments of the next.
LEMMA Emits ==
  ASSUME format # <<>>, Sequence(va), Finds(Head(format), va, 0),
         Literal \/ Other \/ Integer \/ Pointer \/ Float \/ Char \/ String
  PROVE  \E t, rest : Emit(t, rest) /\ Text(t) /\ Drops(va, Taken(Head(format)), rest)
<1> DEFINE d == Head(format)
           p == Parse(d, va)
           value == Head(p.va)
<1>1. CASE Literal
  <2>1. Emit(<<d.ch>>, va) /\ d.spec = "literal"
    BY <1>1 DEF Literal, AtItem
  <2>2. Taken(d) = 0
    BY <2>1 DEF Taken
  <2>3. Drops(va, Taken(d), va)
    BY <2>2, DropsNone
  <2>4. d.ch \in Chars
    BY <2>1 DEF Finds
  <2> QED
    BY <2>1, <2>3, <2>4, ShortText
<1>9. CASE Other
  <2>1. Emit(<<d.ch>>, p.va) /\ d.spec = "other"
    BY <1>9 DEF Other, AtItem
  <2>2. Taken(d) = Stars(d)
    BY <2>1 DEF Taken
  <2>3. Drops(va, Taken(d), p.va)
    BY <2>1, <2>2, ParseIs
  <2>4. d.ch \in Chars
    BY <2>1 DEF Finds
  <2> HIDE DEF p
  <2> QED
    BY <2>1, <2>3, <2>4, ShortText
<1>2. d.spec \notin {"literal", "other"} =>
        /\ p.width \in Nat /\ p.prec \in Nat
        /\ value = va[Taken(d)]
        /\ Drops(va, Taken(d), Tail(p.va))
  BY ParseIs
<1>3. d.spec \notin {"literal", "other"} =>
        /\ d.spec \in {"p"} \cup IntegerSpecs => value \in Int
        /\ d.spec \in IntegerSpecs => d.length \in Lengths
        /\ d.spec = "c" => value \in Chars
        /\ d.spec = "s" => Text(value)
        /\ d.spec \in FloatSpecs => value \in Doubles
  <2>1. 0 + Taken(d) = Taken(d)
    BY DEF Taken, Stars
  <2> SUFFICES ASSUME d.spec \notin {"literal", "other"}
               PROVE  /\ d.spec \in {"p"} \cup IntegerSpecs => value \in Int
                      /\ d.spec \in IntegerSpecs => d.length \in Lengths
                      /\ d.spec = "c" => value \in Chars
                      /\ d.spec = "s" => Text(value)
                      /\ d.spec \in FloatSpecs => value \in Doubles
    OBVIOUS
  <2>2. /\ d.spec \in IntegerSpecs => d.length \in Lengths
        /\ LET v == va[0 + Taken(d)] IN
             /\ d.spec \in {"p"} \cup IntegerSpecs => v \in Int
             /\ d.spec = "c" => v \in Chars
             /\ d.spec = "s" => v \in Seq(Chars \ {NUL})
             /\ d.spec \in FloatSpecs => v \in Doubles
    BY Zenon DEF Finds, Doubles
  <2>3. value = va[0 + Taken(d)]
    BY <1>2, <2>1
  <2> HIDE DEF value
  <2>4. value \in Seq(Chars \ {NUL}) => Text(value)
    BY DEF Text
  <2> QED
    BY <2>2, <2>3, <2>4, Zenon
<1> HIDE DEF p, value
<1>4. CASE Integer
  <2> DEFINE t == IntegerText(d.spec, d.length, value, p)
  <2>1. Emit(t, Tail(p.va)) /\ d.spec \in IntegerSpecs /\ d.spec \notin {"literal", "other"}
    BY <1>4 DEF Integer, AtItem, IntegerSpecs, p, value
  <2>2. Text(t)
    BY <1>2, <1>3, <2>1, IntegerIs
  <2> QED
    BY <1>2, <2>1, <2>2
<1>5. CASE Pointer
  <2> DEFINE t == PointerText(value, p)
  <2>1. Emit(t, Tail(p.va)) /\ d.spec = "p"
    BY <1>5 DEF Pointer, AtItem, p, value
  <2>2. Text(t)
    BY <1>2, <1>3, <2>1, PointerIs
  <2> QED
    BY <1>2, <2>1, <2>2
<1>6. CASE Float
  <2>1. PICK t \in FloatTexts(d.spec, value, p) : Emit(t, Tail(p.va))
    BY <1>6 DEF Float, p, value
  <2>2. d.spec \notin {"literal", "other"} /\ d.spec \in FloatSpecs
    BY <1>6 DEF Float, AtItem, FloatSpecs
  <2>3. Text(t)
    BY <1>2, <1>3, <2>2, FloatIs
  <2> QED
    BY <1>2, <2>1, <2>2, <2>3
<1>7. CASE Char
  <2> DEFINE t == CharText(value, p)
  <2>1. Emit(t, Tail(p.va)) /\ d.spec = "c"
    BY <1>7 DEF Char, AtItem, p, value
  <2>2. Text(t)
    BY <1>2, <1>3, <2>1, ShortText, PaddedIs DEF CharText
  <2> QED
    BY <1>2, <2>1, <2>2
<1>8. CASE String
  <2> DEFINE t == StringText(value, p)
  <2>1. Emit(t, Tail(p.va)) /\ d.spec = "s"
    BY <1>8 DEF String, AtItem, p, value
  <2>2. Text(t)
    BY <1>2, <1>3, <2>1, StringIs
  <2> QED
    BY <1>2, <2>1, <2>2
<1> QED
  BY <1>1, <1>4, <1>5, <1>6, <1>7, <1>8, <1>9

-----------------------------------------------------------------------------
(* The invariant: the format and the arguments are at the same item; text  *)
(* is the end of full, and idx what lies before it; the buffer holds what  *)
(* of full is output and fits, and whoever gets characters has got those   *)
(* that are output.                                                        *)

Reading ==
  \E at \in [1 .. Len(call.format) + 1 -> 0 .. Len(call.va)] : \E k \in 0 .. Len(call.format) :
    /\ Places(at, call.format, call.va)
    /\ Drops(call.format, k, format)
    /\ Drops(call.va, at[k + 1], va)

Counting ==
  /\ Sequence(text) /\ Sequence(full)
  /\ idx \in Nat /\ idx + Len(text) = Len(full)
  /\ \A j \in 1 .. Len(text) : text[j] = full[idx + j]

Stores == OutFct(call) = "_out_buffer"
Hands == OutFct(call) \in {"_out_char", "_out_fct"}

\* The buffer before the terminator.
Storing ==
  \A k \in DOMAIN mem :
    mem[k] = IF Stores /\ k < Maxlen(call) /\ k < idx THEN full[k + 1] ELSE Untouched

Memory == DOMAIN mem = 0 .. MemSize - 1

Handing ==
  Hands => /\ Sequence(line) /\ Len(line) = Cardinality(Sent(idx))
           /\ \A k \in Sent(idx) : line[Cardinality(Sent(k))] = full[k]

Returned ==
  /\ ret \in Nat \cup {None}
  /\ ret = None => Storing
  /\ ret # None => /\ format = <<>> /\ text = <<>> /\ ret = idx
                   /\ BufferHoldsPrefix

PInv == call \in Calls /\ Reading /\ Counting /\ Memory /\ Handing /\ Returned

-----------------------------------------------------------------------------
(* Sent.                                                                   *)

LEMMA SentIs ==
  \A n \in Nat : IsFiniteSet(Sent(n)) /\ Cardinality(Sent(n)) \in Nat
<1> TAKE n \in Nat
<1>1. IsFiniteSet(1 .. n)
  BY FS_Interval
<1>2. Sent(n) \in SUBSET (1 .. n)
  BY DEF Sent
<1>3. IsFiniteSet(Sent(n))
  BY <1>1, <1>2, FS_Subset
<1> QED
  BY <1>3, FS_CardinalityType

LEMMA SentNone == Sent(0) = {} /\ Cardinality(Sent(0)) = 0
<1>1. Sent(0) = {}
  BY DEF Sent
<1> QED
  BY <1>1, FS_EmptySet

LEMMA SentOneMore ==
  ASSUME NEW n \in Nat
  PROVE  /\ full[n + 1] = NUL => Sent(n + 1) = Sent(n)
         /\ full[n + 1] # NUL =>
              /\ Sent(n + 1) = Sent(n) \cup {n + 1}
              /\ Cardinality(Sent(n + 1)) = Cardinality(Sent(n)) + 1
<1>1. full[n + 1] = NUL => Sent(n + 1) = Sent(n)
  BY DEF Sent
<1>2. full[n + 1] # NUL => Sent(n + 1) = Sent(n) \cup {n + 1}
  BY DEF Sent
<1>3. n + 1 \notin Sent(n)
  BY DEF Sent
<1>4. IsFiniteSet(Sent(n))
  BY SentIs
<1>5. Cardinality(Sent(n) \cup {n + 1}) = Cardinality(Sent(n)) + 1
  BY <1>3, <1>4, FS_AddElement
<1> QED
  BY <1>1, <1>2, <1>5

\* The place of a character that is handed on, among those up to the n-th.
LEMMA SentPlace ==
  ASSUME NEW n \in Nat, NEW k \in Sent(n)
  PROVE  Cardinality(Sent(k)) \in 1 .. Cardinality(Sent(n))
<1>1. k \in 1 .. n /\ k \in Nat /\ k \in Sent(k)
  BY DEF Sent
<1>2. Sent(k) \in SUBSET Sent(n)
  BY <1>1 DEF Sent
<1>3. /\ IsFiniteSet(Sent(n)) /\ Cardinality(Sent(n)) \in Nat
      /\ IsFiniteSet(Sent(k)) /\ Cardinality(Sent(k)) \in Nat
  BY <1>1, SentIs
<1>4. Cardinality(Sent(k)) <= Cardinality(Sent(n))
  BY <1>2, <1>3, FS_Subset
<1>5. Cardinality(Sent(k)) # 0
  BY <1>1, <1>3, FS_EmptySet
<1> QED
  BY <1>3, <1>4, <1>5

-----------------------------------------------------------------------------
(* Initially, and from every step.                                         *)

LEMMA CallIs ==
  ASSUME PInv
  PROVE  /\ Maxlen(call) \in 0 .. SizeMax /\ SizeMax \in Nat
         /\ Sequence(call.format) /\ Sequence(call.va)
         /\ ~(Stores /\ Hands)
<1>1. /\ call.count \in 0 .. SizeMax /\ SizeMax \in Nat
      /\ Matches(call.format, call.va)
  BY PrintfAssumption, Zenon DEF PInv
<1> QED
  BY <1>1 DEF Maxlen, Matches, Stores, Hands

\* The loop is at an item that finds its arguments.
LEMMA Here ==
  ASSUME PInv, format # <<>>
  PROVE  Sequence(va) /\ Finds(Head(format), va, 0)
<1>1. Sequence(call.format) /\ Sequence(call.va) /\ Len(call.format) \in Nat
  BY CallIs DEF Sequence
<1>2. PICK at \in [1 .. Len(call.format) + 1 -> 0 .. Len(call.va)] :
        \E k \in 0 .. Len(call.format) :
          /\ Places(at, call.format, call.va)
          /\ Drops(call.format, k, format)
          /\ Drops(call.va, at[k + 1], va)
  BY DEF PInv, Reading
<1>3. PICK k \in 0 .. Len(call.format) :
          /\ Places(at, call.format, call.va)
          /\ Drops(call.format, k, format)
          /\ Drops(call.va, at[k + 1], va)
  BY <1>2
<1>4. Sequence(format) /\ Len(format) = Len(call.format) - k
  BY <1>3 DEF Drops
<1>5. k + 1 \in 1 .. Len(call.format) /\ k < Len(call.format)
  <2>1. Len(format) # 0 /\ Len(format) \in Nat
    BY <1>4, Short DEF Sequence
  <2> QED
    BY <1>1, <1>4, <2>1
<1>6. Head(format) = call.format[k + 1]
  BY <1>1, <1>3, <1>5, DropsOneMore
<1>7. Finds(Head(format), call.va, at[k + 1])
  BY <1>3, <1>5, <1>6 DEF Places
<1> QED
  BY <1>1, <1>3, <1>7, FindsHere DEF Drops

LEMMA InitPInv == Init => PInv
<1> SUFFICES ASSUME Init PROVE PInv
  OBVIOUS
<1>1. call \in Calls /\ format = call.format /\ va = call.va /\ text = <<>> /\ idx = 0
      /\ full = <<>> /\ line = <<>> /\ ret = None
      /\ mem = [i \in 0 .. MemSize - 1 |-> Untouched]
  BY DEF Init
<1>2. Matches(call.format, call.va)
  BY <1>1, PrintfAssumption
<1>3. Reading
  <2>1. PICK at \in [1 .. Len(call.format) + 1 -> 0 .. Len(call.va)] :
               Places(at, call.format, call.va)
    BY <1>2 DEF Matches
  <2>2. at[0 + 1] = 0 /\ 0 \in 0 .. Len(call.format)
    BY <1>2, <2>1 DEF Places, Matches, Sequence
  <2>3. Drops(call.format, 0, format) /\ Drops(call.va, at[0 + 1], va)
    BY <1>1, <1>2, <2>2, DropsNone DEF Matches
  <2> QED
    BY <2>1, <2>2, <2>3 DEF Reading
<1>4. Counting
  BY <1>1, Short DEF Counting
<1>5. Memory /\ Storing
  BY <1>1 DEF Memory, Storing
<1>6. Handing
  BY <1>1, SentNone, Short DEF Handing
<1>7. Returned
  BY <1>1, <1>5 DEF Returned, None
<1> QED
  BY <1>1, <1>3, <1>4, <1>5, <1>6, <1>7 DEF PInv

LEMMA EmitStep ==
  ASSUME PInv, Literal \/ Other \/ Integer \/ Pointer \/ Float \/ Char \/ String
  PROVE  PInv'
<1>1. text = <<>> /\ format # <<>>
  BY DEF Literal, Other, Integer, Pointer, Float, Char, String, AtItem
<1>2. PICK at \in [1 .. Len(call.format) + 1 -> 0 .. Len(call.va)] :
        \E k \in 0 .. Len(call.format) :
          /\ Places(at, call.format, call.va)
          /\ Drops(call.format, k, format)
          /\ Drops(call.va, at[k + 1], va)
  BY DEF PInv, Reading
<1>3. PICK k \in 0 .. Len(call.format) :
          /\ Places(at, call.format, call.va)
          /\ Drops(call.format, k, format)
          /\ Drops(call.va, at[k + 1], va)
  BY <1>2
<1>4. Sequence(call.format) /\ Sequence(call.va) /\ Len(call.format) \in Nat
  BY CallIs DEF Sequence
<1>5. k < Len(call.format)
  <2>1. Sequence(format) /\ Len(format) = Len(call.format) - k
    BY <1>3 DEF Drops
  <2>2. Len(format) # 0 /\ Len(format) \in Nat
    BY <1>1, <2>1, Short DEF Sequence
  <2> QED
    BY <1>4, <2>1, <2>2
<1>6. Head(format) = call.format[k + 1] /\ Drops(call.format, k + 1, Tail(format))
  BY <1>3, <1>4, <1>5, DropsOneMore
<1>7. /\ at[(k + 1) + 1] = at[k + 1] + Taken(Head(format))
      /\ Finds(Head(format), call.va, at[k + 1])
  <2>1. k + 1 \in 1 .. Len(call.format)
    BY <1>4, <1>5
  <2> QED
    BY <1>3, <1>6, <2>1 DEF Places
<1>8. PICK t, rest : Emit(t, rest) /\ Text(t) /\ Drops(va, Taken(Head(format)), rest)
  BY <1>1, Here, Emits
<1>9. Sequence(t)
  BY <1>8, TextIs
<1>10. /\ text' = t /\ full' = full \o t /\ va' = rest /\ format' = Tail(format)
       /\ call' = call /\ idx' = idx /\ mem' = mem /\ line' = line /\ ret' = ret
  BY <1>8 DEF Emit
<1>11. Reading'
  <2>1. Drops(call.va, at[(k + 1) + 1], rest)
    BY <1>3, <1>4, <1>7, <1>8, DropsFurther
  <2>2. k + 1 \in 0 .. Len(call.format)
    BY <1>4, <1>5
  <2> QED
    BY <1>2, <1>3, <1>6, <1>10, <2>1, <2>2 DEF Reading
<1>12. /\ Sequence(full) /\ idx = Len(full) /\ idx \in Nat
  BY <1>1, Short DEF PInv, Counting
<1>13. /\ Sequence(full') /\ Len(full') = Len(full) + Len(t)
       /\ \A j \in 1 .. Len(full) : full'[j] = full[j]
       /\ \A j \in 1 .. Len(t) : full'[Len(full) + j] = t[j]
  BY <1>9, <1>10, <1>12, Joined
<1>14. Counting'
  BY <1>9, <1>10, <1>12, <1>13 DEF Counting
<1>15. ret = None /\ ret' = None
  BY <1>1, <1>10 DEF PInv, Returned
<1>16. Memory' /\ Returned'
  <2>1. Memory /\ Storing
    BY <1>15 DEF PInv, Returned
  <2>2. Stores' = Stores /\ Maxlen(call)' = Maxlen(call)
    BY <1>10 DEF Stores
  <2>3. Memory'
    BY <1>10, <2>1 DEF Memory
  <2>4. ASSUME NEW j \in DOMAIN mem, j < idx PROVE full'[j + 1] = full[j + 1]
    <3>1. j \in Nat
      BY <2>1 DEF Memory
    <3>2. j + 1 \in 1 .. Len(full)
      BY <1>12, <2>4, <3>1
    <3> QED
      BY <1>13, <3>2
  <2>5. Storing'
    BY <1>10, <2>1, <2>2, <2>4 DEF Storing
  <2> QED
    BY <1>15, <2>3, <2>5 DEF Returned
<1>17. Handing'
  <2>1. Hands' = Hands
    BY <1>10 DEF Hands
  <2>2. ASSUME NEW n \in 0 .. idx PROVE Sent(n)' = Sent(n)
    <3>1. \A j \in 1 .. n : full'[j] = full[j]
      BY <1>12, <1>13, <2>2
    <3> QED
      BY <3>1 DEF Sent
  <2>3. Sent(idx)' = Sent(idx)
    BY <1>10, <1>12, <2>2
  <2>4. \A j \in Sent(idx) : j \in 0 .. idx /\ full'[j] = full[j]
    BY <1>12, <1>13 DEF Sent
  <2>5. ASSUME NEW j \in Sent(idx) PROVE Sent(j)' = Sent(j)
    BY <2>2, <2>4
  <2> QED
    BY <1>10, <2>1, <2>3, <2>4, <2>5 DEF PInv, Handing
<1> QED
  BY <1>10, <1>11, <1>14, <1>16, <1>17 DEF PInv

LEMMA OutputCharStep == ASSUME PInv, OutputChar PROVE PInv'
<1> DEFINE ch == Head(text)
<1>1. /\ text # <<>> /\ idx' = idx + 1 /\ text' = Tail(text)
      /\ call' = call /\ format' = format /\ va' = va /\ full' = full /\ ret' = ret
      /\ mem' = IF Stores /\ idx < Maxlen(call) THEN [mem EXCEPT ![idx] = ch] ELSE mem
      /\ line' = IF Hands /\ ch # NUL THEN Append(line, ch) ELSE line
  BY DEF OutputChar, Out, Stores, Hands
<1>2. /\ Sequence(text) /\ Sequence(full) /\ idx \in Nat /\ idx + Len(text) = Len(full)
      /\ \A j \in 1 .. Len(text) : text[j] = full[idx + j]
  BY DEF PInv, Counting
<1>3. /\ ch = text[1] /\ Sequence(Tail(text)) /\ Len(Tail(text)) = Len(text) - 1 /\ Len(text) >= 1
      /\ \A j \in 1 .. Len(text) - 1 : Tail(text)[j] = text[j + 1]
  BY <1>1, <1>2, Rest
<1>4. Len(text) \in Nat /\ ch = full[idx + 1]
  BY <1>2, <1>3 DEF Sequence
<1> HIDE DEF ch
<1>5. Reading'
  BY <1>1 DEF PInv, Reading
<1>6. Counting'
  <2>1. (idx + 1) + (Len(text) - 1) = Len(full)
    BY <1>2, <1>4
  <2>2. ASSUME NEW j \in 1 .. Len(text) - 1 PROVE Tail(text)[j] = full[(idx + 1) + j]
    <3>1. j + 1 \in 1 .. Len(text) /\ idx + (j + 1) = (idx + 1) + j
      BY <1>2, <1>4
    <3> QED
      BY <1>2, <1>3, <3>1
  <2> QED
    BY <1>1, <1>2, <1>3, <2>1, <2>2 DEF Counting
<1>7. ret = None /\ ret' = None
  BY <1>1 DEF PInv, Returned
<1>8. Memory' /\ Returned'
  <2>1. Memory /\ Storing
    BY <1>7 DEF PInv, Returned
  <2>2. Stores' = Stores /\ Maxlen(call)' = Maxlen(call) /\ Maxlen(call) \in Nat
    BY <1>1, CallIs DEF Stores
  <2>3. DOMAIN mem' = DOMAIN mem
    BY <1>1
  <2>4. Memory'
    BY <2>1, <2>3 DEF Memory
  <2>5. ASSUME NEW k \in DOMAIN mem
        PROVE  mem'[k] = IF Stores /\ k < Maxlen(call) /\ k < idx + 1 THEN full[k + 1] ELSE Untouched
    <3>1. k \in Nat
      BY <2>1 DEF Memory
    <3>2. mem[k] = IF Stores /\ k < Maxlen(call) /\ k < idx THEN full[k + 1] ELSE Untouched
      BY <2>1 DEF Storing
    <3>3. CASE k = idx
      <4>1. mem'[k] = IF Stores /\ k < Maxlen(call) THEN full[k + 1] ELSE mem[k]
        BY <1>1, <1>4, <3>3
      <4>2. k < idx + 1 /\ ~(k < idx)
        BY <1>2, <3>1, <3>3
      <4> QED
        BY <3>2, <4>1, <4>2, Zenon
    <3>4. CASE k # idx
      <4>1. mem'[k] = mem[k]
        BY <1>1, <3>4
      <4>2. k < idx + 1 <=> k < idx
        BY <1>2, <3>1, <3>4
      <4> QED
        BY <3>2, <4>1, <4>2, Zenon
    <3> QED
      BY <3>3, <3>4
  <2>6. Storing'
    BY <1>1, <2>2, <2>3, <2>5 DEF Storing
  <2> QED
    BY <1>7, <2>4, <2>6 DEF Returned
<1>9. Handing'
  <2>1. Hands' = Hands /\ \A n : Sent(n)' = Sent(n)
    BY <1>1 DEF Hands, Sent
  <2>2. CASE ~Hands
    BY <2>1, <2>2 DEF Handing
  <2>3. CASE Hands
    <3>1. /\ Sequence(line) /\ Len(line) = Cardinality(Sent(idx))
          /\ \A k \in Sent(idx) : line[Cardinality(Sent(k))] = full[k]
      BY <2>3 DEF PInv, Handing
    <3>2. CASE ch = NUL
      <4>1. line' = line /\ Sent(idx + 1) = Sent(idx)
        BY <1>1, <1>2, <1>4, <3>2, SentOneMore
      <4> QED
        BY <1>1, <2>1, <3>1, <4>1 DEF Handing
    <3>3. CASE ch # NUL
      <4>1. /\ Sent(idx + 1) = Sent(idx) \cup {idx + 1}
            /\ Cardinality(Sent(idx + 1)) = Cardinality(Sent(idx)) + 1
        BY <1>2, <1>4, <3>3, SentOneMore
      <4>2. line' = Append(line, ch)
        BY <1>1, <2>3, <3>3
      <4>3. /\ Sequence(line') /\ Len(line') = Len(line) + 1 /\ line'[Len(line) + 1] = ch
            /\ \A j \in 1 .. Len(line) : line'[j] = line[j]
        BY <3>1, <4>2, Appended
      <4>4. ASSUME NEW k \in Sent(idx) PROVE line'[Cardinality(Sent(k))] = full[k]
        <5>1. Cardinality(Sent(k)) \in 1 .. Len(line)
          BY <1>2, <3>1, SentPlace
        <5> QED
          BY <3>1, <4>3, <5>1
      <4>5. line'[Cardinality(Sent(idx + 1))] = full[idx + 1]
        BY <1>4, <3>1, <4>1, <4>3
      <4>6. \A k \in Sent(idx + 1) : line'[Cardinality(Sent(k))] = full[k]
        BY <4>1, <4>4, <4>5
      <4>7. Len(line') = Cardinality(Sent(idx + 1))
        BY <3>1, <4>1, <4>3
      <4> QED
        BY <1>1, <2>1, <4>3, <4>6, <4>7 DEF Handing
    <3> QED
      BY <3>2, <3>3
  <2> QED
    BY <2>2, <2>3
<1> QED
  BY <1>1, <1>5, <1>6, <1>8, <1>9 DEF PInv

\* Where the terminator goes: behind what fits, or nowhere when nothing does.
LEMMA NulIs ==
  ASSUME NEW n \in Nat, NEW max \in 0 .. SizeMax, SizeMax \in Nat
  PROVE  /\ max > 0 => NulAt(n, max) = Smaller(n, max - 1)
         /\ max = 0 => ~(NulAt(n, max) < max)
<1>1. CASE n < max
  BY <1>1 DEF NulAt, Smaller
<1>2. CASE ~(n < max) /\ max > 0
  <2>1. max - 1 \in 0 .. SizeMax
    BY <1>2
  <2>2. (max - 1) % (SizeMax + 1) = max - 1
    BY <2>1
  <2>3. Smaller(n, max - 1) = max - 1
    BY <1>2 DEF Smaller
  <2> QED
    BY <1>2, <2>2, <2>3 DEF NulAt
<1>3. CASE max = 0
  <2>1. NulAt(n, max) = (max - 1) % (SizeMax + 1)
    BY <1>3 DEF NulAt
  <2>2. (max - 1) % (SizeMax + 1) \in Nat
    BY <1>3
  <2> QED
    BY <1>3, <2>1, <2>2
<1> QED
  BY <1>1, <1>2, <1>3

LEMMA TerminateStep == ASSUME PInv, Terminate PROVE PInv'
<1> DEFINE M == Maxlen(call)
           at == NulAt(idx, M)
<1>1. /\ format = <<>> /\ text = <<>> /\ ret = None /\ ret' = idx
      /\ call' = call /\ format' = format /\ va' = va /\ text' = text /\ idx' = idx /\ full' = full
      /\ mem' = IF Stores /\ at < M THEN [mem EXCEPT ![at] = NUL] ELSE mem
      /\ line' = line
  BY DEF Terminate, Out, Stores
<1>2. M \in 0 .. SizeMax /\ SizeMax \in Nat
  BY CallIs
<1>3. /\ Memory /\ idx \in Nat /\ idx = Len(full)
      /\ \A k \in DOMAIN mem :
           mem[k] = IF Stores /\ k < M /\ k < idx THEN full[k + 1] ELSE Untouched
  BY <1>1, Short DEF PInv, Counting, Returned, Storing
<1>4. /\ M > 0 => at = Smaller(idx, M - 1)
      /\ M = 0 => ~(at < M)
  BY <1>2, <1>3, NulIs
<1> HIDE DEF at
<1>5. Stores' = Stores /\ Maxlen(call)' = M /\ M \in Nat
  BY <1>1, <1>2 DEF Stores
<1> HIDE DEF M
<1>6. DOMAIN mem' = DOMAIN mem
  BY <1>1
<1>7. Memory'
  BY <1>3, <1>6 DEF Memory
<1>9. BufferHoldsPrefix'
  <2> SUFFICES ASSUME Stores, M > 0,
                      NEW k \in DOMAIN mem
               PROVE  LET n == Smaller(Len(full), M - 1) IN
                        mem'[k] = CASE k < n -> full[k + 1]
                                    [] k = n -> NUL
                                    [] k > n -> Untouched
    BY <1>1, <1>5, <1>6 DEF BufferHoldsPrefix, Stores
  <2> DEFINE n == Smaller(idx, M - 1)
  <2>1. n \in Nat /\ n < M /\ n <= idx /\ (n = idx \/ n = M - 1)
    BY <1>3, <1>5 DEF Smaller
  <2>2. at = n
    BY <1>4
  <2> HIDE DEF n
  <2>3. k \in Nat
    BY <1>3 DEF Memory
  <2>4. mem' = [mem EXCEPT ![n] = NUL]
    BY <1>1, <2>1, <2>2
  <2>5. CASE k < n
    <3>1. mem'[k] = mem[k] /\ k < M /\ k < idx
      BY <1>3, <1>5, <2>1, <2>3, <2>4, <2>5
    <3>2. mem'[k] = full[k + 1] /\ ~(k = n) /\ ~(k > n)
      BY <1>3, <2>1, <2>3, <2>5, <3>1
    <3> QED
      BY <1>3, <2>5, <3>2 DEF n
  <2>6. CASE k = n
    <3>1. mem'[k] = NUL /\ ~(k < n)
      BY <2>1, <2>4, <2>6
    <3> QED
      BY <1>3, <2>6, <3>1 DEF n
  <2>7. CASE k > n
    <3>1. mem'[k] = mem[k] /\ ~(k < M /\ k < idx)
      BY <1>3, <1>5, <2>1, <2>3, <2>4, <2>7
    <3>2. mem'[k] = Untouched /\ ~(k < n) /\ ~(k = n)
      BY <1>3, <2>1, <2>3, <2>7, <3>1
    <3> QED
      BY <1>3, <2>7, <3>2 DEF n
  <2>8. k < n \/ k = n \/ k > n
    BY <2>1, <2>3
  <2> QED
    BY <2>5, <2>6, <2>7, <2>8, Zenon
<1>10. Returned'
  <2>1. idx \in Nat \cup {None} /\ idx # None
    BY <1>3 DEF None
  <2> QED
    BY <1>1, <1>9, <2>1 DEF Returned
<1>11. Reading' /\ Counting'
  BY <1>1 DEF PInv, Reading, Counting
<1>12. Handing'
  <2>1. Hands' = Hands /\ \A n : Sent(n)' = Sent(n)
    BY <1>1 DEF Hands, Sent
  <2> QED
    BY <1>1, <2>1 DEF PInv, Handing
<1> QED
  BY <1>1, <1>7, <1>10, <1>11, <1>12 DEF PInv

LEMMA StutterStep == ASSUME PInv, UNCHANGED vars PROVE PInv'
<1>1. /\ call' = call /\ format' = format /\ va' = va /\ text' = text /\ idx' = idx
      /\ full' = full /\ mem' = mem /\ line' = line /\ ret' = ret
  BY DEF vars
<1>2. Reading' /\ Counting' /\ Memory'
  BY <1>1 DEF PInv, Reading, Counting, Memory
<1>3. Handing'
  BY <1>1 DEF PInv, Handing, Hands, Sent
<1>4. Returned'
  BY <1>1 DEF PInv, Returned, Storing, Stores, BufferHoldsPrefix
<1> QED
  BY <1>1, <1>2, <1>3, <1>4 DEF PInv

LEMMA Invariant == Spec => []PInv
<1>1. PInv /\ [Next]_vars => PInv'
  BY EmitStep, OutputCharStep, TerminateStep, StutterStep DEF Next
<1> QED
  BY <1>1, InitPInv, PTL DEF Spec

-----------------------------------------------------------------------------
(* Types: every conversion outputs characters.                             *)

TextInv ==
  /\ Text(text) /\ Text(full) /\ Text(line)
  /\ mem \in [0 .. MemSize - 1 -> Chars \cup {Untouched}]

LEMMA TextStep == ASSUME PInv, TextInv, [Next]_vars PROVE TextInv'
<1>1. CASE Literal \/ Other \/ Integer \/ Pointer \/ Float \/ Char \/ String
  <2>1. format # <<>>
    BY <1>1 DEF Literal, Other, Integer, Pointer, Float, Char, String, AtItem
  <2>2. PICK t, rest : Emit(t, rest) /\ Text(t)
    BY <1>1, <2>1, Here, Emits
  <2>3. text' = t /\ full' = full \o t /\ mem' = mem /\ line' = line
    BY <2>2 DEF Emit
  <2>4. Text(full \o t)
    BY <2>2, TextJoined DEF TextInv
  <2> QED
    BY <2>2, <2>3, <2>4 DEF TextInv
<1>2. CASE OutputChar
  <2>1. text # <<>> /\ text' = Tail(text) /\ full' = full
    BY <1>2 DEF OutputChar
  <2>2. /\ mem' = mem \/ mem' = [mem EXCEPT ![idx] = Head(text)]
        /\ line' = line \/ line' = Append(line, Head(text))
    BY <1>2, Zenon DEF OutputChar, Out
  <2>3. Head(text) \in Chars /\ Text(Tail(text))
    BY <2>1 DEF TextInv, Text
  <2>4. Text(line')
    BY <2>2, <2>3, TextAppended, ZenonT(30) DEF TextInv
  <2>5. mem' \in [0 .. MemSize - 1 -> Chars \cup {Untouched}]
    BY <2>2, <2>3 DEF TextInv
  <2> QED
    BY <2>1, <2>3, <2>4, <2>5 DEF TextInv
<1>3. CASE Terminate
  <2>1. text' = text /\ full' = full
    BY <1>3 DEF Terminate
  <2>2. /\ mem' = mem \/ mem' = [mem EXCEPT ![NulAt(idx, Maxlen(call))] = NUL]
        /\ line' = line
    BY <1>3, Zenon DEF Terminate, Out
  <2>3. NUL \in Chars
    BY Own
  <2> QED
    BY <2>1, <2>2, <2>3 DEF TextInv
<1>4. CASE UNCHANGED vars
  BY <1>4 DEF TextInv, vars
<1> QED
  BY <1>1, <1>2, <1>3, <1>4 DEF Next

\* Whatever is converted, only characters are output, stored and sent on: no
\* conversion reads past its digits or its arguments, whatever the precision.
THEOREM PrintfTypeOK == Spec => []TypeOK
<1>1. Init => TextInv
  <2> SUFFICES ASSUME Init PROVE TextInv
    OBVIOUS
  <2>1. text = <<>> /\ full = <<>> /\ line = <<>> /\ mem = [i \in 0 .. MemSize - 1 |-> Untouched]
    BY DEF Init
  <2> QED
    BY <2>1, ShortText DEF TextInv
<1>2. PInv /\ TextInv /\ [Next]_vars => TextInv'
  BY TextStep
<1>3. PInv /\ TextInv => TypeOK
  <2> SUFFICES ASSUME PInv, TextInv PROVE TypeOK
    OBVIOUS
  <2>1. Maxlen(call) \in 0 .. SizeMax /\ idx \in Nat /\ ret \in Nat \cup {None}
    BY CallIs DEF PInv, Counting, Returned
  <2> QED
    BY <2>1, Zenon DEF TypeOK, TextInv, Text
<1> QED
  BY <1>1, <1>2, <1>3, Invariant, PTL DEF Spec

-----------------------------------------------------------------------------
(* What follows from it.                                                   *)

\* What snprintf_ leaves is the longest prefix of the text that fits, a NUL, and
\* nothing behind that.
THEOREM PrintfBufferHoldsPrefix == Spec => []BufferHoldsPrefix
<1>1. PInv => BufferHoldsPrefix
  BY Zenon DEF PInv, Returned, BufferHoldsPrefix
<1> QED
  BY <1>1, Invariant, PTL

\* The return value is the length of the text, also of what was cut off.
THEOREM PrintfReturnsFullLength == Spec => []ReturnsFullLength
<1>1. PInv => ReturnsFullLength
  <2> SUFFICES ASSUME PInv, ret # None PROVE ret = Len(full)
    BY DEF ReturnsFullLength
  <2>1. text = <<>> /\ ret = idx /\ idx \in Nat /\ idx + Len(text) = Len(full)
    BY DEF PInv, Returned, Counting
  <2> QED
    BY <2>1, Short
<1> QED
  BY <1>1, Invariant, PTL

\* The console, or fctprintf's function, gets every character but NUL once and
\* in order.
THEOREM PrintfDeliversAll == Spec => []DeliversAll
<1>1. PInv => DeliversAll
  <2> SUFFICES ASSUME PInv, ret # None, Hands
               PROVE  /\ Len(line) = Cardinality(Sent(Len(full)))
                      /\ \A k \in Sent(Len(full)) : line[Cardinality(Sent(k))] = full[k]
    BY DEF DeliversAll, Hands
  <2>1. idx = Len(full)
    BY Short DEF PInv, Returned, Counting
  <2> QED
    BY <2>1 DEF PInv, Handing
<1> QED
  BY <1>1, Invariant, PTL

-----------------------------------------------------------------------------
(* Numerals: the code's loop and the standard's division count and find    *)
(* the same digits.                                                        *)

LEMMA PowerOrder ==
  ASSUME NEW base \in Nat \ {0, 1}, NEW m \in Nat, NEW k \in Nat
  PROVE  /\ Power(base, m) <= Power(base, m + k)
         /\ k > 0 => Power(base, m) < Power(base, m + k)
<1> DEFINE G == {i \in Nat : Power(base, m + i) > Power(base, m) \/ i = 0}
<1>0. base \in Nat /\ base \in Nat \ {0}
  OBVIOUS
<1>1. 0 \in G
  OBVIOUS
<1>2. ASSUME NEW i \in Nat, i \in G PROVE i + 1 \in G
  <2>1. m + i \in Nat /\ (m + i) + 1 = m + (i + 1)
    OBVIOUS
  <2> PICK p \in Nat \ {0} : p = Power(base, m + i)
    BY <1>0, <2>1, PowerPositive
  <2> PICK q \in Nat \ {0} : q = Power(base, m)
    BY <1>0, PowerPositive
  <2>2. Power(base, m + (i + 1)) = base * p
    BY <1>0, <2>1, PowerRecursion
  <2>3. p >= q
    <3>1. CASE i = 0
      <4>1. m + i = m
        BY <3>1
      <4> QED
        BY <4>1
    <3> QED
      BY <1>2, <3>1
  <2>4. base * p >= 2 * p
    <3>1. p * 2 <= p * base
      BY ProductMonotone
    <3> QED
      BY <3>1
  <2>5. base * p > q
    BY <2>3, <2>4
  <2> QED
    BY <2>2, <2>5
<1> HIDE DEF G
<1>3. k \in G
  BY <1>1, <1>2, Induction
<1>4. Power(base, m + k) > Power(base, m) \/ k = 0
  BY <1>3 DEF G
<1>5. Power(base, m) \in Nat /\ m + 0 = m
  BY <1>0, PowerPositive
<1>6. Power(base, m + k) \in Nat
  <2>1. m + k \in Nat
    OBVIOUS
  <2> QED
    BY <1>0, <2>1, PowerPositive
<1> QED
  BY <1>4, <1>5, <1>6

\* More in the base is more in the power.
LEMMA PowerOfMore ==
  ASSUME NEW base \in Nat \ {0, 1}, NEW n \in Nat
  PROVE  Power(2, n) <= Power(base, n)
<1> DEFINE G == {i \in Nat : Power(2, i) <= Power(base, i)}
<1>0. base \in Nat /\ base \in Nat \ {0} /\ 2 \in Nat /\ 2 \in Nat \ {0} /\ 0 \in Nat
  OBVIOUS
<1>1. 0 \in G
  BY <1>0, PowerRecursion
<1>2. ASSUME NEW i \in Nat, i \in G PROVE i + 1 \in G
  <2> PICK p \in Nat : p = Power(base, i)
    BY <1>0, PowerPositive
  <2> PICK q \in Nat : q = Power(2, i)
    BY <1>0, PowerPositive
  <2>1. q <= p
    BY <1>2
  <2>2. Power(base, i + 1) = base * p /\ Power(2, i + 1) = 2 * q
    BY <1>0, PowerRecursion
  <2>3. p * 2 <= p * base
    BY ProductMonotone
  <2>4. 2 * q <= base * p
    BY <2>1, <2>3
  <2> QED
    BY <2>2, <2>4
<1> HIDE DEF G
<1>3. n \in G
  BY <1>1, <1>2, Induction
<1> QED
  BY <1>3 DEF G

\* The number of digits of value in base: the least power above it, and at
\* least one.
Long(value, base, n) ==
  /\ value < Power(base, n)
  /\ \A j \in 1 .. n - 1 : Power(base, j) <= value

LEMMA LongExists ==
  ASSUME NEW value \in Nat, NEW base \in Nat \ {0, 1}, value < Power(base, 64)
  PROVE  \E n \in 1 .. 64 : Long(value, base, n)
<1> DEFINE G == {k \in Nat : \A j \in 1 .. k : Power(base, j) <= value}
<1>0. \A j \in Nat : Power(base, j) \in Nat
  BY PowerPositive
<1>1. 0 \in G /\ 64 \notin G
  <2>1. ~(Power(base, 64) <= value)
    BY <1>0
  <2> QED
    BY <2>1
<1>2. PICK k \in Nat : k \in G /\ k + 1 \notin G
  <2> HIDE DEF G
  <2>1. ~(\A i \in Nat : i \in G)
    BY <1>1
  <2> QED
    BY <1>1, <2>1, Induction
<1>3. \A j \in 1 .. k : Power(base, j) <= value
  BY <1>2
<1>4. PICK j \in 1 .. k + 1 : ~(Power(base, j) <= value)
  BY <1>2
<1>5. j = k + 1
  BY <1>3, <1>4
<1>6. value < Power(base, k + 1)
  BY <1>0, <1>4, <1>5
<1>7. k + 1 \in 1 .. 64
  <2>1. ASSUME k >= 64 PROVE FALSE
    <3>1. 64 \in 1 .. k
      BY <2>1
    <3>2. Power(base, 64) <= value
      BY <1>3, <3>1
    <3> QED
      BY <1>0, <3>2
  <2> QED
    BY <2>1
<1>8. Long(value, base, k + 1)
  BY <1>3, <1>6 DEF Long
<1> QED
  BY <1>7, <1>8

LEMMA LongUnique ==
  ASSUME NEW value \in Nat, NEW base \in Nat \ {0, 1},
         NEW m \in 1 .. 64, Long(value, base, m), NEW n \in 1 .. 64, Long(value, base, n)
  PROVE  m = n
<1>1. Power(base, m) \in Nat /\ Power(base, n) \in Nat
  BY PowerPositive
<1>2. ASSUME m < n PROVE FALSE
  <2>1. m \in 1 .. n - 1
    BY <1>2
  <2> QED
    BY <1>1, <2>1 DEF Long
<1>3. ASSUME n < m PROVE FALSE
  <2>1. n \in 1 .. m - 1
    BY <1>3
  <2> QED
    BY <1>1, <2>1 DEF Long
<1> QED
  BY <1>2, <1>3

\* A quotient by a power is below the base when the number is below the next.
LEMMA QuotientBelow ==
  ASSUME NEW value \in Nat, NEW p \in Nat \ {0}, NEW b \in Nat
  PROVE  value \div p < b <=> value < b * p
<1> PICK q \in Nat, r \in 0 .. p - 1 : q = value \div p /\ value = (p * q) + r
  BY Quotient
<1>1. CASE q < b
  <2>1. q + 1 <= b
    BY <1>1
  <2>2. p * (q + 1) <= p * b
    BY <2>1, ProductMonotone
  <2> QED
    BY <1>1, <2>2
<1>2. CASE q >= b
  <2>1. p * b <= p * q
    BY <1>2, ProductMonotone
  <2> QED
    BY <1>2, <2>1
<1> QED
  BY <1>1, <1>2

LEMMA CountsAreLong ==
  ASSUME NEW value \in Nat, NEW base \in Nat \ {0, 1}, value < Power(base, 64)
  PROVE  /\ DigitCount(value, base) \in 1 .. 64 /\ Long(value, base, DigitCount(value, base))
         /\ NumeralLength(value, base) = DigitCount(value, base)
<1>0. base \in Nat /\ base \in Nat \ {0}
  OBVIOUS
<1> DEFINE Least1(k) == Remaining(value, base, k) = 0
                          /\ \A j \in 1 .. k - 1 : ~(Remaining(value, base, j) = 0)
           Below(k) == value \div Power(base, k - 1) < base
           Least2(k) == Below(k) /\ \A j \in 1 .. k - 1 : ~Below(j)
<1>1. \A k \in 1 .. 64 : Remaining(value, base, k) = 0 <=> value < Power(base, k)
  <2> TAKE k \in 1 .. 64
  <2>0. k \in Nat
    OBVIOUS
  <2> PICK p \in Nat \ {0} : p = Power(base, k)
    BY <1>0, <2>0, PowerPositive
  <2>1. Remaining(value, base, k) = value \div p
    BY <1>0, <2>0, RemainingIs
  <2>2. value \div p < 1 <=> value < 1 * p
    BY QuotientBelow
  <2>3. value \div p \in Nat
    BY Quotient
  <2> QED
    BY <2>1, <2>2, <2>3
<1>2. \A k \in 1 .. 64 : Below(k) <=> value < Power(base, k)
  <2> TAKE k \in 1 .. 64
  <2>0. k - 1 \in Nat /\ (k - 1) + 1 = k
    OBVIOUS
  <2> PICK p \in Nat \ {0} : p = Power(base, k - 1)
    BY <1>0, <2>0, PowerPositive
  <2>1. Power(base, k) = base * p
    BY <1>0, <2>0, PowerRecursion
  <2>2. value \div p < base <=> value < base * p
    BY <1>0, QuotientBelow
  <2> QED
    BY <2>1, <2>2
<1>3. \A k \in 1 .. 64 : Power(base, k) \in Nat
  <2>1. \A k \in 1 .. 64 : k \in Nat
    OBVIOUS
  <2> QED
    BY <1>0, <2>1, PowerPositive
<1>4. \A k \in 1 .. 64 : \A j \in 1 .. k - 1 : j \in 1 .. 64
  OBVIOUS
<1>5. \A k \in 1 .. 64 : Least1(k) <=> Long(value, base, k)
  BY <1>1, <1>3, <1>4 DEF Long
<1>6. \A k \in 1 .. 64 : Least2(k) <=> Long(value, base, k)
  <2> HIDE DEF Below
  <2> QED
    BY <1>2, <1>3, <1>4 DEF Long
<1>7. PICK n \in 1 .. 64 : Long(value, base, n)
  BY LongExists
<1> HIDE DEF Least1, Least2
<1> DEFINE c1 == CHOOSE k \in 1 .. 64 : Least1(k)
           c2 == CHOOSE k \in 1 .. 64 : Least2(k)
<1>8. DigitCount(value, base) = c1
  <2>1. \E k \in 1 .. 64 : Least1(k)
    BY <1>5, <1>7
  <2> QED
    BY <2>1, Zenon DEF DigitCount, First, Least1
<1>9. NumeralLength(value, base) = c2
  <2>1. \E k \in 1 .. 64 : Least2(k)
    BY <1>6, <1>7
  <2> QED
    BY <2>1, Zenon DEF NumeralLength, First, Least2, Below
<1>10. c1 \in 1 .. 64 /\ Least1(c1) /\ c2 \in 1 .. 64 /\ Least2(c2)
  BY <1>5, <1>6, <1>7
<1> HIDE DEF c1, c2
<1>11. Long(value, base, c1) /\ Long(value, base, c2)
  BY <1>5, <1>6, <1>10
<1>12. c1 = c2
  BY <1>10, <1>11, LongUnique
<1> QED
  BY <1>8, <1>9, <1>10, <1>11, <1>12

\* Read backwards, the code's digits are the standard's.
LEMMA FiguresReversed ==
  ASSUME NEW value \in Nat, NEW base \in Nat \ {0}, NEW n \in Nat, NEW flags
  PROVE  Reverse(Figures(value, base, n, flags)) = LastDigits(value, base, n, flags)
<1> DEFINE F == Figures(value, base, n, flags)
           L == LastDigits(value, base, n, flags)
           C(k) == Character(Remaining(value, base, k) % base, flags)
<1>1. F = [k \in 1 .. n |-> C(k - 1)]
  BY DEF Figures
<1>2. L = [k \in 1 .. n |-> C(n - k)]
  <2>1. ASSUME NEW k \in 1 .. n PROVE Character(Digit(value, base, n - k), flags) = C(n - k)
    <3>1. n - k \in Nat
      OBVIOUS
    <3>2. Remaining(value, base, n - k) = value \div Power(base, n - k)
      BY <3>1, RemainingIs
    <3> QED
      BY <3>2 DEF Digit
  <2>2. L = [k \in 1 .. n |-> Character(Digit(value, base, n - k), flags)]
    BY DEF LastDigits
  <2> HIDE DEF L, C
  <2> QED
    BY <2>1, <2>2
<1> HIDE DEF C
<1>3. Len(F) = n
  BY <1>1
<1>4. \A k \in 1 .. n : F[(n - k) + 1] = C(n - k)
  <2> TAKE k \in 1 .. n
  <2>1. (n - k) + 1 \in 1 .. n /\ ((n - k) + 1) - 1 = n - k
    OBVIOUS
  <2> QED
    BY <1>1, <2>1
<1> HIDE DEF F, L
<1>5. Reverse(F) = [k \in 1 .. n |-> F[(n - k) + 1]]
  BY <1>3 DEF Reverse
<1>6. Reverse(F) = L
  BY <1>2, <1>4, <1>5
<1> QED
  BY <1>6 DEF F, L

LEMMA ZeroDigit ==
  ASSUME NEW digit \in 0 .. 15, NEW flags PROVE Character(digit, flags) = "0" <=> digit = 0
<1>1. \A k \in 1 .. 16 : (Lower[k] = "0" <=> k = 1) /\ (Upper[k] = "0" <=> k = 1)
  BY DEF Lower, Upper
<1>2. digit + 1 \in 1 .. 16 /\ (digit + 1 = 1 <=> digit = 0)
  OBVIOUS
<1>3. (Lower[digit + 1] = "0" <=> digit = 0) /\ (Upper[digit + 1] = "0" <=> digit = 0)
  BY <1>1, <1>2
<1> QED
  BY <1>3, Zenon DEF Character

\* A numeral of a number but zero does not begin with a zero.
LEMMA FirstDigit ==
  ASSUME NEW value \in Nat \ {0}, NEW base \in Bases, NEW n \in 1 .. 64, Long(value, base, n),
         NEW flags
  PROVE  LastDigits(value, base, n, flags)[1] # "0"
<1>0. base \in Nat /\ base \in Nat \ {0} /\ base \in Nat \ {0, 1} /\ n - 1 \in Nat /\ (n - 1) + 1 = n
  BY DEF Bases
<1> PICK p \in Nat \ {0} : p = Power(base, n - 1)
  BY <1>0, PowerPositive
<1> PICK q \in Nat : q = value \div p
  BY Quotient
<1>1. value < base * p
  <2>1. Power(base, n) = base * p
    BY <1>0, PowerRecursion
  <2> QED
    BY <2>1 DEF Long
<1>2. p <= value
  <2>1. CASE n = 1
    <3>1. p = 1
      BY <1>0, <2>1, PowerRecursion
    <3> QED
      BY <3>1
  <2>2. CASE n # 1
    <3>1. n - 1 \in 1 .. n - 1
      BY <2>2
    <3> QED
      BY <3>1 DEF Long
  <2> QED
    BY <2>1, <2>2
<1>3. q < base
  BY <1>0, <1>1, QuotientBelow
<1>4. q # 0
  <2>1. q < 1 <=> value < 1 * p
    BY QuotientBelow
  <2> QED
    BY <1>2, <2>1
<1>5. q % base = q /\ q \in 0 .. 15
  BY <1>0, <1>3 DEF Bases
<1>6. LastDigits(value, base, n, flags)[1] = Character(q, flags)
  <2>1. 1 \in 1 .. n
    OBVIOUS
  <2>2. LastDigits(value, base, n, flags)[1] = Character(Digit(value, base, n - 1), flags)
    BY <2>1 DEF LastDigits
  <2>3. Digit(value, base, n - 1) = q
    BY <1>5 DEF Digit
  <2> QED
    BY <2>2, <2>3
<1> QED
  BY <1>4, <1>5, <1>6, ZeroDigit

-----------------------------------------------------------------------------
(* Joining, repeating and reversing texts.                                 *)

LEMMA Same ==
  ASSUME NEW q, Text(q), NEW r, Text(r), Len(q) = Len(r), \A k \in 1 .. Len(q) : q[k] = r[k]
  PROVE  q = r
<1>1. q = [k \in 1 .. Len(q) |-> q[k]] /\ r = [k \in 1 .. Len(r) |-> r[k]]
  BY DEF Text
<1> QED
  BY <1>1

LEMMA TextJoins ==
  ASSUME NEW q, Text(q), NEW r, Text(r)
  PROVE  /\ Text(q \o r) /\ Len(q \o r) = Len(q) + Len(r)
         /\ \A k \in 1 .. Len(q) : (q \o r)[k] = q[k]
         /\ \A k \in 1 .. Len(r) : (q \o r)[Len(q) + k] = r[k]
<1>1. Sequence(q) /\ Sequence(r)
  BY TextIs
<1> QED
  BY <1>1, Joined, TextJoined

\* Each place in a sequence of m + n is one of the first m or n behind those.
LEMMA Parts ==
  ASSUME NEW m \in Nat, NEW n \in Nat, NEW k \in 1 .. m + n
  PROVE  k \in 1 .. m \/ \E j \in 1 .. n : k = m + j
<1>1. CASE k <= m
  BY <1>1
<1>2. CASE k > m
  <2>1. k - m \in 1 .. n /\ k = m + (k - m)
    BY <1>2
  <2> QED
    BY <2>1
<1> QED
  BY <1>1, <1>2

LEMMA JoinEmpty == ASSUME NEW q, Text(q) PROVE <<>> \o q = q /\ q \o <<>> = q
BY DEF Text

LEMMA JoinAssociates ==
  ASSUME NEW q, Text(q), NEW r, Text(r), NEW s, Text(s)
  PROVE  (q \o r) \o s = q \o (r \o s)
<1> PICK x : x = q \o r
  OBVIOUS
<1> PICK y : y = r \o s
  OBVIOUS
<1>0. Len(q) \in Nat /\ Len(r) \in Nat /\ Len(s) \in Nat
  BY DEF Text
<1>1. /\ Text(x) /\ Len(x) = Len(q) + Len(r)
      /\ \A k \in 1 .. Len(q) : x[k] = q[k]
      /\ \A k \in 1 .. Len(r) : x[Len(q) + k] = r[k]
  BY TextJoins
<1>2. /\ Text(y) /\ Len(y) = Len(r) + Len(s)
      /\ \A k \in 1 .. Len(r) : y[k] = r[k]
      /\ \A k \in 1 .. Len(s) : y[Len(r) + k] = s[k]
  BY TextJoins
<1> PICK a : a = x \o s
  OBVIOUS
<1> PICK b : b = q \o y
  OBVIOUS
<1>3. /\ Text(a) /\ Len(a) = Len(x) + Len(s)
      /\ \A k \in 1 .. Len(x) : a[k] = x[k]
      /\ \A k \in 1 .. Len(s) : a[Len(x) + k] = s[k]
  BY <1>1, TextJoins
<1>4. /\ Text(b) /\ Len(b) = Len(q) + Len(y)
      /\ \A k \in 1 .. Len(q) : b[k] = q[k]
      /\ \A k \in 1 .. Len(y) : b[Len(q) + k] = y[k]
  <2>1. Text(y)
    BY <1>2
  <2> QED
    BY <2>1, TextJoins
<1>5. Len(a) = Len(b)
  BY <1>0, <1>1, <1>2, <1>3, <1>4
<1>6. ASSUME NEW k \in 1 .. Len(a) PROVE a[k] = b[k]
  <2>1. CASE k \in 1 .. Len(q)
    <3>1. k \in 1 .. Len(x)
      BY <1>0, <1>1, <2>1
    <3> QED
      BY <1>1, <1>3, <1>4, <2>1, <3>1
  <2>2. CASE k > Len(q) /\ k <= Len(q) + Len(r)
    <3> PICK j \in 1 .. Len(r) : k = Len(q) + j
      <4>1. k - Len(q) \in 1 .. Len(r)
        BY <1>0, <2>2
      <4> QED
        BY <1>0, <4>1
    <3>1. k \in 1 .. Len(x) /\ j \in 1 .. Len(y)
      BY <1>0, <1>1, <1>2
    <3> QED
      BY <1>1, <1>2, <1>3, <1>4, <3>1
  <2>3. CASE k > Len(q) + Len(r)
    <3> PICK j \in 1 .. Len(s) : k = (Len(q) + Len(r)) + j
      <4>1. k - (Len(q) + Len(r)) \in 1 .. Len(s)
        BY <1>0, <1>1, <1>3, <2>3
      <4> QED
        BY <1>0, <4>1
    <3>1. k = Len(x) + j /\ k = Len(q) + (Len(r) + j) /\ Len(r) + j \in 1 .. Len(y)
      BY <1>0, <1>1, <1>2
    <3>2. a[k] = s[j]
      BY <1>3, <3>1
    <3>3. b[k] = y[Len(r) + j] /\ y[Len(r) + j] = s[j]
      BY <1>2, <1>4, <3>1
    <3> QED
      BY <3>2, <3>3
  <2> QED
    BY <1>0, <1>3, <2>1, <2>2, <2>3
<1>7. a = b
  BY <1>3, <1>4, <1>5, <1>6, Same
<1> QED
  BY <1>7

LEMMA ReversedText ==
  ASSUME NEW q, Text(q)
  PROVE  /\ Text(Reverse(q)) /\ Len(Reverse(q)) = Len(q)
         /\ \A k \in 1 .. Len(q) : Reverse(q)[k] = q[(Len(q) - k) + 1]
<1>1. Len(q) \in Nat
  BY DEF Text
<1>2. Reverse(q) = [k \in 1 .. Len(q) |-> q[(Len(q) - k) + 1]]
  BY DEF Reverse
<1> QED
  BY <1>1, <1>2, TextReversed

LEMMA ReverseJoin ==
  ASSUME NEW q, Text(q), NEW r, Text(r)
  PROVE  Reverse(q \o r) = Reverse(r) \o Reverse(q)
<1> PICK x : x = q \o r
  OBVIOUS
<1> PICK a : a = Reverse(x)
  OBVIOUS
<1> PICK rq : rq = Reverse(q)
  OBVIOUS
<1> PICK rr : rr = Reverse(r)
  OBVIOUS
<1> PICK b : b = rr \o rq
  OBVIOUS
<1>0. Len(q) \in Nat /\ Len(r) \in Nat
  BY DEF Text
<1>1. /\ Text(x) /\ Len(x) = Len(q) + Len(r)
      /\ \A k \in 1 .. Len(q) : x[k] = q[k]
      /\ \A k \in 1 .. Len(r) : x[Len(q) + k] = r[k]
  BY TextJoins
<1>2. /\ Text(a) /\ Len(a) = Len(x)
      /\ \A k \in 1 .. Len(x) : a[k] = x[(Len(x) - k) + 1]
  BY <1>1, ReversedText
<1>3. Text(rq) /\ Len(rq) = Len(q) /\ \A k \in 1 .. Len(q) : rq[k] = q[(Len(q) - k) + 1]
  BY ReversedText
<1>4. Text(rr) /\ Len(rr) = Len(r) /\ \A k \in 1 .. Len(r) : rr[k] = r[(Len(r) - k) + 1]
  BY ReversedText
<1>5. /\ Text(b) /\ Len(b) = Len(rr) + Len(rq)
      /\ \A k \in 1 .. Len(rr) : b[k] = rr[k]
      /\ \A k \in 1 .. Len(rq) : b[Len(rr) + k] = rq[k]
  <2>1. Text(rr) /\ Text(rq)
    BY <1>3, <1>4
  <2> QED
    BY <2>1, TextJoins
<1>6. ASSUME NEW k \in 1 .. Len(r) + Len(q) PROVE a[k] = b[k]
  <2>0. a[k] = x[((Len(q) + Len(r)) - k) + 1]
    BY <1>0, <1>1, <1>2
  <2>1. CASE k \in 1 .. Len(r)
    <3>1. (Len(r) - k) + 1 \in 1 .. Len(r)
          /\ ((Len(q) + Len(r)) - k) + 1 = Len(q) + ((Len(r) - k) + 1)
      BY <1>0, <2>1
    <3>2. x[Len(q) + ((Len(r) - k) + 1)] = r[(Len(r) - k) + 1]
      BY <1>1, <3>1
    <3>3. b[k] = rr[k] /\ rr[k] = r[(Len(r) - k) + 1]
      BY <1>4, <1>5, <2>1
    <3> QED
      BY <2>0, <3>1, <3>2, <3>3
  <2>2. ASSUME NEW j \in 1 .. Len(q), k = Len(r) + j PROVE a[k] = b[k]
    <3>1. (Len(q) - j) + 1 \in 1 .. Len(q) /\ ((Len(q) + Len(r)) - k) + 1 = (Len(q) - j) + 1
      BY <1>0, <2>2
    <3>2. x[(Len(q) - j) + 1] = q[(Len(q) - j) + 1]
      BY <1>1, <3>1
    <3>3. b[k] = rq[j]
      BY <1>3, <1>4, <1>5, <2>2
    <3>4. rq[j] = q[(Len(q) - j) + 1]
      BY <1>3
    <3> QED
      BY <2>0, <3>1, <3>2, <3>3, <3>4
  <2>3. k \in 1 .. Len(r) \/ \E j \in 1 .. Len(q) : k = Len(r) + j
    BY <1>0, Parts
  <2> QED
    BY <2>1, <2>2, <2>3
<1>7. a = b
  <2>1. Len(a) = Len(b) /\ Len(a) = Len(r) + Len(q)
    BY <1>0, <1>1, <1>2, <1>3, <1>4, <1>5
  <2> QED
    BY <1>2, <1>5, <1>6, <2>1, Same
<1> QED
  BY <1>7

LEMMA ReverseShort ==
  ASSUME NEW q, Text(q), Len(q) <= 1
  PROVE  Reverse(q) = q
<1>1. /\ Text(Reverse(q)) /\ Len(Reverse(q)) = Len(q)
      /\ \A k \in 1 .. Len(q) : Reverse(q)[k] = q[(Len(q) - k) + 1]
  BY ReversedText
<1>2. Len(q) \in Nat
  BY DEF Text
<1>3. \A k \in 1 .. Len(q) : (Len(q) - k) + 1 = k
  BY <1>2
<1>4. \A k \in 1 .. Len(q) : Reverse(q)[k] = q[k]
  BY <1>1, <1>3
<1> QED
  BY <1>1, <1>4, Same

\* Copies, of a character c.
LEMMA CopiesText ==
  ASSUME NEW c \in Chars, NEW n \in Int
  PROVE  /\ Text(Copies(n, c)) /\ Len(Copies(n, c)) = (IF n > 0 THEN n ELSE 0)
         /\ \A k \in 1 .. Len(Copies(n, c)) : Copies(n, c)[k] = c
<1>1. Text(Copies(n, c))
  BY Repeated
<1>2. CASE n > 0
  <2>1. Copies(n, c) = [k \in 1 .. n |-> c] /\ n \in Nat
    BY <1>2 DEF Copies
  <2> QED
    BY <1>1, <1>2, <2>1
<1>3. CASE ~(n > 0)
  <2>1. Copies(n, c) = <<>>
    BY <1>3 DEF Copies
  <2> QED
    BY <1>1, <1>3, <2>1
<1> QED
  BY <1>2, <1>3

LEMMA NoCopies == ASSUME NEW c, NEW n \in Int, n <= 0 PROVE Copies(n, c) = <<>>
BY DEF Copies

LEMMA CopiesJoin ==
  ASSUME NEW c \in Chars, NEW m \in Nat, NEW n \in Nat
  PROVE  Copies(m, c) \o Copies(n, c) = Copies(m + n, c)
<1> PICK x : x = Copies(m, c)
  OBVIOUS
<1> PICK y : y = Copies(n, c)
  OBVIOUS
<1> PICK z : z = Copies(m + n, c)
  OBVIOUS
<1>1. Text(x) /\ Len(x) = m /\ \A k \in 1 .. m : x[k] = c
  BY CopiesText
<1>2. Text(y) /\ Len(y) = n /\ \A k \in 1 .. n : y[k] = c
  BY CopiesText
<1>3. Text(z) /\ Len(z) = m + n /\ \A k \in 1 .. m + n : z[k] = c
  BY CopiesText
<1> PICK a : a = x \o y
  OBVIOUS
<1>4. /\ Text(a) /\ Len(a) = Len(x) + Len(y)
      /\ \A k \in 1 .. Len(x) : a[k] = x[k]
      /\ \A k \in 1 .. Len(y) : a[Len(x) + k] = y[k]
  <2>1. Text(x) /\ Text(y)
    BY <1>1, <1>2
  <2> QED
    BY <2>1, TextJoins
<1>5. ASSUME NEW k \in 1 .. m + n PROVE a[k] = z[k]
  <2>0. z[k] = c
    BY <1>3
  <2>1. CASE k \in 1 .. m
    BY <1>1, <1>4, <2>0, <2>1
  <2>2. ASSUME NEW j \in 1 .. n, k = m + j PROVE a[k] = z[k]
    BY <1>1, <1>2, <1>4, <2>0, <2>2
  <2> QED
    BY <2>1, <2>2, Parts
<1>6. a = z
  <2>1. Len(a) = Len(z) /\ Len(a) = m + n
    BY <1>1, <1>2, <1>3, <1>4
  <2> QED
    BY <1>3, <1>4, <1>5, <2>1, Same
<1> QED
  BY <1>6

LEMMA OneCopy == ASSUME NEW c \in Chars PROVE Copies(1, c) = <<c>>
<1>0. 1 \in Int /\ 1 > 0
  OBVIOUS
<1>1. Text(Copies(1, c)) /\ Len(Copies(1, c)) = 1 /\ \A k \in 1 .. 1 : Copies(1, c)[k] = c
  BY <1>0, CopiesText
<1>2. Text(<<c>>) /\ Len(<<c>>) = 1 /\ <<c>>[1] = c
  BY ShortText
<1> QED
  BY <1>1, <1>2, Same

LEMMA ReverseCopies ==
  ASSUME NEW c \in Chars, NEW n \in Int PROVE Reverse(Copies(n, c)) = Copies(n, c)
<1> PICK x : x = Copies(n, c)
  OBVIOUS
<1>1. Text(x) /\ \A k \in 1 .. Len(x) : x[k] = c
  BY CopiesText
<1>2. /\ Text(Reverse(x)) /\ Len(Reverse(x)) = Len(x)
      /\ \A k \in 1 .. Len(x) : Reverse(x)[k] = x[(Len(x) - k) + 1]
  BY <1>1, ReversedText
<1>3. Len(x) \in Nat
  BY <1>1 DEF Text
<1>4. \A k \in 1 .. Len(x) : (Len(x) - k) + 1 \in 1 .. Len(x)
  BY <1>3
<1>5. \A k \in 1 .. Len(x) : Reverse(x)[k] = x[k]
  BY <1>1, <1>2, <1>4, SMTT(30)
<1>6. Reverse(x) = x
  BY <1>1, <1>2, <1>5, Same
<1> QED
  BY <1>6

\* Zeros behind a text can be cut off again.
LEMMA CutCopies ==
  ASSUME NEW q, Text(q), NEW c \in Chars, NEW n \in Nat, NEW m \in 0 .. n
  PROVE  SubSeq(q \o Copies(n, c), 1, Len(q) + m) = q \o Copies(m, c)
<1> PICK x : x = Copies(n, c)
  OBVIOUS
<1> PICK y : y = Copies(m, c)
  OBVIOUS
<1>1. Text(x) /\ Len(x) = n /\ \A k \in 1 .. n : x[k] = c
  BY CopiesText
<1>2. Text(y) /\ Len(y) = m /\ \A k \in 1 .. m : y[k] = c
  BY CopiesText
<1> PICK a : a = q \o x
  OBVIOUS
<1> PICK b : b = q \o y
  OBVIOUS
<1>0. Len(q) \in Nat /\ m \in Nat
  BY DEF Text
<1>3. /\ Text(a) /\ Len(a) = Len(q) + Len(x)
      /\ \A k \in 1 .. Len(q) : a[k] = q[k]
      /\ \A k \in 1 .. Len(x) : a[Len(q) + k] = x[k]
  BY <1>1, TextJoins
<1>4. /\ Text(b) /\ Len(b) = Len(q) + Len(y)
      /\ \A k \in 1 .. Len(q) : b[k] = q[k]
      /\ \A k \in 1 .. Len(y) : b[Len(q) + k] = y[k]
  <2>1. Text(y)
    BY <1>2
  <2> QED
    BY <2>1, TextJoins
<1> PICK h : h = Len(q) + m
  OBVIOUS
<1> PICK s : s = SubSeq(a, 1, h)
  OBVIOUS
<1>5. Text(s) /\ Len(s) = h /\ \A k \in 1 .. h : s[k] = a[k]
  <2>1. h \in 0 .. Len(a) /\ h \in Nat
    BY <1>0, <1>1, <1>3
  <2>2. Text(a)
    BY <1>3
  <2>3. Text(s)
    BY <2>1, <2>2, TextCut
  <2>4. Len(s) = h /\ \A k \in 1 .. h : s[k] = a[k]
    BY <2>1, <2>2 DEF Text
  <2> QED
    BY <2>3, <2>4
<1>6. ASSUME NEW k \in 1 .. Len(q) + m PROVE s[k] = b[k]
  <2>0. s[k] = a[k]
    BY <1>5
  <2>1. CASE k \in 1 .. Len(q)
    BY <1>3, <1>4, <2>0, <2>1
  <2>2. ASSUME NEW j \in 1 .. m, k = Len(q) + j PROVE s[k] = b[k]
    <3>1. j \in 1 .. n
      BY <2>2
    <3>2. a[k] = x[j] /\ x[j] = c
      BY <1>1, <1>3, <2>2, <3>1
    <3>3. b[k] = y[j] /\ y[j] = c
      BY <1>2, <1>4, <2>2
    <3> QED
      BY <2>0, <3>2, <3>3
  <2>3. k \in 1 .. Len(q) \/ \E j \in 1 .. m : k = Len(q) + j
    BY <1>0, Parts
  <2> QED
    BY <2>1, <2>2, <2>3
<1>7. s = b
  <2>1. Len(s) = Len(b) /\ Len(s) = Len(q) + m
    BY <1>2, <1>4, <1>5
  <2> QED
    BY <1>4, <1>5, <1>6, <2>1, Same
<1> QED
  BY <1>7

-----------------------------------------------------------------------------
(* The stages of _ntoa_format, as long as the buffer has room.             *)

LEMMA ZeroCopies ==
  ASSUME NEW n \in Int
  PROVE  Text(Copies(n, "0")) /\ Len(Copies(n, "0")) = (IF n > 0 THEN n ELSE 0)
BY Own, CopiesText

LEMMA AppendFits ==
  ASSUME NEW buf, Text(buf), NEW c \in Chars, Len(buf) < BufferSize
  PROVE  AppendIfRoom(buf, c) = buf \o <<c>>
<1>1. Append(buf, c) = buf \o <<c>>
  BY DEF Text
<1> QED
  BY <1>1, Zenon DEF AppendIfRoom

LEMMA SignLength ==
  ASSUME NEW negative \in BOOLEAN, NEW flags
  PROVE  /\ Text(Sign(negative, flags))
         /\ Len(Sign(negative, flags)) =
              (IF negative \/ flags \cap {"PLUS", "SPACE"} # {} THEN 1 ELSE 0)
<1>0. \A c : Len(<<c>>) = 1
  BY Short
<1>1. Text(Sign(negative, flags))
  BY SignIs
<1>2. CASE negative
  <2>1. Sign(negative, flags) = <<"-">>
    BY <1>2, Zenon DEF Sign
  <2> QED
    BY <1>1, <1>2, <2>1
<1>3. CASE ~negative /\ "PLUS" \in flags
  <2>1. Sign(negative, flags) = <<"+">>
    BY <1>3, Zenon DEF Sign
  <2> QED
    BY <1>1, <1>3, <2>1
<1>4. CASE ~negative /\ "PLUS" \notin flags /\ "SPACE" \in flags
  <2>1. Sign(negative, flags) = <<" ">>
    BY <1>4, Zenon DEF Sign
  <2>2. Len(Sign(negative, flags)) = 1
    BY <1>0, <2>1, Zenon
  <2> QED
    BY <1>1, <1>4, <2>2
<1>5. CASE ~negative /\ "PLUS" \notin flags /\ "SPACE" \notin flags
  <2>1. Sign(negative, flags) = <<>>
    BY <1>5, Zenon DEF Sign
  <2> QED
    BY <1>1, <1>5, <2>1
<1> QED
  BY <1>2, <1>3, <1>4, <1>5

LEMMA AddSignFits ==
  ASSUME NEW buf, Text(buf), NEW negative \in BOOLEAN, NEW flags,
         Len(buf) + Len(Sign(negative, flags)) <= BufferSize
  PROVE  AddSign(buf, negative, flags) = buf \o Sign(negative, flags)
<1>0. Len(buf) \in Nat /\ BufferSize \in Nat
  BY NtoaAssumption DEF Text
<1>1. CASE negative \/ flags \cap {"PLUS", "SPACE"} # {}
  <2>1. Len(Sign(negative, flags)) = 1
    BY <1>1, SignLength
  <2>2. Len(buf) < BufferSize
    BY <1>0, <2>1
  <2>3. \A c \in Chars : AppendIfRoom(buf, c) = buf \o <<c>>
    BY <2>2, AppendFits
  <2>4. CASE negative
    BY <2>3, <2>4, Own, Zenon DEF AddSign, Sign
  <2>5. CASE ~negative /\ "PLUS" \in flags
    BY <2>3, <2>5, Own, Zenon DEF AddSign, Sign
  <2>6. CASE ~negative /\ "PLUS" \notin flags /\ "SPACE" \in flags
    BY <2>3, <2>6, Own, Zenon DEF AddSign, Sign
  <2> QED
    BY <1>1, <2>4, <2>5, <2>6
<1>2. CASE ~negative /\ "PLUS" \notin flags /\ "SPACE" \notin flags
  <2>1. Sign(negative, flags) = <<>> /\ AddSign(buf, negative, flags) = buf
    BY <1>2, Zenon DEF AddSign, Sign
  <2> QED
    BY <2>1, JoinEmpty
<1> QED
  BY <1>1, <1>2

\* What the prefix appends to the buffer: it is written backwards.
Mark(base, flags) ==
  CASE base = 16 -> <<IF "UPPERCASE" \in flags THEN "X" ELSE "x", "0">>
    [] base = 2 -> <<"b", "0">>
    [] OTHER -> <<"0">>

\* The prefix and the digits shown, as Standard has them, when "#" is given.
HashPrefix(base, flags) ==
  CASE base = 16 -> <<"0", IF "UPPERCASE" \in flags THEN "X" ELSE "x">>
    [] base = 2 -> <<"0", "b">>
    [] OTHER -> <<>>

HashDigits(num, base) == IF base = 8 THEN <<"0">> \o num ELSE num

LEMMA MarkIs ==
  ASSUME NEW base \in Bases, NEW flags
  PROVE  /\ Text(Mark(base, flags)) /\ Text(HashPrefix(base, flags))
         /\ Text(Reverse(Mark(base, flags)))
         /\ Len(Mark(base, flags)) \in {1, 2}
         /\ base \in {2, 16} =>
              /\ Reverse(Mark(base, flags)) = HashPrefix(base, flags)
              /\ Len(Mark(base, flags)) = 2 /\ Len(HashPrefix(base, flags)) = 2
         /\ base \in {8, 10} =>
              /\ Mark(base, flags) = <<"0">> /\ Len(Mark(base, flags)) = 1
              /\ Reverse(Mark(base, flags)) = <<"0">> /\ HashPrefix(base, flags) = <<>>
<1>1. "0" \in Chars /\ "b" \in Chars /\ "x" \in Chars /\ "X" \in Chars
  BY Own
<1>2. ASSUME NEW x \in Chars
      PROVE  /\ Text(<<x, "0">>) /\ Text(<<"0", x>>) /\ Len(<<x, "0">>) = 2 /\ Len(<<"0", x>>) = 2
             /\ Reverse(<<x, "0">>) = <<"0", x>>
  <2>1. Text(<<x, "0">>) /\ Text(<<"0", x>>) /\ Len(<<x, "0">>) = 2 /\ Len(<<"0", x>>) = 2
    BY <1>1 DEF Text
  <2> PICK q : q = <<x, "0">>
    OBVIOUS
  <2>2. q[1] = x /\ q[2] = "0" /\ Len(q) = 2 /\ Text(q)
    BY <2>1
  <2>3. /\ Text(Reverse(q)) /\ Len(Reverse(q)) = 2
        /\ \A k \in 1 .. 2 : Reverse(q)[k] = q[(2 - k) + 1]
    BY <2>2, ReversedText
  <2>4. Reverse(q)[1] = "0" /\ Reverse(q)[2] = x
    BY <2>2, <2>3
  <2>5. \A k \in 1 .. 2 : Reverse(q)[k] = <<"0", x>>[k]
    BY <2>4
  <2>6. Reverse(q) = <<"0", x>>
    BY <2>1, <2>3, <2>5, Same
  <2> QED
    BY <2>1, <2>6
<1>3. CASE base = 16
  <2> DEFINE x == IF "UPPERCASE" \in flags THEN "X" ELSE "x"
  <2>1. x \in Chars
    BY <1>1
  <2> HIDE DEF x
  <2>2. Mark(16, flags) = <<x, "0">> /\ HashPrefix(16, flags) = <<"0", x>>
    BY DEF Mark, HashPrefix, x
  <2> QED
    BY <1>2, <1>3, <2>1, <2>2
<1>4. CASE base = 2
  <2>1. Mark(base, flags) = <<"b", "0">> /\ HashPrefix(base, flags) = <<"0", "b">>
    BY <1>4 DEF Mark, HashPrefix
  <2> QED
    BY <1>1, <1>2, <1>4, <2>1
<1>5. CASE base \in {8, 10}
  <2>1. Mark(base, flags) = <<"0">> /\ HashPrefix(base, flags) = <<>>
    BY <1>5 DEF Mark, HashPrefix
  <2>2. Text(<<"0">>) /\ Len(<<"0">>) = 1 /\ Text(<<>>)
    BY <1>1, ShortText
  <2>3. Reverse(<<"0">>) = <<"0">>
    <3> PICK q : q = <<"0">>
      OBVIOUS
    <3>1. Text(q) /\ Len(q) <= 1
      BY <2>2
    <3>2. Reverse(q) = q
      BY <3>1, ReverseShort
    <3> QED
      BY <3>2
  <2> QED
    BY <1>5, <2>1, <2>2, <2>3
<1> QED
  BY <1>3, <1>4, <1>5 DEF Bases

\* Prefix and digits, joined, are the number with the marks behind it reversed.
LEMMA MarkReversed ==
  ASSUME NEW base \in Bases, base # 10, NEW flags, NEW num, Text(num)
  PROVE  /\ Text(HashDigits(num, base))
         /\ Reverse(Mark(base, flags)) \o num = HashPrefix(base, flags) \o HashDigits(num, base)
         /\ Len(HashPrefix(base, flags)) + Len(HashDigits(num, base))
              = Len(Mark(base, flags)) + Len(num)
<1>0. Len(num) \in Nat
  BY DEF Text
<1>1. CASE base \in {2, 16}
  <2>1. HashDigits(num, base) = num
    BY <1>1 DEF HashDigits
  <2>2. /\ Reverse(Mark(base, flags)) = HashPrefix(base, flags)
        /\ Len(Mark(base, flags)) = 2 /\ Len(HashPrefix(base, flags)) = 2
    BY <1>0, <1>1, MarkIs
  <2> QED
    BY <2>1, <2>2
<1>2. CASE base = 8
  <2>1. Text(<<"0">>) /\ Len(<<"0">>) = 1
    BY Own, ShortText
  <2>2. Text(<<"0">> \o num) /\ Len(<<"0">> \o num) = 1 + Len(num)
    BY <2>1, TextJoins
  <2>3. HashDigits(num, base) = <<"0">> \o num
    BY <1>2 DEF HashDigits
  <2>4. /\ Mark(base, flags) = <<"0">> /\ Len(Mark(base, flags)) = 1
        /\ Reverse(Mark(base, flags)) = <<"0">> /\ HashPrefix(base, flags) = <<>>
    BY <1>0, <1>2, MarkIs
  <2>5. <<>> \o (<<"0">> \o num) = <<"0">> \o num /\ Len(<<>>) = 0
    BY <2>2, JoinEmpty
  <2>6. Reverse(Mark(base, flags)) \o num = HashPrefix(base, flags) \o HashDigits(num, base)
    BY <2>3, <2>4, <2>5
  <2>7. Len(HashPrefix(base, flags)) + Len(HashDigits(num, base)) = Len(Mark(base, flags)) + Len(num)
    BY <1>0, <2>2, <2>3, <2>4, <2>5
  <2> QED
    BY <2>2, <2>3, <2>6, <2>7
<1> QED
  BY <1>1, <1>2 DEF Bases

\* A number that is not cut gets all its marks.
LEMMA Marked ==
  ASSUME NEW kept, Text(kept), NEW base \in Bases, NEW flags,
         Len(kept) + Len(Mark(base, flags)) <= BufferSize
  PROVE  LET mark == CASE base = 16 -> AppendIfRoom(kept, IF "UPPERCASE" \in flags THEN "X" ELSE "x")
                       [] base = 2  -> AppendIfRoom(kept, "b")
                       [] OTHER     -> kept
         IN  AppendIfRoom(mark, "0") = kept \o Mark(base, flags)
<1> DEFINE x == IF "UPPERCASE" \in flags THEN "X" ELSE "x"
           mark == CASE base = 16 -> AppendIfRoom(kept, x)
                     [] base = 2  -> AppendIfRoom(kept, "b")
                     [] OTHER     -> kept
<1>1. x \in Chars /\ "b" \in Chars /\ "0" \in Chars
  BY Own
<1> HIDE DEF x
<1>0. Len(kept) \in Nat /\ BufferSize \in Nat
  BY NtoaAssumption DEF Text
<1>2. ASSUME NEW c \in Chars, Len(kept) + 2 <= BufferSize
      PROVE  AppendIfRoom(AppendIfRoom(kept, c), "0") = kept \o <<c, "0">>
  <2>1. Text(<<c>>) /\ Text(<<"0">>) /\ Len(<<c>>) = 1
    BY <1>1, ShortText
  <2>2. <<c>> \o <<"0">> = <<c, "0">>
    <3>1. <<c>> \in Seq(Chars) /\ <<"0">> \in Seq(Chars)
      BY <2>1 DEF Text
    <3>2. Text(<<c>> \o <<"0">>) /\ Len(<<c>> \o <<"0">>) = 2
          /\ (<<c>> \o <<"0">>)[1] = c /\ (<<c>> \o <<"0">>)[2] = "0"
      BY <3>1 DEF Text
    <3>3. Text(<<c, "0">>) /\ Len(<<c, "0">>) = 2 /\ <<c, "0">>[1] = c /\ <<c, "0">>[2] = "0"
      BY <1>1 DEF Text
    <3>4. \A k \in 1 .. 2 : (<<c>> \o <<"0">>)[k] = <<c, "0">>[k]
      BY <3>2, <3>3
    <3> QED
      BY <3>2, <3>3, <3>4, Same
  <2>3. Len(kept) < BufferSize
    BY <1>0, <1>2
  <2>4. AppendIfRoom(kept, c) = kept \o <<c>>
    BY <2>3, AppendFits
  <2> PICK m : m = kept \o <<c>>
    OBVIOUS
  <2>5. Text(m) /\ Len(m) = Len(kept) + 1
    BY <2>1, TextJoins
  <2>6. Len(m) < BufferSize
    BY <1>0, <1>2, <2>5
  <2>7. AppendIfRoom(m, "0") = m \o <<"0">>
    BY <1>1, <2>5, <2>6, AppendFits
  <2>8. m \o <<"0">> = kept \o (<<c>> \o <<"0">>)
    BY <2>1, JoinAssociates
  <2> QED
    BY <2>2, <2>4, <2>7, <2>8
<1>3. CASE base = 16
  <2>1. Mark(16, flags) = <<x, "0">>
    BY DEF Mark, x
  <2>2. Len(Mark(base, flags)) = 2
    BY <1>3, MarkIs
  <2>3. mark = AppendIfRoom(kept, x)
    BY <1>3
  <2>4. AppendIfRoom(AppendIfRoom(kept, x), "0") = kept \o <<x, "0">>
    BY <1>1, <1>2, <2>2
  <2> QED
    BY <1>3, <2>1, <2>3, <2>4, Zenon DEF x
<1>4. CASE base = 2
  <2>1. Mark(2, flags) = <<"b", "0">>
    BY DEF Mark
  <2>2. Len(Mark(base, flags)) = 2
    BY <1>4, MarkIs
  <2>3. mark = AppendIfRoom(kept, "b")
    BY <1>4
  <2>4. AppendIfRoom(AppendIfRoom(kept, "b"), "0") = kept \o <<"b", "0">>
    BY <1>1, <1>2, <2>2
  <2> QED
    BY <1>4, <2>1, <2>3, <2>4, Zenon DEF x
<1>5. CASE base \in {8, 10}
  <2>1. Mark(base, flags) = <<"0">> /\ Len(Mark(base, flags)) = 1
    BY <1>5, MarkIs
  <2>2. mark = kept
    BY <1>5
  <2>3. Len(kept) < BufferSize
    BY <1>0, <2>1
  <2>4. AppendIfRoom(kept, "0") = kept \o <<"0">>
    BY <1>1, <2>3, AppendFits
  <2> QED
    BY <2>1, <2>2, <2>4, Zenon DEF x
<1> QED
  BY <1>3, <1>4, <1>5 DEF Bases

LEMMA WholeCut == ASSUME NEW q, Text(q) PROVE SubSeq(q, 1, Len(q)) = q
BY DEF Text

\* A number that is not as long as its field.
LEMMA PrefixBehind ==
  ASSUME NEW buf, Text(buf), NEW base \in Bases, NEW prec, NEW width, NEW flags,
         "HASH" \in flags, "PRECISION" \in flags \/ buf = <<>> \/ Len(buf) \notin {prec, width},
         Len(buf) + Len(Mark(base, flags)) <= BufferSize
  PROVE  AddPrefix(buf, base, prec, width, flags) = buf \o Mark(base, flags)
<1> DEFINE fills  == "PRECISION" \notin flags /\ buf # <<>> /\ Len(buf) \in {prec, width}
           taken == IF ~fills THEN 0 ELSE IF base = 16 /\ Len(buf) > 1 THEN 2 ELSE 1
           kept  == SubSeq(buf, 1, Len(buf) - taken)
           mark(k) == CASE base = 16 -> AppendIfRoom(k, IF "UPPERCASE" \in flags THEN "X" ELSE "x")
                        [] base = 2  -> AppendIfRoom(k, "b")
                        [] OTHER     -> k
<1>1. taken = 0
  OBVIOUS
<1>2. AddPrefix(buf, base, prec, width, flags) = AppendIfRoom(mark(kept), "0")
  BY Zenon DEF AddPrefix
<1> HIDE DEF taken
<1>3. kept = buf
  <2>1. Len(buf) - taken = Len(buf)
    BY <1>1 DEF Text
  <2> QED
    BY <2>1, WholeCut
<1>4. AppendIfRoom(mark(buf), "0") = buf \o Mark(base, flags)
  BY Marked, SMT
<1> HIDE DEF kept, mark
<1> QED
  BY <1>2, <1>3, <1>4

\* A number that zeros make as long as its field: the marks take their place.
ZeroField(digits, base, width, flags) ==
  /\ Text(digits) /\ base \in Bases \ {2, 10} /\ width \in Nat
  /\ "HASH" \in flags /\ "PRECISION" \notin flags
  /\ Len(digits) + 2 <= width /\ width <= BufferSize

LEMMA PrefixForZeros ==
  ASSUME NEW digits, NEW base, NEW prec, NEW width, NEW flags,
         ZeroField(digits, base, width, flags)
  PROVE  AddPrefix(digits \o Copies(width - Len(digits), "0"), base, prec, width, flags)
           = (digits \o Copies((width - Len(digits)) - Len(Mark(base, flags)), "0"))
               \o Mark(base, flags)
<1> SUFFICES ASSUME Text(digits), base \in Bases, base # 2, base # 10, width \in Nat,
                    "HASH" \in flags, "PRECISION" \notin flags,
                    Len(digits) + 2 <= width, width <= BufferSize
             PROVE  AddPrefix(digits \o Copies(width - Len(digits), "0"), base, prec, width, flags)
                      = (digits \o Copies((width - Len(digits)) - Len(Mark(base, flags)), "0"))
                          \o Mark(base, flags)
  BY DEF ZeroField
<1> PICK n \in Nat : n = width - Len(digits)
  BY DEF Text
<1> PICK buf : buf = digits \o Copies(n, "0")
  OBVIOUS
<1> DEFINE fills  == "PRECISION" \notin flags /\ buf # <<>> /\ Len(buf) \in {prec, width}
           taken == IF ~fills THEN 0 ELSE IF base = 16 /\ Len(buf) > 1 THEN 2 ELSE 1
           kept  == SubSeq(buf, 1, Len(buf) - taken)
           mark(k) == CASE base = 16 -> AppendIfRoom(k, IF "UPPERCASE" \in flags THEN "X" ELSE "x")
                        [] base = 2  -> AppendIfRoom(k, "b")
                        [] OTHER     -> k
<1>0. Len(digits) \in Nat /\ n >= 2 /\ width = Len(digits) + n /\ BufferSize \in Nat
  BY NtoaAssumption DEF Text
<1>1. Text(Copies(n, "0")) /\ Len(Copies(n, "0")) = n
  BY <1>0, ZeroCopies
<1>2. Text(buf) /\ Len(buf) = width
  <2>1. Text(buf) /\ Len(buf) = Len(digits) + Len(Copies(n, "0"))
    BY <1>1, TextJoins
  <2> QED
    BY <1>0, <1>1, <2>1
<1>3. buf # <<>>
  BY <1>0, <1>2
<1>4. Len(Mark(base, flags)) \in {1, 2} /\ Text(Mark(base, flags))
      /\ (base = 16 <=> Len(Mark(base, flags)) = 2)
  <2>1. base = 16 \/ base = 8
    BY DEF Bases
  <2> QED
    BY <2>1, MarkIs
<1>5. taken = Len(Mark(base, flags))
  BY <1>0, <1>2, <1>3, <1>4
<1>6. AddPrefix(buf, base, prec, width, flags) = AppendIfRoom(mark(kept), "0")
  BY Zenon DEF AddPrefix
<1> HIDE DEF taken
<1>13. taken \in 1 .. 2
  BY <1>4, <1>5
<1> PICK m \in 0 .. n : m = n - taken
  <2>1. n - taken \in 0 .. n
    BY <1>0, <1>13
  <2> QED
    BY <2>1
<1>7. kept = digits \o Copies(m, "0")
  <2>1. Len(buf) - taken = Len(digits) + m
    BY <1>0, <1>2, <1>4, <1>5
  <2>2. SubSeq(digits \o Copies(n, "0"), 1, Len(digits) + m) = digits \o Copies(m, "0")
    BY Own, CutCopies
  <2> QED
    BY <2>1, <2>2
<1>14. ASSUME NEW q, Text(q), Len(q) + Len(Mark(base, flags)) <= BufferSize
       PROVE  AppendIfRoom(mark(q), "0") = q \o Mark(base, flags)
  BY <1>14, Marked, SMTT(30)
<1> HIDE DEF mark
<1> PICK k : k = digits \o Copies(m, "0")
  OBVIOUS
<1>8. Text(k) /\ Len(k) = Len(digits) + m
  <2>1. Text(Copies(m, "0")) /\ Len(Copies(m, "0")) = m
    BY ZeroCopies
  <2>2. Text(k) /\ Len(k) = Len(digits) + Len(Copies(m, "0"))
    BY <2>1, TextJoins
  <2> QED
    BY <2>1, <2>2
<1>9. Len(k) + Len(Mark(base, flags)) <= BufferSize
  BY <1>0, <1>4, <1>5, <1>8
<1>10. AppendIfRoom(mark(k), "0") = k \o Mark(base, flags)
  BY <1>8, <1>9, <1>14
<1> HIDE DEF kept
<1>11. AddPrefix(buf, base, prec, width, flags) = k \o Mark(base, flags)
  BY <1>6, <1>7, <1>10
<1>12. m = (width - Len(digits)) - Len(Mark(base, flags))
  BY <1>0, <1>5
<1> QED
  BY <1>11, <1>12

\* The spaces of a field; a name of its own keeps the " " from the provers.
Blanks(n) == Copies(n, " ")

LEMMA BlanksAre == ASSUME NEW n \in Int PROVE Text(Blanks(n)) /\ Len(Blanks(n)) = (IF n > 0 THEN n ELSE 0)
<1> DEFINE c == " "
<1>1. c \in Chars
  BY Own
<1> HIDE DEF c
<1>2. Text(Copies(n, c)) /\ Len(Copies(n, c)) = (IF n > 0 THEN n ELSE 0)
  BY <1>1, CopiesText
<1> QED
  BY <1>2, Zenon DEF Blanks, c

LEMMA OutRevCases ==
  ASSUME NEW buf, Text(buf), NEW width \in Int, NEW flags
  PROVE  /\ "LEFT" \in flags =>
              _out_rev(buf, width, flags) = Reverse(buf) \o Blanks(width - Len(buf))
         /\ "LEFT" \notin flags /\ "ZEROPAD" \in flags => _out_rev(buf, width, flags) = Reverse(buf)
         /\ "LEFT" \notin flags /\ "ZEROPAD" \notin flags =>
              _out_rev(buf, width, flags) = Blanks(width - Len(buf)) \o Reverse(buf)
<1>1. width - Len(buf) \in Int
  BY DEF Text
<1> PICK b : b = Blanks(width - Len(buf))
  OBVIOUS
<1> PICK r : r = Reverse(buf)
  OBVIOUS
<1>2. Text(b) /\ Text(r)
  BY <1>1, BlanksAre, TextReversed
<1>3. (flags \cap {"LEFT", "ZEROPAD"} = {}) <=> ("LEFT" \notin flags /\ "ZEROPAD" \notin flags)
  OBVIOUS
<1>4. _out_rev(buf, width, flags)
        = ((IF flags \cap {"LEFT", "ZEROPAD"} = {} THEN b ELSE <<>>) \o r)
            \o (IF "LEFT" \in flags THEN b ELSE <<>>)
  BY Zenon DEF _out_rev, Blanks
<1>5. <<>> \o r = r /\ r \o <<>> = r
  BY <1>2, JoinEmpty
<1>6. (b \o r) \o <<>> = b \o r
  <2>1. Text(b \o r)
    BY <1>2, TextJoined
  <2> QED
    BY <2>1, JoinEmpty
<1>7. CASE "LEFT" \in flags
  BY <1>3, <1>4, <1>5, <1>7, Zenon
<1>8. CASE "LEFT" \notin flags /\ "ZEROPAD" \in flags
  BY <1>3, <1>4, <1>5, <1>8, Zenon
<1>9. CASE "LEFT" \notin flags /\ "ZEROPAD" \notin flags
  BY <1>3, <1>4, <1>6, <1>9, Zenon
<1> QED
  BY <1>7, <1>8, <1>9

\* A number in its field: head and digits joined first.
LEMMA InFieldCases ==
  ASSUME NEW head, Text(head), NEW digits, Text(digits), NEW width \in Int, NEW flags
  PROVE  /\ "LEFT" \in flags =>
              InField(head, digits, width, flags)
                = (head \o digits) \o Blanks(width - Len(head \o digits))
         /\ "LEFT" \notin flags /\ "ZEROPAD" \in flags =>
              InField(head, digits, width, flags)
                = (head \o Copies((width - Len(head)) - Len(digits), "0")) \o digits
         /\ "LEFT" \notin flags /\ "ZEROPAD" \notin flags =>
              InField(head, digits, width, flags)
                = Blanks(width - Len(head \o digits)) \o (head \o digits)
<1>0. Len(head) \in Nat /\ Len(digits) \in Nat
  BY DEF Text
<1>8. (width - Len(head)) - Len(digits) \in Int
  BY <1>0
<1> PICK room \in Int : room = (width - Len(head)) - Len(digits)
  BY <1>8
<1>1. Text(head \o digits) /\ Len(head \o digits) = Len(head) + Len(digits)
  BY TextJoins
<1>2. room = width - Len(head \o digits)
  BY <1>0, <1>1
<1>3. Text(Blanks(room))
  BY BlanksAre
<1>4. (Blanks(room) \o head) \o digits = Blanks(room) \o (head \o digits)
  BY <1>3, JoinAssociates
<1>5. CASE "LEFT" \in flags
  BY <1>2, <1>5, Zenon DEF InField, Blanks
<1>6. CASE "LEFT" \notin flags /\ "ZEROPAD" \in flags
  BY <1>6, Zenon DEF InField
<1>7. CASE "LEFT" \notin flags /\ "ZEROPAD" \notin flags
  <2>1. InField(head, digits, width, flags) = (Blanks(room) \o head) \o digits
    BY <1>7, Zenon DEF InField, Blanks
  <2> QED
    BY <1>2, <1>4, <1>7, <2>1
<1> QED
  BY <1>5, <1>6, <1>7

LEMMA InFieldLength ==
  ASSUME NEW head, Text(head), NEW digits, Text(digits), NEW width \in Int, NEW flags
  PROVE  /\ Len(InField(head, digits, width, flags)) \in Nat
         /\ Len(head) + Len(digits) <= Len(InField(head, digits, width, flags))
         /\ width <= Len(InField(head, digits, width, flags))
<1>0. Len(head) \in Nat /\ Len(digits) \in Nat
  BY DEF Text
<1>1. Text(head \o digits) /\ Len(head \o digits) = Len(head) + Len(digits)
  BY TextJoins
<1> PICK both : both = head \o digits
  OBVIOUS
<1>8. width - Len(both) \in Int
  BY <1>0, <1>1
<1> PICK n \in Int : n = width - Len(both)
  BY <1>8
<1>2. Text(both) /\ Len(both) = Len(head) + Len(digits)
  BY <1>1
<1>3. Text(Blanks(n)) /\ Len(Blanks(n)) = (IF n > 0 THEN n ELSE 0)
  BY BlanksAre
<1>4. Len(both \o Blanks(n)) = Len(both) + Len(Blanks(n))
      /\ Len(Blanks(n) \o both) = Len(Blanks(n)) + Len(both)
  <2>1. Text(Blanks(n)) /\ Text(both)
    BY <1>2, <1>3
  <2> QED
    BY <2>1, TextJoins
<1>5. CASE "LEFT" \in flags
  <2>1. InField(head, digits, width, flags) = both \o Blanks(n)
    BY <1>5, InFieldCases
  <2> QED
    BY <1>0, <1>2, <1>3, <1>4, <2>1
<1>6. CASE "LEFT" \notin flags /\ "ZEROPAD" \notin flags
  <2>1. InField(head, digits, width, flags) = Blanks(n) \o both
    BY <1>6, InFieldCases
  <2> QED
    BY <1>0, <1>2, <1>3, <1>4, <2>1
<1>7. CASE "LEFT" \notin flags /\ "ZEROPAD" \in flags
  <2>0. (width - Len(head)) - Len(digits) \in Int
    BY <1>0
  <2>4. InField(head, digits, width, flags)
          = (head \o Copies((width - Len(head)) - Len(digits), "0")) \o digits
    BY <1>7, InFieldCases
  <2> PICK room \in Int : room = (width - Len(head)) - Len(digits)
    BY <2>0
  <2> PICK z : z = Copies(room, "0")
    OBVIOUS
  <2>1. Text(z) /\ Len(z) = (IF room > 0 THEN room ELSE 0)
    BY ZeroCopies
  <2> PICK hz : hz = head \o z
    OBVIOUS
  <2>2. Text(hz) /\ Len(hz) = Len(head) + Len(z)
    <3>1. Text(z)
      BY <2>1
    <3> QED
      BY <3>1, TextJoins
  <2>3. Len(hz \o digits) = Len(hz) + Len(digits)
    <3>1. Text(hz)
      BY <2>2
    <3> QED
      BY <3>1, TextJoins
  <2> QED
    BY <1>0, <2>1, <2>2, <2>3, <2>4
<1> QED
  BY <1>5, <1>6, <1>7

\* The zeros the loops append.
LEMMA ZerosFit ==
  ASSUME NEW buf, Text(buf), NEW n \in Int, n <= Len(buf) \/ n <= BufferSize
  PROVE  ZerosUpTo(buf, n) = buf \o Copies(n - Len(buf), "0")
<1>0. Len(buf) \in Nat /\ BufferSize \in Nat
  BY NtoaAssumption DEF Text
<1>1. CASE n <= Len(buf)
  <2>1. n - Len(buf) \in Int /\ n - Len(buf) <= 0
    BY <1>0, <1>1
  <2>2. Smaller(n, BufferSize) - Len(buf) \in Int /\ Smaller(n, BufferSize) - Len(buf) <= 0
    BY <1>0, <1>1, Least
  <2>3. Copies(n - Len(buf), "0") = Copies(Smaller(n, BufferSize) - Len(buf), "0")
    BY <2>1, <2>2, NoCopies
  <2> QED
    BY <2>3 DEF ZerosUpTo
<1>2. CASE n <= BufferSize
  <2>1. Smaller(n, BufferSize) = n
    BY <1>0, <1>2 DEF Smaller
  <2> QED
    BY <2>1 DEF ZerosUpTo
<1> QED
  BY <1>1, <1>2

\* Digits with zeros behind them are, read backwards, zeros before the digits.
LEMMA ZerosTurned ==
  ASSUME NEW digits, Text(digits), NEW n \in Int
  PROVE  Reverse(digits \o Copies(n, "0")) = Copies(n, "0") \o Reverse(digits)
<1>1. Text(Copies(n, "0")) /\ Reverse(Copies(n, "0")) = Copies(n, "0")
  BY Own, ZeroCopies, ReverseCopies
<1>2. Text(Copies(n, "0"))
  BY <1>1
<1>3. Reverse(digits \o Copies(n, "0")) = Reverse(Copies(n, "0")) \o Reverse(digits)
  BY <1>2, ReverseJoin
<1> QED
  BY <1>1, <1>3

-----------------------------------------------------------------------------
(* _ntoa_format and the standard's field.                                  *)

\* The marks, and the prefix and digits they make, with "#" or without.
Marks(base, flags) == IF "HASH" \in flags THEN Mark(base, flags) ELSE <<>>
ShownPrefix(base, flags) == IF "HASH" \in flags THEN HashPrefix(base, flags) ELSE <<>>
ShownDigits(num, base, flags) == IF "HASH" \in flags THEN HashDigits(num, base) ELSE num

LEMMA ShownIs ==
  ASSUME NEW base \in Bases, NEW flags, "HASH" \in flags => base # 10, NEW num, Text(num)
  PROVE  /\ Text(Marks(base, flags)) /\ Text(Reverse(Marks(base, flags)))
         /\ Text(ShownPrefix(base, flags)) /\ Text(ShownDigits(num, base, flags))
         /\ Reverse(Marks(base, flags)) \o num
              = ShownPrefix(base, flags) \o ShownDigits(num, base, flags)
         /\ Len(ShownPrefix(base, flags)) + Len(ShownDigits(num, base, flags))
              = Len(Marks(base, flags)) + Len(num)
<1>1. CASE "HASH" \in flags
  <2>1. base # 10
    BY <1>1
  <2>2. /\ Text(HashDigits(num, base))
        /\ Reverse(Mark(base, flags)) \o num = HashPrefix(base, flags) \o HashDigits(num, base)
        /\ Len(HashPrefix(base, flags)) + Len(HashDigits(num, base))
             = Len(Mark(base, flags)) + Len(num)
    BY <2>1, MarkReversed
  <2>3. /\ Text(Mark(base, flags)) /\ Text(HashPrefix(base, flags))
        /\ Text(Reverse(Mark(base, flags)))
    BY MarkIs
  <2> QED
    BY <1>1, <2>2, <2>3, Zenon DEF Marks, ShownPrefix, ShownDigits
<1>2. CASE "HASH" \notin flags
  <2>1. /\ Marks(base, flags) = <<>> /\ ShownPrefix(base, flags) = <<>>
        /\ ShownDigits(num, base, flags) = num
    BY <1>2 DEF Marks, ShownPrefix, ShownDigits
  <2>2. Text(<<>>) /\ Len(<<>>) = 0 /\ Reverse(<<>>) = <<>> /\ <<>> \o num = num
    <3>1. Text(<<>>) /\ Len(<<>>) = 0 /\ Len(<<>>) <= 1
      BY ShortText
    <3>2. Reverse(<<>>) = <<>>
      BY <3>1, ReverseShort
    <3> QED
      BY <3>1, <3>2, JoinEmpty
  <2> QED
    BY <2>1, <2>2
<1> QED
  BY <1>1, <1>2

LEMMA PrefixAdded ==
  ASSUME NEW buf, Text(buf), NEW base \in Bases, NEW prec, NEW width, NEW flags,
         "HASH" \in flags =>
           ("PRECISION" \in flags \/ buf = <<>> \/ Len(buf) \notin {prec, width}),
         Len(buf) + Len(Marks(base, flags)) <= BufferSize
  PROVE  AddPrefix(buf, base, prec, width, flags) = buf \o Marks(base, flags)
<1>1. CASE "HASH" \in flags
  <2>1. Marks(base, flags) = Mark(base, flags)
    BY <1>1 DEF Marks
  <2> QED
    BY <1>1, <2>1, PrefixBehind
<1>2. CASE "HASH" \notin flags
  <2>1. Marks(base, flags) = <<>> /\ AddPrefix(buf, base, prec, width, flags) = buf
    BY <1>2, Zenon DEF Marks, AddPrefix
  <2> QED
    BY <2>1, JoinEmpty
<1> QED
  BY <1>1, <1>2

\* Digits, marks and sign in the buffer are sign, prefix and digits in the text.
Pieces(digits, marks, sign, prefix, shown) ==
  /\ Text(digits) /\ Text(marks) /\ Text(sign) /\ Len(sign) <= 1 /\ Text(prefix) /\ Text(shown)
  /\ Reverse(marks) \o Reverse(digits) = prefix \o shown

LEMMA Turned ==
  ASSUME NEW digits, NEW marks, NEW sign, NEW prefix, NEW shown,
         Pieces(digits, marks, sign, prefix, shown)
  PROVE  Reverse((digits \o marks) \o sign) = (sign \o prefix) \o shown
<1>5. Text(digits) /\ Text(marks) /\ Text(sign) /\ Len(sign) <= 1 /\ Text(prefix) /\ Text(shown)
  BY DEF Pieces
<1>6. Reverse(marks) \o Reverse(digits) = prefix \o shown
  BY DEF Pieces
<1>4. sign \o (prefix \o shown) = (sign \o prefix) \o shown
  BY <1>5, JoinAssociates
<1> PICK dm : dm = digits \o marks
  OBVIOUS
<1>1. Text(dm) /\ Reverse(dm) = Reverse(marks) \o Reverse(digits)
  BY <1>5, TextJoined, ReverseJoin
<1>2. Reverse(sign) = sign
  BY <1>5, ReverseShort
<1>3. Reverse(dm \o sign) = Reverse(sign) \o Reverse(dm)
  BY <1>1, <1>5, ReverseJoin
<1> QED
  BY <1>1, <1>2, <1>3, <1>4, <1>6

\* A conversion, of digits read backwards, that keeps to the standard.
Fits(digits, negative, base, prec, width, flags) ==
  /\ "PRECISION" \notin flags => prec = 0
  /\ "ZEROPAD" \in flags => "PRECISION" \notin flags
  /\ "HASH" \in flags => /\ base # 10 /\ ~negative /\ flags \cap {"PLUS", "SPACE"} = {}
                         /\ "PRECISION" \notin flags => width \notin {Len(digits), Len(digits) + 1}
                         /\ base = 2 => "ZEROPAD" \notin flags
  /\ "LEFT" \in flags => prec <= Len(digits)
  /\ Len(InField(Sign(negative, flags) \o ShownPrefix(base, flags),
                 ShownDigits(Copies(prec - Len(digits), "0") \o Reverse(digits), base, flags),
                 IF "ZEROPAD" \in flags THEN width ELSE 0, flags)) <= BufferSize

\* The lengths that keep the buffer from running out.
LEMMA Room ==
  ASSUME NEW digits, Text(digits), NEW negative \in BOOLEAN, NEW base \in Bases,
         NEW prec \in Nat, NEW width \in Nat, NEW flags,
         Fits(digits, negative, base, prec, width, flags)
  PROVE  LET num == Copies(prec - Len(digits), "0") \o Reverse(digits)
             sign == Sign(negative, flags)
             shown == ShownDigits(num, base, flags)
         IN  /\ Text(num) /\ Text(sign) /\ Text(shown) /\ Text(ShownPrefix(base, flags))
             /\ Text(Marks(base, flags)) /\ Text(sign \o ShownPrefix(base, flags))
             /\ Len(num) = (IF prec > Len(digits) THEN prec ELSE Len(digits))
             /\ Len((sign \o ShownPrefix(base, flags)) \o shown)
                  = Len(sign) + (Len(Marks(base, flags)) + Len(num))
             /\ Len(sign) + (Len(Marks(base, flags)) + Len(num)) <= BufferSize
             /\ "ZEROPAD" \in flags => width <= BufferSize
<1>14. ASSUME NEW q, Text(q)
       PROVE  /\ Text(ShownPrefix(base, flags)) /\ Text(ShownDigits(q, base, flags))
              /\ Text(Marks(base, flags))
              /\ Len(ShownPrefix(base, flags)) + Len(ShownDigits(q, base, flags))
                   = Len(Marks(base, flags)) + Len(q)
  <2>1. "HASH" \in flags => base # 10
    BY DEF Fits
  <2> QED
    BY <1>14, <2>1, ShownIs
<1> PICK num : num = Copies(prec - Len(digits), "0") \o Reverse(digits)
  OBVIOUS
<1> PICK sign : sign = Sign(negative, flags)
  OBVIOUS
<1> PICK prefix : prefix = ShownPrefix(base, flags)
  OBVIOUS
<1> PICK shown : shown = ShownDigits(num, base, flags)
  OBVIOUS
<1>0. Len(digits) \in Nat /\ BufferSize \in Nat /\ prec - Len(digits) \in Int
  BY NtoaAssumption DEF Text
<1>1. Text(num) /\ Len(num) = (IF prec > Len(digits) THEN prec ELSE Len(digits))
  <2> PICK z : z = Copies(prec - Len(digits), "0")
    OBVIOUS
  <2> PICK r : r = Reverse(digits)
    OBVIOUS
  <2>1. Text(z) /\ Len(z) = (IF prec - Len(digits) > 0 THEN prec - Len(digits) ELSE 0)
    BY <1>0, ZeroCopies
  <2>2. Text(r) /\ Len(r) = Len(digits)
    BY ReversedText
  <2>3. Text(num) /\ Len(num) = Len(z) + Len(r)
    <3>1. Text(z) /\ Text(r)
      BY <2>1, <2>2
    <3> QED
      BY <3>1, TextJoins
  <2> QED
    BY <1>0, <2>1, <2>2, <2>3
<1>2. Text(num)
  BY <1>1
<1>3. Text(sign) /\ Len(sign) \in Nat
  BY SignIs DEF Text
<1>5. /\ Text(prefix) /\ Text(shown) /\ Text(Marks(base, flags))
      /\ Len(prefix) + Len(shown) = Len(Marks(base, flags)) + Len(num)
  <2>1. /\ Text(ShownPrefix(base, flags)) /\ Text(ShownDigits(num, base, flags))
        /\ Text(Marks(base, flags))
        /\ Len(ShownPrefix(base, flags)) + Len(ShownDigits(num, base, flags))
             = Len(Marks(base, flags)) + Len(num)
    BY <1>2, <1>14
  <2> QED
    BY <2>1, Zenon
<1> PICK head : head = sign \o prefix
  OBVIOUS
<1>6. Text(head) /\ Len(head) = Len(sign) + Len(prefix)
  <2>1. Text(sign) /\ Text(prefix)
    BY <1>3, <1>5
  <2> QED
    BY <2>1, TextJoins
<1>7. Len(head \o shown) = Len(head) + Len(shown)
  <2>1. Text(head) /\ Text(shown)
    BY <1>5, <1>6
  <2> QED
    BY <2>1, TextJoins
<1> PICK field \in Nat : field = IF "ZEROPAD" \in flags THEN width ELSE 0
  OBVIOUS
<1>8. /\ Len(InField(head, shown, field, flags)) \in Nat
      /\ Len(head) + Len(shown) <= Len(InField(head, shown, field, flags))
      /\ field <= Len(InField(head, shown, field, flags))
  <2>1. Text(head) /\ Text(shown) /\ field \in Int
    BY <1>5, <1>6
  <2> QED
    BY <2>1, InFieldLength
<1>9. Len(InField(head, shown, field, flags)) <= BufferSize
  BY Zenon DEF Fits
<1>10. Len(prefix) \in Nat /\ Len(shown) \in Nat /\ Len(Marks(base, flags)) \in Nat
       /\ Len(num) \in Nat
  BY <1>1, <1>5 DEF Text
<1>11. Len(head \o shown) = Len(sign) + (Len(Marks(base, flags)) + Len(num))
  <2>1. Len(head \o shown) = (Len(sign) + Len(prefix)) + Len(shown)
    BY <1>6, <1>7, Zenon
  <2>2. (Len(sign) + Len(prefix)) + Len(shown) = Len(sign) + (Len(prefix) + Len(shown))
    <3>1. Len(sign) \in Nat /\ Len(prefix) \in Nat /\ Len(shown) \in Nat
      BY <1>3, <1>10
    <3> QED
      BY <3>1, SMT
  <2> QED
    BY <1>5, <2>1, <2>2, Zenon
<1>12. Len(sign) + (Len(Marks(base, flags)) + Len(num)) <= BufferSize
  BY <1>0, <1>3, <1>7, <1>8, <1>9, <1>10, <1>11
<1>13. "ZEROPAD" \in flags => width <= BufferSize
  BY <1>0, <1>8, <1>9
<1> QED
  BY <1>1, <1>3, <1>5, <1>6, <1>11, <1>12, <1>13

LEMMA SignShort ==
  ASSUME NEW negative \in BOOLEAN, NEW flags
  PROVE  Len(Sign(negative, flags)) \in Nat /\ Len(Sign(negative, flags)) <= 1
<1>1. 0 \in Nat /\ 1 \in Nat /\ 0 <= 1 /\ 1 <= 1
  OBVIOUS
<1> QED
  BY <1>1, SignLength, Zenon

\* A text that says what the field does, as wide as the field.
Shows(buf, head, shown) ==
  Text(buf) /\ Text(head) /\ Text(shown) /\ Reverse(buf) = head \o shown

LEMMA OutInField ==
  ASSUME NEW buf, NEW head, NEW shown, Shows(buf, head, shown), NEW width \in Int,
         NEW flags, "LEFT" \in flags \/ "ZEROPAD" \notin flags
  PROVE  _out_rev(buf, width, flags) = InField(head, shown, width, flags)
<1>4. Text(buf) /\ Text(head) /\ Text(shown)
  BY DEF Shows
<1>5. Reverse(buf) = head \o shown
  BY DEF Shows
<1>1. Len(buf) = Len(Reverse(buf))
  BY <1>4, ReversedText
<1>2. CASE "LEFT" \in flags
  <2>1. _out_rev(buf, width, flags) = Reverse(buf) \o Blanks(width - Len(buf))
    BY <1>2, <1>4, OutRevCases
  <2>2. InField(head, shown, width, flags)
          = (head \o shown) \o Blanks(width - Len(head \o shown))
    BY <1>2, <1>4, InFieldCases
  <2> QED
    BY <1>1, <1>5, <2>1, <2>2, Zenon
<1>3. CASE "LEFT" \notin flags /\ "ZEROPAD" \notin flags
  <2>1. _out_rev(buf, width, flags) = Blanks(width - Len(buf)) \o Reverse(buf)
    BY <1>3, <1>4, OutRevCases
  <2>2. InField(head, shown, width, flags)
          = Blanks(width - Len(head \o shown)) \o (head \o shown)
    BY <1>3, <1>4, InFieldCases
  <2> QED
    BY <1>1, <1>5, <2>1, <2>2, Zenon
<1> QED
  BY <1>2, <1>3

\* A number that is not padded with zeros up to its width.
LEMMA PlainConforms ==
  ASSUME NEW digits, Text(digits), NEW negative \in BOOLEAN, NEW base \in Bases,
         NEW prec \in Nat, NEW width \in Nat, NEW flags,
         Fits(digits, negative, base, prec, width, flags), "LEFT" \in flags \/ "ZEROPAD" \notin flags
  PROVE  _ntoa_format(digits, negative, base, prec, width, flags)
           = InField(Sign(negative, flags) \o ShownPrefix(base, flags),
                     ShownDigits(Copies(prec - Len(digits), "0") \o Reverse(digits), base, flags),
                     width, flags)
<1> DEFINE zeros == Copies(prec - Len(digits), "0")
           num == zeros \o Reverse(digits)
           sign == Sign(negative, flags)
           prefix == ShownPrefix(base, flags)
           shown == ShownDigits(num, base, flags)
           marks == Marks(base, flags)
           long == digits \o zeros
           marked == long \o marks
           whole == marked \o sign
<1>0. Len(digits) \in Nat /\ BufferSize \in Nat /\ prec - Len(digits) \in Int
  BY NtoaAssumption DEF Text
<1>1. /\ Text(num) /\ Text(sign) /\ Text(shown) /\ Text(prefix) /\ Text(marks)
      /\ Text(sign \o prefix)
      /\ Len(num) = (IF prec > Len(digits) THEN prec ELSE Len(digits))
      /\ Len(sign) + (Len(marks) + Len(num)) <= BufferSize
  BY Room, ZenonT(30)
<1>2. Reverse(marks) \o num = prefix \o shown
  <2>1. "HASH" \in flags => base # 10
    BY DEF Fits
  <2>2. Text(num)
    BY <1>1
  <2> HIDE DEF num
  <2> QED
    BY <2>1, <2>2, ShownIs
<1>18. Len(sign) \in Nat /\ Len(sign) <= 1
  BY SignShort, Zenon
<1>3. Len(marks) \in Nat /\ Len(num) \in Nat
  BY <1>1 DEF Text
<1>4. Text(zeros) /\ Len(zeros) = (IF prec > Len(digits) THEN prec - Len(digits) ELSE 0)
  <2>1. Text(zeros) /\ Len(zeros) = (IF prec - Len(digits) > 0 THEN prec - Len(digits) ELSE 0)
    BY <1>0, ZeroCopies
  <2> QED
    BY <1>0, <2>1
<1>5. Reverse(long) = num
  BY <1>0, ZerosTurned
<1> HIDE DEF num, sign, prefix, shown, marks
<1>6. PadZeros(digits, prec, width, flags) = long
  <2>1. CASE "LEFT" \in flags
    <3>1. prec - Len(digits) <= 0
      BY <1>0, <2>1 DEF Fits
    <3>2. zeros = <<>>
      BY <1>0, <3>1, NoCopies
    <3>3. long = digits
      BY <3>2, JoinEmpty
    <3> QED
      BY <2>1, <3>3, Zenon DEF PadZeros
  <2>2. CASE "LEFT" \notin flags /\ "ZEROPAD" \notin flags
    <3>1. prec <= Len(digits) \/ prec <= BufferSize
      BY <1>0, <1>1, <1>3, <1>18
    <3>2. ZerosUpTo(digits, prec) = long
      BY <3>1, ZerosFit
    <3> QED
      BY <2>2, <3>2, Zenon DEF PadZeros
  <2> QED
    BY <2>1, <2>2
<1>7. Text(long) /\ Len(long) = Len(num)
  <2>1. Text(zeros)
    BY <1>4
  <2>2. Text(long) /\ Len(long) = Len(digits) + Len(zeros)
    <3> HIDE DEF zeros
    <3> QED
      BY <2>1, TextJoins
  <2> HIDE DEF long
  <2> QED
    BY <1>0, <1>1, <1>4, <2>2
<1> HIDE DEF zeros, long
<1>8. AddPrefix(long, base, prec, width, flags) = marked
  <2>1. Len(long) + Len(marks) <= BufferSize
    BY <1>0, <1>1, <1>3, <1>7, <1>18
  <2>2. ASSUME "HASH" \in flags, "PRECISION" \notin flags, long # <<>>
        PROVE  Len(long) \notin {prec, width}
    <3>1. prec = 0 /\ width \notin {Len(digits), Len(digits) + 1}
      BY <2>2 DEF Fits
    <3>2. Len(long) = Len(digits)
      BY <1>0, <1>1, <1>7, <3>1
    <3>3. Len(long) # 0
      BY <1>7, <2>2 DEF Text
    <3> QED
      BY <3>1, <3>2, <3>3
  <2> QED
    BY <1>7, <2>1, <2>2, PrefixAdded DEF marks
<1>9. Text(marked) /\ Len(marked) = Len(long) + Len(marks)
  <2>1. Text(long) /\ Text(marks)
    BY <1>1, <1>7
  <2> QED
    BY <2>1, TextJoins
<1> HIDE DEF marked
<1>10. AddSign(marked, negative, flags) = whole
  <2>1. Len(marked) + Len(sign) <= BufferSize
    BY <1>0, <1>1, <1>3, <1>7, <1>9, <1>18
  <2> QED
    BY <1>9, <2>1, AddSignFits DEF sign
<1>11. Text(whole)
  BY <1>1, <1>9, TextJoined
<1>12. Reverse(whole) = (sign \o prefix) \o shown
  <2>1. Reverse(marks) \o Reverse(long) = prefix \o shown
    BY <1>2, <1>5
  <2>2. Len(sign) <= 1
    BY <1>18, Zenon
  <2>3. Text(long) /\ Text(marks) /\ Text(sign) /\ Text(prefix) /\ Text(shown)
    BY <1>1, <1>7, Zenon
  <2>5. Pieces(long, marks, sign, prefix, shown)
    BY <2>1, <2>2, <2>3, Zenon DEF Pieces
  <2>4. Reverse((long \o marks) \o sign) = (sign \o prefix) \o shown
    BY <2>5, Turned
  <2> QED
    BY <2>4, Zenon DEF marked
<1> HIDE DEF whole
<1>14. _ntoa_format(digits, negative, base, prec, width, flags) = _out_rev(whole, width, flags)
  <2> DEFINE w == IF "LEFT" \notin flags /\ width > 0 /\ "ZEROPAD" \in flags
                       /\ (negative \/ flags \cap {"PLUS", "SPACE"} # {})
                  THEN width - 1 ELSE width
  <2>1. w = width
    OBVIOUS
  <2>2. _ntoa_format(digits, negative, base, prec, width, flags)
          = _out_rev(AddSign(AddPrefix(PadZeros(digits, prec, w, flags), base, prec, w, flags),
                             negative, flags), w, flags)
    BY Zenon DEF _ntoa_format
  <2> HIDE DEF w
  <2> QED
    BY <1>6, <1>8, <1>10, <2>1, <2>2
<1> DEFINE head == sign \o prefix
<1>15. Shows(whole, head, shown)
  BY <1>1, <1>11, <1>12, Zenon DEF Shows
<1> HIDE DEF head
<1>16. _out_rev(whole, width, flags) = InField(head, shown, width, flags)
  <2>1. width \in Int
    OBVIOUS
  <2> QED
    BY <1>15, <2>1, OutInField
<1> QED
  BY <1>14, <1>16, Zenon DEF head, sign, prefix, shown, num, zeros

LEMMA ZeroPadding ==
  ASSUME NEW digits, Text(digits), NEW w \in Nat, w <= Len(digits) \/ w <= BufferSize,
         NEW flags, "ZEROPAD" \in flags, "LEFT" \notin flags
  PROVE  PadZeros(digits, 0, w, flags) = digits \o Copies(w - Len(digits), "0")
<1>0. Len(digits) \in Nat /\ 0 \in Int /\ 0 <= Len(digits) /\ 0 - Len(digits) \in Int
      /\ 0 - Len(digits) <= 0
  BY DEF Text
<1>1. ZerosUpTo(digits, 0) = digits \o Copies(0 - Len(digits), "0")
  BY <1>0, ZerosFit
<1>2. Copies(0 - Len(digits), "0") = <<>>
  BY <1>0, NoCopies
<1>3. ZerosUpTo(digits, 0) = digits
  BY <1>1, <1>2, JoinEmpty
<1>4. ZerosUpTo(digits, w) = digits \o Copies(w - Len(digits), "0")
  BY ZerosFit
<1> QED
  BY <1>3, <1>4, Zenon DEF PadZeros

\* The width the code pads to leaves a place for the sign.
LEMMA ZeroedFormat ==
  ASSUME NEW digits, Text(digits), NEW negative \in BOOLEAN, NEW base, NEW prec,
         NEW width \in Nat, NEW flags, "ZEROPAD" \in flags, "LEFT" \notin flags
  PROVE  \E w \in Nat :
           /\ _ntoa_format(digits, negative, base, prec, width, flags)
                = _out_rev(AddSign(AddPrefix(PadZeros(digits, prec, w, flags), base, prec, w, flags),
                                   negative, flags), w, flags)
           /\ w <= width
           /\ width = w + Len(Sign(negative, flags)) \/ (width = 0 /\ w = 0)
<1> DEFINE signed == negative \/ flags \cap {"PLUS", "SPACE"} # {}
           w == IF "LEFT" \notin flags /\ width > 0 /\ "ZEROPAD" \in flags /\ signed
                THEN width - 1 ELSE width
<1>1. _ntoa_format(digits, negative, base, prec, width, flags)
        = _out_rev(AddSign(AddPrefix(PadZeros(digits, prec, w, flags), base, prec, w, flags),
                           negative, flags), w, flags)
  BY Zenon DEF _ntoa_format
<1>2. CASE signed /\ width > 0
  <2>1. w = width - 1 /\ w \in Nat /\ w <= width /\ width = w + 1
    BY <1>2
  <2>2. Len(Sign(negative, flags)) = 1
    BY <1>2, SignLength
  <2> HIDE DEF w
  <2> QED
    BY <1>1, <2>1, <2>2, Zenon
<1>3. CASE ~signed
  <2>1. w = width /\ w \in Nat /\ w <= width /\ width = w + 0
    BY <1>3
  <2>2. Len(Sign(negative, flags)) = 0
    BY <1>3, SignLength
  <2> HIDE DEF w
  <2> QED
    BY <1>1, <2>1, <2>2, Zenon
<1>4. CASE width = 0
  <2>1. w = 0 /\ w \in Nat /\ w <= width
    BY <1>4
  <2> HIDE DEF w
  <2> QED
    BY <1>1, <1>4, <2>1, Zenon
<1> QED
  BY <1>2, <1>3, <1>4

\* A zero-padded number without a prefix.
LEMMA ZeroedConforms ==
  ASSUME NEW digits, Text(digits), NEW negative \in BOOLEAN, NEW base \in Bases,
         NEW prec \in Nat, NEW width \in Nat, NEW flags,
         Fits(digits, negative, base, prec, width, flags),
         "LEFT" \notin flags, "ZEROPAD" \in flags, "HASH" \notin flags
  PROVE  _ntoa_format(digits, negative, base, prec, width, flags)
           = InField(Sign(negative, flags) \o ShownPrefix(base, flags),
                     ShownDigits(Copies(prec - Len(digits), "0") \o Reverse(digits), base, flags),
                     width, flags)
<1> DEFINE num == Reverse(digits)
           sign == Sign(negative, flags)
<1>0. Len(digits) \in Nat /\ BufferSize \in Nat /\ prec = 0
  BY NtoaAssumption DEF Text, Fits
<1>1. /\ Copies(prec - Len(digits), "0") \o Reverse(digits) = num
      /\ Text(num) /\ Len(num) = Len(digits)
  <2>1. prec - Len(digits) \in Int /\ prec - Len(digits) <= 0
    BY <1>0
  <2>2. Copies(prec - Len(digits), "0") = <<>>
    BY <2>1, NoCopies
  <2>3. Text(num) /\ Len(num) = Len(digits)
    BY ReversedText
  <2> QED
    BY <2>2, <2>3, JoinEmpty
<1>2. ShownPrefix(base, flags) = <<>> /\ Marks(base, flags) = <<>>
      /\ ShownDigits(num, base, flags) = num
  BY DEF ShownPrefix, ShownDigits, Marks
<1>3. Text(sign) /\ sign \o <<>> = sign /\ Len(sign) \in Nat /\ Len(sign) <= 1
  BY SignShort, SignIs, JoinEmpty
<1>4. Len(sign) + Len(digits) <= BufferSize /\ width <= BufferSize
  <2>1. /\ Len(sign) + (Len(Marks(base, flags)) + Len(Copies(prec - Len(digits), "0") \o Reverse(digits)))
             <= BufferSize
        /\ width <= BufferSize
    BY Room, ZenonT(30)
  <2>2. Len(<<>>) = 0
    OBVIOUS
  <2>3. Len(sign) + (0 + Len(digits)) <= BufferSize
    BY <1>1, <1>2, <2>1, <2>2, Zenon
  <2>4. 0 + Len(digits) = Len(digits)
    BY <1>0
  <2> QED
    BY <2>1, <2>3, <2>4, Zenon
<1> HIDE DEF num, sign
<1>5. PICK w \in Nat :
        /\ _ntoa_format(digits, negative, base, prec, width, flags)
             = _out_rev(AddSign(AddPrefix(PadZeros(digits, prec, w, flags), base, prec, w, flags),
                                negative, flags), w, flags)
        /\ w <= width
        /\ width = w + Len(sign) \/ (width = 0 /\ w = 0)
  BY ZeroedFormat DEF sign
<1> DEFINE zeros == Copies(w - Len(digits), "0")
           long == digits \o zeros
<1>6. PadZeros(digits, prec, w, flags) = long
  <2>1. w <= BufferSize
    BY <1>0, <1>3, <1>4, <1>5
  <2>2. PadZeros(digits, 0, w, flags) = long
    BY <2>1, ZeroPadding
  <2> QED
    BY <1>0, <2>2, Zenon
<1>7. Text(zeros) /\ Len(zeros) = (IF w - Len(digits) > 0 THEN w - Len(digits) ELSE 0)
  <2>1. w - Len(digits) \in Int
    BY <1>0
  <2> QED
    BY <2>1, ZeroCopies
<1>8. Text(zeros)
  BY <1>7
<1>9. Text(long) /\ Len(long) = Len(digits) + Len(zeros)
  BY <1>8, TextJoins
<1>10. Reverse(long) = zeros \o num
  <2>1. w - Len(digits) \in Int
    BY <1>0
  <2> QED
    BY <2>1, ZerosTurned DEF num
<1>11. zeros = Copies((width - Len(sign)) - Len(digits), "0")
  <2>1. CASE width = w + Len(sign)
    <3>1. (width - Len(sign)) - Len(digits) = w - Len(digits)
      BY <1>0, <1>3, <2>1
    <3> QED
      BY <3>1
  <2>2. CASE width = 0 /\ w = 0
    <3>1. /\ (width - Len(sign)) - Len(digits) \in Int /\ (width - Len(sign)) - Len(digits) <= 0
          /\ w - Len(digits) \in Int /\ w - Len(digits) <= 0
      BY <1>0, <1>3, <2>2
    <3> QED
      BY <3>1, NoCopies
  <2> QED
    BY <1>5, <2>1, <2>2
<1> HIDE DEF zeros, long
<1>12. AddPrefix(long, base, prec, w, flags) = long
  BY Zenon DEF AddPrefix
<1>13. AddSign(long, negative, flags) = long \o sign
  <2>1. Len(long) + Len(sign) <= BufferSize
    BY <1>0, <1>3, <1>4, <1>5, <1>7, <1>9
  <2> QED
    BY <1>9, <2>1, AddSignFits DEF sign
<1>14. Reverse(long \o sign) = sign \o (zeros \o num)
  <2>1. Text(long) /\ Text(sign)
    BY <1>3, <1>9
  <2>2. Reverse(long \o sign) = Reverse(sign) \o Reverse(long)
    BY <2>1, ReverseJoin
  <2>3. Reverse(sign) = sign
    BY <1>3, ReverseShort
  <2> QED
    BY <1>10, <2>2, <2>3
<1>15. sign \o (zeros \o num) = (sign \o zeros) \o num
  <2>1. Text(sign) /\ Text(zeros) /\ Text(num)
    BY <1>1, <1>3, <1>8
  <2> QED
    BY <2>1, JoinAssociates
<1>16. _out_rev(long \o sign, w, flags) = Reverse(long \o sign)
  <2>1. Text(long \o sign)
    BY <1>3, <1>9, TextJoined
  <2>2. w \in Int
    OBVIOUS
  <2> QED
    BY <2>1, <2>2, OutRevCases
<1>17. InField(sign, num, width, flags)
         = (sign \o Copies((width - Len(sign)) - Len(num), "0")) \o num
  <2>1. Text(sign) /\ Text(num) /\ width \in Int
    BY <1>1, <1>3
  <2> QED
    BY <2>1, InFieldCases
<1>18. _ntoa_format(digits, negative, base, prec, width, flags) = InField(sign, num, width, flags)
  BY <1>1, <1>5, <1>6, <1>11, <1>12, <1>13, <1>14, <1>15, <1>16, <1>17, Zenon
<1> QED
  BY <1>1, <1>2, <1>3, <1>18, Zenon DEF sign

\* The marks of "#" behind a number's zeros are its prefix before them; the
\* octal one is a zero itself.
Prefixed(base, num, n) == base \in Bases \ {2, 10} /\ Text(num) /\ n \in Nat

LEMMA ZerosBetween ==
  ASSUME NEW base, NEW flags, NEW num, NEW n, Prefixed(base, num, n)
  PROVE  Reverse(Mark(base, flags)) \o (Copies(n, "0") \o num)
           = (HashPrefix(base, flags) \o Copies(n, "0")) \o HashDigits(num, base)
<1> SUFFICES ASSUME base \in Bases, base # 2, base # 10, Text(num), n \in Nat
             PROVE  Reverse(Mark(base, flags)) \o (Copies(n, "0") \o num)
                      = (HashPrefix(base, flags) \o Copies(n, "0")) \o HashDigits(num, base)
  BY DEF Prefixed
<1> DEFINE zeros == Copies(n, "0")
           zero == <<"0">>
<1>1. Text(zeros)
  BY ZeroCopies
<1>2. CASE base = 16
  <2>1. HashDigits(num, base) = num
    BY <1>2 DEF HashDigits
  <2>2. Reverse(Mark(base, flags)) = HashPrefix(base, flags) /\ Text(HashPrefix(base, flags))
    BY <1>2, MarkIs
  <2> HIDE DEF zeros
  <2>3. HashPrefix(base, flags) \o (zeros \o num) = (HashPrefix(base, flags) \o zeros) \o num
    BY <1>1, <2>2, JoinAssociates
  <2> QED
    BY <2>1, <2>2, <2>3, Zenon DEF zeros
<1>3. CASE base = 8
  <2>1. HashDigits(num, base) = zero \o num
    BY <1>3 DEF HashDigits
  <2>2. Reverse(Mark(base, flags)) = zero /\ HashPrefix(base, flags) = <<>>
    BY <1>3, MarkIs
  <2>3. Text(zero)
    BY Own, ShortText
  <2>4. zero \o zeros = zeros \o zero
    <3>0. "0" \in Chars
      BY Own
    <3>4. 1 \in Nat /\ n + 1 = 1 + n
      OBVIOUS
    <3>1. Copies(1, "0") = zero
      BY <3>0, OneCopy
    <3>2. Copies(1, "0") \o Copies(n, "0") = Copies(1 + n, "0")
      BY <3>0, <3>4, CopiesJoin
    <3>3. Copies(n, "0") \o Copies(1, "0") = Copies(n + 1, "0")
      BY <3>0, <3>4, CopiesJoin
    <3> QED
      BY <3>1, <3>2, <3>3, <3>4, Zenon
  <2>5. <<>> \o zeros = zeros
    BY <1>1, JoinEmpty
  <2> HIDE DEF zeros, zero
  <2>6. zero \o (zeros \o num) = (zero \o zeros) \o num
    BY <1>1, <2>3, JoinAssociates
  <2>7. (zeros \o zero) \o num = zeros \o (zero \o num)
    BY <1>1, <2>3, JoinAssociates
  <2> QED
    BY <2>1, <2>2, <2>4, <2>5, <2>6, <2>7, Zenon DEF zeros
<1> QED
  BY <1>2, <1>3 DEF Bases

\* A zero-padded number with a prefix: no sign, and the prefix either follows
\* the number or takes the place of as many zeros.
LEMMA ZeroedPrefixConforms ==
  ASSUME NEW digits, Text(digits), NEW negative \in BOOLEAN, NEW base \in Bases,
         NEW prec \in Nat, NEW width \in Nat, NEW flags,
         Fits(digits, negative, base, prec, width, flags),
         "LEFT" \notin flags, "ZEROPAD" \in flags, "HASH" \in flags
  PROVE  _ntoa_format(digits, negative, base, prec, width, flags)
           = InField(Sign(negative, flags) \o ShownPrefix(base, flags),
                     ShownDigits(Copies(prec - Len(digits), "0") \o Reverse(digits), base, flags),
                     width, flags)
<1>21. ASSUME NEW w, ZeroField(digits, base, w, flags)
       PROVE  AddPrefix(digits \o Copies(w - Len(digits), "0"), base, prec, w, flags)
                = (digits \o Copies((w - Len(digits)) - Len(Mark(base, flags)), "0"))
                    \o Mark(base, flags)
  BY <1>21, PrefixForZeros
<1> DEFINE num == Reverse(digits)
           prefix == HashPrefix(base, flags)
           shown == HashDigits(num, base)
           mark == Mark(base, flags)
           n == (width - Len(digits)) - Len(mark)
           zeros == Copies(n, "0")
           marked == (digits \o zeros) \o mark
<1>20. ASSUME NEW head, NEW body, Text(head), Text(body)
       PROVE  InField(head, body, width, flags)
                = (head \o Copies((width - Len(head)) - Len(body), "0")) \o body
  <2>1. width \in Int
    OBVIOUS
  <2> QED
    BY <1>20, <2>1, InFieldCases
<1>0. /\ Len(digits) \in Nat /\ BufferSize \in Nat /\ prec = 0 /\ base # 2 /\ base # 10 /\ ~negative
      /\ flags \cap {"PLUS", "SPACE"} = {} /\ "PRECISION" \notin flags
      /\ width < Len(digits) \/ width >= Len(digits) + 2
  <2>1. Len(digits) \in Nat /\ BufferSize \in Nat
    BY NtoaAssumption DEF Text
  <2>2. /\ prec = 0 /\ "PRECISION" \notin flags /\ base # 10 /\ base # 2 /\ ~negative
        /\ flags \cap {"PLUS", "SPACE"} = {}
        /\ width \notin {Len(digits), Len(digits) + 1}
    BY Zenon DEF Fits
  <2>4. width < Len(digits) \/ width >= Len(digits) + 2
    BY <2>1, <2>2
  <2> QED
    BY <2>1, <2>2, <2>4, Zenon
<1>1. /\ Copies(prec - Len(digits), "0") \o Reverse(digits) = num
      /\ Text(num) /\ Len(num) = Len(digits)
  <2>1. prec - Len(digits) \in Int /\ prec - Len(digits) <= 0
    BY <1>0
  <2>2. Copies(prec - Len(digits), "0") = <<>>
    BY <2>1, NoCopies
  <2>3. Text(num) /\ Len(num) = Len(digits)
    BY ReversedText
  <2> QED
    BY <2>2, <2>3, JoinEmpty
<1>2. /\ ShownPrefix(base, flags) = prefix /\ Marks(base, flags) = mark
      /\ ShownDigits(num, base, flags) = shown
  BY Zenon DEF ShownPrefix, ShownDigits, Marks
<1>3. Sign(negative, flags) = <<>> /\ Len(Sign(negative, flags)) = 0
  <2>1. "PLUS" \notin flags /\ "SPACE" \notin flags /\ ~negative
    BY <1>0
  <2>2. Sign(negative, flags) = <<>>
    BY <2>1, Zenon DEF Sign
  <2> QED
    BY <2>2
<1>4. /\ Text(mark) /\ Text(prefix) /\ Text(shown) /\ Text(Reverse(mark))
      /\ Len(mark) \in Nat /\ 1 <= Len(mark) /\ Len(mark) <= 2
      /\ Len(prefix) + Len(shown) = Len(mark) + Len(num)
      /\ Reverse(mark) \o num = prefix \o shown
  <2>1. base # 10
    BY <1>0
  <2>2. Text(num)
    BY <1>1
  <2>3. /\ Text(shown) /\ Reverse(mark) \o num = prefix \o shown
        /\ Len(prefix) + Len(shown) = Len(mark) + Len(num)
    <3> HIDE DEF num
    <3> QED
      BY <2>1, <2>2, MarkReversed
  <2>4. Len(mark) \in {1, 2} /\ Text(mark) /\ Text(prefix) /\ Text(Reverse(mark))
    BY MarkIs
  <2>5. 1 \in Nat /\ 2 \in Nat /\ 1 <= 1 /\ 1 <= 2 /\ 2 <= 2
    OBVIOUS
  <2>6. Len(mark) \in Nat /\ 1 <= Len(mark) /\ Len(mark) <= 2
    BY <2>4, <2>5, Zenon
  <2> QED
    BY <2>3, <2>4, <2>6, Zenon
<1>5. Len(mark) + Len(digits) <= BufferSize /\ width <= BufferSize
  <2>1. /\ Len(Sign(negative, flags)) + (Len(Marks(base, flags))
               + Len(Copies(prec - Len(digits), "0") \o Reverse(digits))) <= BufferSize
        /\ width <= BufferSize
    <3>1. Len(Sign(negative, flags)) + (Len(Marks(base, flags))
             + Len(Copies(prec - Len(digits), "0") \o Reverse(digits))) <= BufferSize
      BY Room, ZenonT(30)
    <3>2. "ZEROPAD" \in flags => width <= BufferSize
      BY Room, ZenonT(30)
    <3> QED
      BY <3>1, <3>2, Zenon
  <2>2. 0 + (Len(mark) + Len(digits)) <= BufferSize
    BY <1>1, <1>2, <1>3, <2>1, Zenon
  <2>3. 0 + (Len(mark) + Len(digits)) = Len(mark) + Len(digits)
    BY <1>0, <1>4
  <2> QED
    BY <2>1, <2>2, <2>3, Zenon
<1>6. _ntoa_format(digits, negative, base, prec, width, flags)
        = _out_rev(AddSign(AddPrefix(PadZeros(digits, prec, width, flags),
                                     base, prec, width, flags), negative, flags), width, flags)
  <2> DEFINE w == IF "LEFT" \notin flags /\ width > 0 /\ "ZEROPAD" \in flags
                       /\ (negative \/ flags \cap {"PLUS", "SPACE"} # {})
                  THEN width - 1 ELSE width
  <2>1. w = width
    BY <1>0
  <2>2. _ntoa_format(digits, negative, base, prec, width, flags)
          = _out_rev(AddSign(AddPrefix(PadZeros(digits, prec, w, flags), base, prec, w, flags),
                             negative, flags), w, flags)
    BY Zenon DEF _ntoa_format
  <2> HIDE DEF w
  <2> QED
    BY <2>1, <2>2, Zenon
<1>7. PadZeros(digits, prec, width, flags) = digits \o Copies(width - Len(digits), "0")
  <2>1. PadZeros(digits, 0, width, flags) = digits \o Copies(width - Len(digits), "0")
    BY <1>5, ZeroPadding
  <2> QED
    BY <1>0, <2>1, Zenon
<1> HIDE DEF num, prefix, shown, mark
<1>8. n \in Int
  BY <1>0, <1>4
<1>9. Text(zeros)
  BY <1>8, ZeroCopies
<1>10. AddPrefix(digits \o Copies(width - Len(digits), "0"), base, prec, width, flags) = marked
  <2>1. CASE width < Len(digits)
    <3>1. Copies(width - Len(digits), "0") = <<>>
      <4>1. width - Len(digits) \in Int /\ width - Len(digits) <= 0
        BY <1>0, <2>1
      <4> QED
        BY <4>1, NoCopies
    <3>2. zeros = <<>>
      <4>1. n <= 0
        BY <1>0, <1>4, <2>1
      <4> QED
        BY <1>8, <4>1, NoCopies
    <3>3. digits \o <<>> = digits
      BY JoinEmpty
    <3>4. AddPrefix(digits, base, prec, width, flags) = digits \o Mark(base, flags)
      <4>1. Len(digits) \notin {prec, width}
        BY <1>0, <2>1
      <4>2. Len(digits) + Len(Mark(base, flags)) <= BufferSize
        BY <1>0, <1>4, <1>5 DEF mark
      <4> QED
        BY <4>1, <4>2, PrefixBehind
    <3> QED
      BY <3>1, <3>2, <3>3, <3>4, Zenon DEF mark
  <2>2. CASE width >= Len(digits) + 2
    <3>1. Len(digits) + 2 <= width
      BY <1>0, <2>2
    <3>2. AddPrefix(digits \o Copies(width - Len(digits), "0"), base, prec, width, flags)
            = (digits \o Copies((width - Len(digits)) - Len(Mark(base, flags)), "0"))
                \o Mark(base, flags)
      <4>1. ZeroField(digits, base, width, flags)
        <5>1. base \in Bases \ {2, 10}
          BY <1>0
        <5> QED
          BY <1>0, <1>5, <3>1, <5>1, Zenon DEF ZeroField
      <4> QED
        BY <4>1, <1>21, Zenon
    <3> QED
      BY <3>2, Zenon DEF mark
  <2> QED
    BY <1>0, <2>1, <2>2
<1>11. Text(digits \o zeros) /\ Reverse(digits \o zeros) = zeros \o num
  <2>1. Text(digits \o zeros)
    BY <1>9, TextJoined
  <2>2. Reverse(digits \o Copies(n, "0")) = Copies(n, "0") \o Reverse(digits)
    BY <1>8, ZerosTurned
  <2> QED
    BY <2>1, <2>2, Zenon DEF num
<1> HIDE DEF n, zeros
<1>12. Text(marked) /\ Reverse(marked) = Reverse(mark) \o (zeros \o num)
  <2>1. Text(marked)
    BY <1>4, <1>11, TextJoined
  <2>2. Reverse((digits \o zeros) \o mark) = Reverse(mark) \o Reverse(digits \o zeros)
    <3>1. Text(digits \o zeros) /\ Text(mark)
      BY <1>4, <1>11
    <3> QED
      BY <3>1, ReverseJoin
  <2> QED
    BY <1>11, <2>1, <2>2, Zenon
<1> HIDE DEF marked
<1>13. AddSign(marked, negative, flags) = marked
  <2>1. "PLUS" \notin flags /\ "SPACE" \notin flags /\ ~negative
    BY <1>0
  <2> QED
    BY <2>1, Zenon DEF AddSign
<1>14. _out_rev(marked, width, flags) = Reverse(marked)
  <2>1. width \in Int
    OBVIOUS
  <2> QED
    BY <1>12, <2>1, OutRevCases
<1>15. InField(prefix, shown, width, flags)
         = (prefix \o Copies((width - Len(prefix)) - Len(shown), "0")) \o shown
  BY <1>4, <1>20, Zenon
<1>16. (width - Len(prefix)) - Len(shown) = n
  <2>1. Text(prefix) /\ Text(shown)
    BY <1>4
  <2>2. Len(prefix) \in Nat /\ Len(shown) \in Nat
    BY <2>1 DEF Text
  <2>3. Len(prefix) + Len(shown) = Len(mark) + Len(digits)
    BY <1>1, <1>4, Zenon
  <2>4. (width - Len(prefix)) - Len(shown) = (width - Len(digits)) - Len(mark)
    <3>1. Len(digits) \in Nat /\ Len(mark) \in Nat
      BY <1>0, <1>4
    <3>2. (width - Len(prefix)) - Len(shown) = width - (Len(prefix) + Len(shown))
      BY <2>2
    <3>3. (width - Len(digits)) - Len(mark) = width - (Len(mark) + Len(digits))
      BY <3>1
    <3> QED
      BY <2>3, <3>2, <3>3, Zenon
  <2> QED
    BY <2>4, Zenon DEF n
<1>17. Reverse(mark) \o (zeros \o num) = (prefix \o zeros) \o shown
  <2>1. CASE width < Len(digits)
    <3>1. n <= 0
      BY <1>0, <1>4, <2>1 DEF n
    <3>2. zeros = <<>>
      BY <1>8, <3>1, NoCopies DEF zeros
    <3>3. <<>> \o num = num /\ prefix \o <<>> = prefix
      BY <1>1, <1>4, JoinEmpty
    <3> QED
      BY <1>4, <3>2, <3>3, Zenon
  <2>2. CASE width >= Len(digits) + 2
    <3>1. n \in Nat
      BY <1>0, <1>4, <2>2 DEF n
    <3>2. Reverse(Mark(base, flags)) \o (Copies(n, "0") \o num)
            = (HashPrefix(base, flags) \o Copies(n, "0")) \o HashDigits(num, base)
      <4>1. Prefixed(base, num, n)
        <5>1. base \in Bases \ {2, 10}
          BY <1>0
        <5> QED
          BY <1>1, <3>1, <5>1, Zenon DEF Prefixed
      <4> QED
        BY <4>1, ZerosBetween, SMTT(30)
    <3> QED
      BY <3>2, Zenon DEF mark, prefix, shown, zeros
  <2> QED
    BY <1>0, <2>1, <2>2
<1>18. _ntoa_format(digits, negative, base, prec, width, flags)
         = InField(prefix, shown, width, flags)
  BY <1>6, <1>7, <1>10, <1>12, <1>13, <1>14, <1>15, <1>16, <1>17, Zenon DEF zeros
<1>19. <<>> \o prefix = prefix
  BY <1>4, JoinEmpty
<1> QED
  BY <1>1, <1>2, <1>3, <1>18, <1>19, Zenon

\* Whatever fits its buffer and its field is what the standard prescribes.
LEMMA FormatConforms ==
  ASSUME NEW digits, Text(digits), NEW negative \in BOOLEAN, NEW base \in Bases,
         NEW prec \in Nat, NEW width \in Nat, NEW flags,
         Fits(digits, negative, base, prec, width, flags)
  PROVE  _ntoa_format(digits, negative, base, prec, width, flags)
           = InField(Sign(negative, flags) \o ShownPrefix(base, flags),
                     ShownDigits(Copies(prec - Len(digits), "0") \o Reverse(digits), base, flags),
                     width, flags)
<1>1. CASE "LEFT" \in flags \/ "ZEROPAD" \notin flags
  BY <1>1, PlainConforms
<1>2. CASE "LEFT" \notin flags /\ "ZEROPAD" \in flags /\ "HASH" \notin flags
  BY <1>2, ZeroedConforms
<1>3. CASE "LEFT" \notin flags /\ "ZEROPAD" \in flags /\ "HASH" \in flags
  BY <1>3, ZeroedPrefixConforms
<1> QED
  BY <1>1, <1>2, <1>3

-----------------------------------------------------------------------------
(* _ntoa_long: the digits of the number, and the conversion as a whole.    *)

\* The digits without the limit of the buffer.
WholeDigits(value, base, flags) ==
  IF "PRECISION" \in flags /\ value = 0 THEN <<>>
  ELSE Figures(value, base, DigitCount(value, base), flags)

LEMMA FiguresLength ==
  ASSUME NEW value, NEW base, NEW n \in Nat, NEW flags
  PROVE  Len(Figures(value, base, n, flags)) = n
<1> DEFINE F == [k \in 1 .. n |-> Character(Remaining(value, base, k - 1) % base, flags)]
<1>1. Figures(value, base, n, flags) = F
  BY Zenon DEF Figures
<1>2. Len(F) = n
  BY Built
<1> QED
  BY <1>1, <1>2, Zenon

LEMMA ZeroFigures ==
  ASSUME NEW base \in Bases, NEW flags
  PROVE  DigitCount(0, base) = 1 /\ Figures(0, base, 1, flags) = <<"0">>
<1>1. base \in Nat \ {0, 1} /\ base \in Nat \ {0} /\ base \in Nat
  BY DEF Bases
<1>2. DigitCount(0, base) = 1
  <2>1. 0 < Power(base, 64) /\ 0 < Power(base, 1)
    BY <1>1, PowerPositive
  <2>2. Long(0, base, 1)
    BY <2>1 DEF Long
  <2>3. DigitCount(0, base) \in 1 .. 64 /\ Long(0, base, DigitCount(0, base))
    BY <1>1, <2>1, CountsAreLong
  <2>4. 0 \in Nat /\ 1 \in 1 .. 64
    OBVIOUS
  <2> QED
    BY <1>1, <2>2, <2>3, <2>4, LongUnique, Zenon
<1>3. Remaining(0, base, 0) % base = 0
  <2>1. Remaining(0, base, 0) = 0
    BY <1>1, RemainingRecursion
  <2>2. 0 % base = 0
    BY <1>1
  <2> QED
    BY <2>1, <2>2
<1>4. Character(0, flags) = "0"
  BY ZeroDigit
<1>5. Text(Figures(0, base, 1, flags)) /\ Len(Figures(0, base, 1, flags)) = 1
  <2>1. 0 \in Nat /\ 1 \in Nat
    OBVIOUS
  <2>2. Text(Figures(0, base, 1, flags))
    BY <2>1, FiguresAre
  <2>4. \A n \in Nat : Len(Figures(0, base, n, flags)) = n
    BY FiguresLength
  <2>3. Len(Figures(0, base, 1, flags)) = 1
    BY <2>1, <2>4, Zenon
  <2> QED
    BY <2>2, <2>3, Zenon
<1>6. Figures(0, base, 1, flags)[1] = "0"
  <2>1. Figures(0, base, 1, flags)
          = [k \in 1 .. 1 |-> Character(Remaining(0, base, k - 1) % base, flags)]
    BY Zenon DEF Figures
  <2>2. Figures(0, base, 1, flags)[1] = Character(Remaining(0, base, 0) % base, flags)
    BY <2>1
  <2> QED
    BY <1>3, <1>4, <2>2, Zenon
<1>7. Figures(0, base, 1, flags) = <<"0">>
  BY <1>5, <1>6 DEF Text
<1> QED
  BY <1>2, <1>7

LEMMA WholeAre ==
  ASSUME NEW value \in Nat, NEW base \in Bases, NEW flags
  PROVE  /\ Text(WholeDigits(value, base, flags))
         /\ Len(WholeDigits(value, base, flags)) =
              (IF "PRECISION" \in flags /\ value = 0 THEN 0 ELSE DigitCount(value, base))
         /\ Len(WholeDigits(value, base, flags)) <= BufferSize =>
              Digits(value, base, flags) = WholeDigits(value, base, flags)
<1>1. CASE "PRECISION" \in flags /\ value = 0
  <2>1. WholeDigits(value, base, flags) = <<>> /\ Digits(value, base, flags) = <<>>
    BY <1>1, Zenon DEF WholeDigits, Digits
  <2>2. Text(WholeDigits(value, base, flags))
    BY <2>1, ShortText
  <2>3. Len(WholeDigits(value, base, flags)) = 0
    BY <2>1
  <2> QED
    BY <1>1, <2>1, <2>2, <2>3, Zenon
<1>2. CASE ~("PRECISION" \in flags /\ value = 0)
  <2>1. WholeDigits(value, base, flags) = Figures(value, base, DigitCount(value, base), flags)
    BY <1>2, Zenon DEF WholeDigits
  <2>2. Digits(value, base, flags)
          = Figures(value, base, Smaller(DigitCount(value, base), BufferSize), flags)
    BY <1>2, Zenon DEF Digits
  <2>3. DigitCount(value, base) \in Nat
    BY Counted
  <2>4. Text(Figures(value, base, DigitCount(value, base), flags))
    BY <2>3, FiguresAre
  <2>5. Len(Figures(value, base, DigitCount(value, base), flags)) = DigitCount(value, base)
    BY <2>3, FiguresLength
  <2>6. ASSUME DigitCount(value, base) <= BufferSize
        PROVE  Smaller(DigitCount(value, base), BufferSize) = DigitCount(value, base)
    <3>1. BufferSize \in Nat
      BY NtoaAssumption
    <3> QED
      BY <2>3, <2>6, <3>1 DEF Smaller
  <2> QED
    BY <1>2, <2>1, <2>2, <2>4, <2>5, <2>6, Zenon
<1> QED
  BY <1>1, <1>2

\* The digits of the standard, with the zeros of the precision.
StandardNum(value, base, prec, flags) ==
  LET least == IF "PRECISION" \in flags THEN prec ELSE 1
      bare  == IF value = 0 THEN <<>> ELSE Numeral(value, base, flags)
  IN  Copies(least - Len(bare), "0") \o bare

LEMMA NumIs ==
  ASSUME NEW value \in Nat, NEW base \in Bases, value < Power(base, 64), NEW prec \in Nat,
         NEW flags, "PRECISION" \notin flags => prec = 0
  PROVE  StandardNum(value, base, prec, flags)
           = Copies(prec - Len(WholeDigits(value, base, flags)), "0")
               \o Reverse(WholeDigits(value, base, flags))
<1> DEFINE whole == WholeDigits(value, base, flags)
           least == IF "PRECISION" \in flags THEN prec ELSE 1
           bare == IF value = 0 THEN <<>> ELSE Numeral(value, base, flags)
<1>1. base \in Nat \ {0, 1} /\ base \in Nat \ {0}
  BY DEF Bases
<1>2. StandardNum(value, base, prec, flags) = Copies(least - Len(bare), "0") \o bare
  BY Zenon DEF StandardNum
<1>3. CASE value # 0
  <2>1. bare = Numeral(value, base, flags)
    BY <1>3
  <2>2. /\ DigitCount(value, base) \in 1 .. 64 /\ NumeralLength(value, base) = DigitCount(value, base)
    BY <1>1, CountsAreLong
  <2>3. whole = Figures(value, base, DigitCount(value, base), flags)
    BY <1>3, Zenon DEF WholeDigits
  <2>4. Reverse(whole) = bare
    <3>1. DigitCount(value, base) \in Nat
      BY <2>2
    <3>2. Reverse(Figures(value, base, DigitCount(value, base), flags))
            = LastDigits(value, base, DigitCount(value, base), flags)
      BY <1>1, <3>1, FiguresReversed
    <3>3. Numeral(value, base, flags) = LastDigits(value, base, NumeralLength(value, base), flags)
      BY Zenon DEF Numeral
    <3> QED
      BY <2>1, <2>2, <2>3, <3>2, <3>3, Zenon
  <2>5. Text(whole) /\ Len(whole) = DigitCount(value, base)
    BY <1>3, WholeAre
  <2>6. Len(bare) = Len(whole)
    <3> HIDE DEF whole, bare
    <3> QED
      BY <2>4, <2>5, ReversedText
  <2>7. Copies(least - Len(bare), "0") = Copies(prec - Len(whole), "0")
    <3>1. CASE "PRECISION" \in flags
      BY <2>6, <3>1
    <3>2. CASE "PRECISION" \notin flags
      <4>0. Len(whole) \in 1 .. 64
        BY <2>2, <2>5, Zenon
      <4>4. least = 1 /\ prec = 0
        BY <3>2
      <4>5. \A n \in 1 .. 64 : /\ 1 - n \in Int /\ 1 - n <= 0 /\ 0 - n \in Int /\ 0 - n <= 0
        OBVIOUS
      <4>1. least - Len(whole) \in Int /\ least - Len(whole) <= 0
        BY <4>0, <4>4, <4>5, Zenon
      <4>2. prec - Len(whole) \in Int /\ prec - Len(whole) <= 0
        BY <4>0, <4>4, <4>5, Zenon
      <4>3. Copies(least - Len(whole), "0") = <<>> /\ Copies(prec - Len(whole), "0") = <<>>
        BY <4>1, <4>2, NoCopies
      <4> QED
        BY <2>6, <4>3, Zenon
    <3> QED
      BY <3>1, <3>2
  <2> QED
    BY <1>2, <2>4, <2>7, Zenon
<1>4. CASE value = 0 /\ "PRECISION" \in flags
  <2>1. whole = <<>> /\ bare = <<>> /\ least = prec
    BY <1>4, Zenon DEF WholeDigits
  <2>2. Reverse(<<>>) = <<>>
    <3>1. Text(<<>>) /\ Len(<<>>) <= 1
      BY ShortText
    <3> QED
      BY <3>1, ReverseShort
  <2> QED
    BY <1>2, <2>1, <2>2, Zenon
<1>5. CASE value = 0 /\ "PRECISION" \notin flags
  <2>1. whole = <<"0">>
    <3>1. whole = Figures(0, base, DigitCount(0, base), flags)
      BY <1>5, Zenon DEF WholeDigits
    <3> QED
      BY <3>1, ZeroFigures
  <2>2. bare = <<>> /\ least = 1 /\ prec = 0
    BY <1>5
  <2>3. Len(<<>>) = 0 /\ Len(<<"0">>) = 1 /\ 1 - 0 = 1 /\ 0 - 1 \in Int /\ 0 - 1 <= 0
    OBVIOUS
  <2>4. Copies(1, "0") = <<"0">> /\ Copies(0 - 1, "0") = <<>> /\ "0" \in Chars
    BY <2>3, Own, OneCopy, NoCopies
  <2>5. Text(<<"0">>) /\ Len(<<"0">>) <= 1
    BY <2>4, ShortText
  <2>6. Reverse(<<"0">>) = <<"0">> /\ <<>> \o <<"0">> = <<"0">> /\ <<"0">> \o <<>> = <<"0">>
    BY <2>5, ReverseShort, JoinEmpty
  <2> QED
    BY <1>2, <2>1, <2>2, <2>3, <2>4, <2>6, Zenon
<1> QED
  BY <1>3, <1>4, <1>5

\* What the specifiers' flags are, once the code has dropped those that mean
\* nothing.
Legal(negative, base, prec, flags) ==
  /\ "PRECISION" \notin flags => prec = 0
  /\ "ZEROPAD" \in flags => "PRECISION" \notin flags
  /\ "HASH" \in flags => base # 10 /\ ~negative /\ flags \cap {"PLUS", "SPACE"} = {}

\* The first digit of an octal number without zeros.
LEMMA OctalZero ==
  ASSUME NEW value \in Nat \ {0}, NEW base \in Bases, value < Power(base, 64), NEW prec \in Nat,
         NEW flags, "PRECISION" \notin flags => prec = 0,
         prec <= Len(WholeDigits(value, base, flags))
  PROVE  StandardNum(value, base, prec, flags)[1] # "0"
<1> DEFINE whole == WholeDigits(value, base, flags)
           n == DigitCount(value, base)
<1>1. base \in Nat \ {0, 1} /\ base \in Nat \ {0} /\ value \in Nat /\ value # 0
  BY DEF Bases
<1>2. Text(whole)
  BY <1>1, WholeAre
<1>3. StandardNum(value, base, prec, flags) = Copies(prec - Len(whole), "0") \o Reverse(whole)
  BY <1>1, NumIs
<1>4. Copies(prec - Len(whole), "0") = <<>>
  <2>1. Len(whole) \in Nat
    BY <1>2, TextIs
  <2>2. prec - Len(whole) \in Int /\ prec - Len(whole) <= 0
    BY <2>1
  <2> QED
    BY <2>2, NoCopies
<1>5. whole = Figures(value, base, n, flags)
  BY <1>1, Zenon DEF WholeDigits
<1>6. n \in 1 .. 64 /\ n \in Nat /\ Long(value, base, n)
  <2>1. n \in 1 .. 64 /\ Long(value, base, n)
    BY <1>1, CountsAreLong
  <2>2. \A k \in 1 .. 64 : k \in Nat
    OBVIOUS
  <2> QED
    BY <2>1, <2>2, Zenon
<1> HIDE DEF n, whole
<1>7. Reverse(whole) = LastDigits(value, base, n, flags)
  BY <1>1, <1>5, <1>6, FiguresReversed
<1>8. LastDigits(value, base, n, flags)[1] # "0"
  BY <1>6, FirstDigit
<1>9. <<>> \o Reverse(whole) = Reverse(whole)
  <2>1. Text(Reverse(whole))
    BY <1>2, ReversedText
  <2> QED
    BY <2>1, JoinEmpty
<1> QED
  BY <1>3, <1>4, <1>7, <1>8, <1>9, Zenon DEF whole

\* Standard, with the prefix and the octal zero as FormatConforms has them.
LEMMA StandardIs ==
  ASSUME NEW value \in Nat, NEW negative, NEW base \in Bases, NEW prec, NEW width, NEW flags,
         "HASH" \in flags => value # 0,
         "HASH" \in flags /\ base = 8 => StandardNum(value, base, prec, flags)[1] # "0"
  PROVE  Standard(value, negative, base, prec, width, flags)
           = InField(Sign(negative, flags) \o ShownPrefix(base, flags),
                     ShownDigits(StandardNum(value, base, prec, flags), base, flags),
                     width, flags)
<1> DEFINE num == StandardNum(value, base, prec, flags)
           oct == IF "HASH" \in flags /\ base = 8 /\ value # 0 /\ num[1] # "0"
                  THEN <<"0">> \o num ELSE num
<1>1. Standard(value, negative, base, prec, width, flags)
        = InField(Sign(negative, flags) \o Prefix(value, base, flags), oct, width, flags)
  BY Zenon DEF Standard, StandardNum
<1>2. oct = ShownDigits(num, base, flags)
  <2>1. CASE "HASH" \in flags /\ base = 8
    <3>1. value # 0 /\ num[1] # "0"
      BY <2>1
    <3>2. oct = <<"0">> \o num
      BY <2>1, <3>1, Zenon
    <3>3. ShownDigits(num, base, flags) = <<"0">> \o num
      BY <2>1, Zenon DEF ShownDigits, HashDigits
    <3> QED
      BY <3>2, <3>3, Zenon
  <2>2. CASE ~("HASH" \in flags /\ base = 8)
    <3>1. oct = num
      BY <2>2, Zenon
    <3>2. ShownDigits(num, base, flags) = num
      BY <2>2, Zenon DEF ShownDigits, HashDigits
    <3> QED
      BY <3>1, <3>2, Zenon
  <2> QED
    BY <2>1, <2>2, Zenon
<1>3. Prefix(value, base, flags) = ShownPrefix(base, flags)
  <2> DEFINE x == IF "UPPERCASE" \in flags THEN "X" ELSE "x"
  <2>1. CASE "HASH" \notin flags
    <3>1. Prefix(value, base, flags) = <<>>
      BY <2>1 DEF Prefix
    <3>2. ShownPrefix(base, flags) = <<>>
      BY <2>1, Zenon DEF ShownPrefix
    <3> QED
      BY <3>1, <3>2, Zenon
  <2>2. CASE "HASH" \in flags
    <3>1. value # 0 /\ ShownPrefix(base, flags) = HashPrefix(base, flags)
      BY <2>2, Zenon DEF ShownPrefix
    <3>2. CASE base = 16
      <4>1. Prefix(value, base, flags) = <<"0", x>>
        BY <2>2, <3>1, <3>2 DEF Prefix
      <4>2. HashPrefix(base, flags) = <<"0", x>>
        BY <3>2 DEF HashPrefix
      <4> QED
        BY <3>1, <4>1, <4>2, Zenon
    <3>3. CASE base = 2
      <4>1. Prefix(value, base, flags) = <<"0", "b">>
        BY <2>2, <3>1, <3>3 DEF Prefix
      <4>2. HashPrefix(base, flags) = <<"0", "b">>
        BY <3>3 DEF HashPrefix
      <4> QED
        BY <3>1, <4>1, <4>2, Zenon
    <3>4. CASE base # 16 /\ base # 2
      <4>1. Prefix(value, base, flags) = <<>>
        BY <3>4 DEF Prefix
      <4>2. HashPrefix(base, flags) = <<>>
        BY <3>4 DEF HashPrefix
      <4> QED
        BY <3>1, <4>1, <4>2, Zenon
    <3> QED
      BY <3>2, <3>3, <3>4, Zenon
  <2> QED
    BY <2>1, <2>2, Zenon
<1> QED
  BY <1>1, <1>2, <1>3, Zenon

\* A number the lists of Ntoa have nothing against is output as the standard
\* prescribes; zero is taken without "#", as the code does.
LEMMA NumberConforms ==
  ASSUME NEW value \in Nat, NEW negative \in BOOLEAN, NEW base \in Bases,
         value < Power(base, 64), NEW prec \in Nat, NEW width \in Nat, NEW flags,
         "HASH" \in flags => value # 0, Legal(negative, base, prec, flags),
         Conforming(value, negative, base, prec, width, flags)
  PROVE  _ntoa_format(Digits(value, base, flags), negative, base, prec, width, flags)
           = Standard(value, negative, base, prec, width, flags)
<1> DEFINE whole == WholeDigits(value, base, flags)
           num == StandardNum(value, base, prec, flags)
           head == Sign(negative, flags) \o ShownPrefix(base, flags)
           shown == ShownDigits(num, base, flags)
           n == IF value = 0 /\ "PRECISION" \in flags THEN 0 ELSE NumeralLength(value, base)
           field == IF "ZEROPAD" \in flags THEN width ELSE 0
<1>0. /\ "PRECISION" \notin flags => prec = 0
      /\ "ZEROPAD" \in flags => "PRECISION" \notin flags
      /\ "HASH" \in flags => base # 10 /\ ~negative /\ flags \cap {"PLUS", "SPACE"} = {}
  BY Zenon DEF Legal
<1>1. base \in Nat \ {0, 1} /\ BufferSize \in Nat /\ field \in Nat /\ field \in Int
  BY NtoaAssumption DEF Bases
<1>2. /\ "LEFT" \in flags => prec <= n
      /\ Len(Standard(value, negative, base, prec, field, flags)) <= BufferSize
      /\ "HASH" \in flags /\ "PRECISION" \notin flags => width \notin {n, n + 1}
      /\ "HASH" \in flags => /\ base = 2 => "ZEROPAD" \notin flags
                             /\ base = 8 => prec <= n
  BY Zenon DEF Conforming
<1>3. /\ Text(whole) /\ Len(whole) = n /\ n \in Nat
      /\ Len(whole) <= BufferSize => Digits(value, base, flags) = whole
  <2>1. DigitCount(value, base) \in 1 .. 64 /\ NumeralLength(value, base) = DigitCount(value, base)
    BY <1>1, CountsAreLong
  <2>2. n \in Nat /\ n = (IF "PRECISION" \in flags /\ value = 0 THEN 0 ELSE DigitCount(value, base))
    BY <2>1
  <2> HIDE DEF n
  <2> QED
    BY <2>2, WholeAre, Zenon
<1>4. num = Copies(prec - Len(whole), "0") \o Reverse(whole)
  BY <1>0, NumIs
<1>5. ASSUME NEW w
      PROVE  Standard(value, negative, base, prec, w, flags) = InField(head, shown, w, flags)
  <2>1. "HASH" \in flags /\ base = 8 => num[1] # "0"
    <3> SUFFICES ASSUME "HASH" \in flags, base = 8 PROVE num[1] # "0"
      BY Zenon
    <3>1. prec <= Len(whole)
      BY <1>2, <1>3, Zenon
    <3>2. value \in Nat \ {0}
      OBVIOUS
    <3> QED
      BY <1>0, <3>1, <3>2, OctalZero
  <2> QED
    BY <2>1, StandardIs
<1> HIDE DEF whole, n, num, shown, head, field
<1>6. /\ Text(num) /\ Len(whole) <= Len(num)
  <2>1. prec - Len(whole) \in Int
    BY <1>3
  <2>2. Text(Copies(prec - Len(whole), "0")) /\ Len(Copies(prec - Len(whole), "0")) \in Nat
    <3>1. Text(Copies(prec - Len(whole), "0"))
      BY <2>1, ZeroCopies
    <3> QED
      BY <3>1, TextIs
  <2>3. Text(Reverse(whole)) /\ Len(Reverse(whole)) = Len(whole)
    BY <1>3, ReversedText
  <2> DEFINE zeros == Copies(prec - Len(whole), "0")
             turned == Reverse(whole)
  <2>4. Text(zeros) /\ Text(turned) /\ Len(zeros) \in Nat /\ Len(turned) = Len(whole)
        /\ num = zeros \o turned
    BY <1>4, <2>2, <2>3
  <2> HIDE DEF zeros, turned
  <2>5. Text(zeros \o turned) /\ Len(zeros \o turned) = Len(zeros) + Len(turned)
    BY <2>4, TextJoins
  <2>6. \A a, b \in Nat : b <= a + b
    OBVIOUS
  <2> QED
    BY <1>3, <2>4, <2>5, <2>6, Zenon
<1>7. /\ Text(head) /\ Text(shown) /\ Len(num) <= Len(head) + Len(shown)
  <2>1. "HASH" \in flags => base # 10
    BY <1>0
  <2>2. /\ Text(ShownPrefix(base, flags)) /\ Text(shown) /\ Text(Marks(base, flags))
        /\ Len(ShownPrefix(base, flags)) + Len(shown) = Len(Marks(base, flags)) + Len(num)
    BY <1>6, <2>1, ShownIs DEF shown
  <2>3. Text(Sign(negative, flags))
    BY SignLength
  <2>4. Text(head) /\ Len(head) = Len(Sign(negative, flags)) + Len(ShownPrefix(base, flags))
    <3>1. Text(ShownPrefix(base, flags))
      BY <2>2
    <3> QED
      BY <2>3, <3>1, TextJoins DEF head
  <2>5. /\ Len(Sign(negative, flags)) \in Nat /\ Len(ShownPrefix(base, flags)) \in Nat
        /\ Len(shown) \in Nat /\ Len(Marks(base, flags)) \in Nat /\ Len(num) \in Nat
    BY <1>6, <2>2, <2>3, TextIs
  <2>6. \A s, p, h, m, k \in Nat : p + h = m + k => k <= (s + p) + h
    OBVIOUS
  <2> QED
    BY <2>2, <2>4, <2>5, <2>6, Zenon
<1>8. Len(InField(head, shown, field, flags)) <= BufferSize
  BY <1>2, <1>5, Zenon
<1>9. Len(whole) <= BufferSize
  <2>1. Len(InField(head, shown, field, flags)) \in Nat
        /\ Len(head) + Len(shown) <= Len(InField(head, shown, field, flags))
    BY <1>1, <1>7, InFieldLength
  <2>2. Len(head) \in Nat /\ Len(shown) \in Nat /\ Len(num) \in Nat /\ Len(whole) \in Nat
    BY <1>3, <1>6, <1>7, TextIs
  <2>3. \A a, b, c, d, e, f \in Nat :
          a <= b /\ b <= c + d /\ c + d <= e /\ e <= f => a <= f
    OBVIOUS
  <2> QED
    BY <1>1, <1>6, <1>7, <1>8, <2>1, <2>2, <2>3, Zenon
<1>10. Fits(whole, negative, base, prec, width, flags)
  <2>1. head = Sign(negative, flags) \o ShownPrefix(base, flags)
        /\ shown = ShownDigits(Copies(prec - Len(whole), "0") \o Reverse(whole), base, flags)
    BY <1>4, Zenon DEF head, shown
  <2>2. Len(InField(Sign(negative, flags) \o ShownPrefix(base, flags),
                    ShownDigits(Copies(prec - Len(whole), "0") \o Reverse(whole), base, flags),
                    IF "ZEROPAD" \in flags THEN width ELSE 0, flags)) <= BufferSize
    BY <1>8, <2>1, Zenon DEF field
  <2>3. /\ "HASH" \in flags /\ "PRECISION" \notin flags => width \notin {Len(whole), Len(whole) + 1}
        /\ "HASH" \in flags => (base = 2 => "ZEROPAD" \notin flags)
        /\ "LEFT" \in flags => prec <= Len(whole)
    BY <1>2, <1>3, Zenon
  <2> QED
    BY <1>0, <2>2, <2>3, Zenon DEF Fits
<1>11. _ntoa_format(whole, negative, base, prec, width, flags)
         = InField(Sign(negative, flags) \o ShownPrefix(base, flags),
                   ShownDigits(Copies(prec - Len(whole), "0") \o Reverse(whole), base, flags),
                   width, flags)
  BY <1>3, <1>10, FormatConforms
<1> QED
  BY <1>3, <1>4, <1>5, <1>9, <1>11, Zenon DEF head, shown

\* "#" means nothing to a zero.
LEMMA ZeroWithoutHash ==
  ASSUME NEW negative, NEW base, NEW prec, NEW width, NEW flags
  PROVE  Standard(0, negative, base, prec, width, flags \ {"HASH"})
           = Standard(0, negative, base, prec, width, flags)
<1> DEFINE f == flags \ {"HASH"}
           num(g) == Copies((IF "PRECISION" \in g THEN prec ELSE 1) - Len(<<>>), "0") \o <<>>
           head(g) == Sign(negative, g) \o <<>>
<1>1. /\ "LEFT" \in f <=> "LEFT" \in flags
      /\ "ZEROPAD" \in f <=> "ZEROPAD" \in flags
      /\ "PRECISION" \in f <=> "PRECISION" \in flags
      /\ "PLUS" \in f <=> "PLUS" \in flags
      /\ "SPACE" \in f <=> "SPACE" \in flags
  OBVIOUS
<1> HIDE DEF f
<1>2. ASSUME NEW g
      PROVE  Standard(0, negative, base, prec, width, g) = InField(head(g), num(g), width, g)
  <2>1. Prefix(0, base, g) = <<>>
    BY DEF Prefix
  <2> QED
    BY <2>1, Zenon DEF Standard
<1>3. Sign(negative, f) = Sign(negative, flags)
  BY <1>1, Zenon DEF Sign
<1>4. num(f) = num(flags) /\ head(f) = head(flags)
  BY <1>1, <1>3, Zenon
<1>5. ASSUME NEW h, NEW d PROVE InField(h, d, width, f) = InField(h, d, width, flags)
  BY <1>1, Zenon DEF InField
<1> QED
  BY <1>2, <1>4, <1>5, Zenon DEF f

\* _ntoa_long, wherever the list in Ntoa has nothing against it.
LEMMA NtoaConforms ==
  ASSUME NEW value \in Nat, NEW negative \in BOOLEAN, NEW base \in Bases,
         value < Power(base, 64), NEW prec \in Nat, NEW width \in Nat, NEW flags,
         Legal(negative, base, prec, flags),
         Conforming(value, negative, base, prec, width, flags)
  PROVE  _ntoa_long(value, negative, base, prec, width, flags)
           = Standard(value, negative, base, prec, width, flags)
<1> DEFINE f == IF value = 0 THEN flags \ {"HASH"} ELSE flags
<1>1. _ntoa_long(value, negative, base, prec, width, flags)
        = _ntoa_format(Digits(value, base, f), negative, base, prec, width, f)
  BY Zenon DEF _ntoa_long
<1>2. CASE value # 0
  <2>1. f = flags
    BY <1>2
  <2>2. _ntoa_format(Digits(value, base, flags), negative, base, prec, width, flags)
          = Standard(value, negative, base, prec, width, flags)
    BY <1>2, NumberConforms
  <2> QED
    BY <1>1, <2>1, <2>2, Zenon
<1>3. CASE value = 0
  <2> DEFINE g == flags \ {"HASH"}
  <2>1. f = g
    BY <1>3
  <2>2. /\ "LEFT" \in g <=> "LEFT" \in flags
        /\ "ZEROPAD" \in g <=> "ZEROPAD" \in flags
        /\ "PRECISION" \in g <=> "PRECISION" \in flags
        /\ "HASH" \notin g
    OBVIOUS
  <2>3. ASSUME NEW w
        PROVE  Standard(value, negative, base, prec, w, g)
                 = Standard(value, negative, base, prec, w, flags)
    <3>1. Standard(0, negative, base, prec, w, flags \ {"HASH"})
            = Standard(0, negative, base, prec, w, flags)
      BY ZeroWithoutHash
    <3> QED
      BY <1>3, <3>1, Zenon
  <2> HIDE DEF g
  <2>4. Legal(negative, base, prec, g)
    BY <2>2, Zenon DEF Legal
  <2>5. Conforming(value, negative, base, prec, width, g)
    BY <2>2, <2>3, Zenon DEF Conforming
  <2>6. _ntoa_format(Digits(value, base, g), negative, base, prec, width, g)
          = Standard(value, negative, base, prec, width, g)
    BY <2>2, <2>4, <2>5, NumberConforms
  <2> QED
    BY <1>1, <2>1, <2>3, <2>6, Zenon
<1> QED
  BY <1>2, <1>3

-----------------------------------------------------------------------------
(* A directive as the code reads it and as C does.                         *)

\* What is left behind the first n elements.
LEMMA RestIs ==
  ASSUME NEW args, Sequence(args), NEW n, NEW r, Drops(args, n, r)
  PROVE  SubSeq(args, n + 1, Len(args)) = r
<1> DEFINE S == {args[k] : k \in 1 .. Len(args)}
           s == SubSeq(args, n + 1, Len(args))
<1>1. /\ Len(args) \in Nat /\ n \in 0 .. Len(args) /\ Sequence(r) /\ Len(r) = Len(args) - n
      /\ \A j \in 1 .. Len(r) : r[j] = args[n + j]
  BY DEF Drops, Sequence
<1>2. args \in Seq(S)
  BY Typed
<1> HIDE DEF S
<1>3. s \in Seq(S) /\ Len(s) = Len(args) - n /\ \A j \in 1 .. Len(args) - n : s[j] = args[n + j]
  <2>1. n + 1 \in 1 .. Len(args) + 1
    BY <1>1
  <2> QED
    BY <1>1, <1>2, <2>1
<1> HIDE DEF s
<1>4. Sequence(s) /\ Len(s) = Len(r) /\ \A j \in 1 .. Len(r) : s[j] = r[j]
  BY <1>1, <1>3, Listed
<1>5. s = r
  BY <1>1, <1>4, SMT DEF Sequence
<1> QED
  BY <1>5 DEF s

LEMMA StarsAre ==
  ASSUME NEW d, d.spec \notin {"literal", "other"}
  PROVE  /\ Taken(d) = Stars(d) + 1 /\ Stars(d) \in 0 .. 2
         /\ d.prec = Star => Stars(d) = (IF d.width = Star THEN 2 ELSE 1)
BY DEF Taken, Stars

\* The width and the precision of a directive, before a negative one is turned.
GivenWidth(d, args) == IF d.width = Star THEN args[1] ELSE d.width
GivenPrec(d, args) == IF d.prec = Star THEN args[Stars(d)] ELSE d.prec

LEMMA GivenIs ==
  ASSUME NEW d, d.spec \notin {"literal", "other"}, NEW args, Sequence(args), Finds(d, args, 0)
  PROVE  LET p == Parse(d, args)
             w == GivenWidth(d, args)
             c == GivenPrec(d, args)
         IN  /\ w \in Int /\ c \in Int
             /\ p.width = (IF w < 0 THEN -w ELSE w)
             /\ p.prec = (IF c > 0 THEN c ELSE 0)
             /\ p.flags = d.flags \cup (IF w < 0 THEN {"LEFT"} ELSE {})
                                  \cup (IF d.prec # None THEN {"PRECISION"} ELSE {})
<1> DEFINE w == IF d.width = Star THEN Head(args) ELSE d.width
           afterWidth == IF d.width = Star THEN Tail(args) ELSE args
           c == IF d.prec = Star THEN Head(afterWidth) ELSE d.prec
           p == Parse(d, args)
<1>1. /\ d.width \in Nat \cup {Star} /\ d.prec \in Nat \cup {Star, None}
      /\ Taken(d) = Stars(d) + 1 /\ Taken(d) <= Len(args) /\ Len(args) \in Nat
      /\ \A k \in 1 .. Taken(d) - 1 : args[k] \in Int
      /\ d.prec = Star => Stars(d) = (IF d.width = Star THEN 2 ELSE 1)
  <2>1. /\ d.width \in Nat \cup {Star} /\ d.prec \in Nat \cup {Star, None}
        /\ 0 + Taken(d) <= Len(args) /\ \A k \in 1 .. Stars(d) : args[0 + k] \in Int
    BY DEF Finds
  <2>2. Taken(d) \in 1 .. 3 /\ Taken(d) - 1 = Stars(d)
    BY StarsAre
  <2>3. Len(args) \in Nat
    BY DEF Sequence
  <2>4. \A k \in 1 .. Taken(d) - 1 : 0 + k = k
    BY <2>2
  <2>5. 0 + Taken(d) = Taken(d)
    BY <2>2
  <2> QED
    BY <2>1, <2>3, <2>4, <2>5, StarsAre
<1>2. d.width = Star =>
        /\ 1 \in 1 .. Taken(d) - 1 /\ Head(args) = args[1] /\ Drops(args, 1, Tail(args))
  <2> SUFFICES ASSUME d.width = Star
               PROVE  /\ 1 \in 1 .. Taken(d) - 1 /\ Head(args) = args[1]
                      /\ Drops(args, 1, Tail(args))
    OBVIOUS
  <2>1. Taken(d) \in 2 .. 3
    BY DEF Taken, Stars
  <2>2. 0 < Len(args) /\ 0 + 1 = 1 /\ 1 \in 1 .. Taken(d) - 1
    BY <1>1, <2>1
  <2>3. Drops(args, 0, args)
    BY DropsNone
  <2>4. Head(args) = args[0 + 1] /\ Drops(args, 0 + 1, Tail(args))
    BY <2>2, <2>3, DropsOneMore
  <2> QED
    BY <2>2, <2>4
<1>3. w = GivenWidth(d, args) /\ w \in Int
  <2>1. CASE d.width = Star
    BY <1>1, <1>2, <2>1 DEF GivenWidth
  <2>2. CASE d.width # Star
    BY <1>1, <2>2 DEF GivenWidth
  <2> QED
    BY <2>1, <2>2
<1>4. c = GivenPrec(d, args) /\ c \in Int
  <2>1. CASE d.prec # Star
    BY <1>1, <2>1 DEF GivenPrec, None
  <2>2. CASE d.prec = Star /\ d.width = Star
    <3>1. Stars(d) = 2 /\ 2 \in 1 .. Taken(d) - 1 /\ 1 < Len(args) /\ 1 + 1 = 2
      BY <1>1, <2>2
    <3>2. Head(Tail(args)) = args[1 + 1]
      BY <1>2, <2>2, <3>1, DropsOneMore
    <3> QED
      BY <1>1, <2>2, <3>1, <3>2 DEF GivenPrec
  <2>3. CASE d.prec = Star /\ d.width # Star
    <3>1. Stars(d) = 1 /\ 1 \in 1 .. Taken(d) - 1 /\ 0 < Len(args) /\ 0 + 1 = 1
      BY <1>1, <2>3
    <3>2. Drops(args, 0, args)
      BY DropsNone
    <3>3. Head(args) = args[0 + 1]
      BY <3>1, <3>2, DropsOneMore
    <3> QED
      BY <1>1, <2>3, <3>1, <3>3 DEF GivenPrec
  <2> QED
    BY <2>1, <2>2, <2>3
<1>5. /\ p.width = (IF w < 0 THEN -w ELSE w) /\ p.prec = (IF c > 0 THEN c ELSE 0)
      /\ p.flags = d.flags \cup (IF w < 0 THEN {"LEFT"} ELSE {})
                           \cup (IF d.prec # None THEN {"PRECISION"} ELSE {})
  BY DEF Parse
<1> HIDE DEF w, c, p
<1> QED
  BY <1>3, <1>4, <1>5 DEF p

\* The flags of a directive, and which of them mean something.
Given(d, w, c) ==
  d.flags \cup {f \in {"LEFT"} : w < 0} \cup {f \in {"PRECISION"} : c >= 0}
          \cup {f \in {"UPPERCASE"} : d.spec \in {"X", "F", "E", "G"}}
          \cup {f \in {"ADAPT_EXP"} : d.spec \in {"g", "G"}}

LEMMA ReadIs ==
  ASSUME NEW d, d.spec \notin {"literal", "other"}, NEW args, Sequence(args), Finds(d, args, 0)
  PROVE  LET p == Parse(d, args)
             r == Read(d, args)
             given == Given(d, GivenWidth(d, args), GivenPrec(d, args))
         IN  /\ r.width = p.width /\ r.prec = p.prec
             /\ r.value = Head(p.va) /\ r.rest = Tail(p.va)
             /\ r.flags = {f \in given :
                   /\ f = "HASH" => d.spec \in {"o", "x", "X", "b"} \cup FloatSpecs
                   /\ f \in {"PLUS", "SPACE"} => d.spec \in {"d", "i"} \cup FloatSpecs
                   /\ f = "ZEROPAD" => "PRECISION" \notin given \/ d.spec \in FloatSpecs}
<1> DEFINE p == Parse(d, args)
           r == Read(d, args)
           w == GivenWidth(d, args)
           c == GivenPrec(d, args)
           given == Given(d, w, c)
           flags == {f \in given :
                   /\ f = "HASH" => d.spec \in {"o", "x", "X", "b"} \cup FloatSpecs
                   /\ f \in {"PLUS", "SPACE"} => d.spec \in {"d", "i"} \cup FloatSpecs
                   /\ f = "ZEROPAD" => "PRECISION" \notin given \/ d.spec \in FloatSpecs}
<1>1. r = [width |-> IF w < 0 THEN -w ELSE w, prec |-> IF c < 0 THEN 0 ELSE c, flags |-> flags,
           value |-> args[Stars(d) + 1], rest |-> SubSeq(args, Stars(d) + 2, Len(args))]
  BY Zenon DEF Read, GivenWidth, GivenPrec, Given
<1>2. /\ w \in Int /\ c \in Int /\ p.width = (IF w < 0 THEN -w ELSE w)
      /\ p.prec = (IF c > 0 THEN c ELSE 0)
  BY GivenIs, Zenon
<1>3. Head(p.va) = args[Taken(d)] /\ Drops(args, Taken(d), Tail(p.va))
  BY ParseIs, Zenon
<1>4. Taken(d) = Stars(d) + 1 /\ Taken(d) + 1 = Stars(d) + 2
  <2>1. Taken(d) = Stars(d) + 1
    BY StarsAre
  <2>2. Stars(d) \in 0 .. 2
    BY StarsAre
  <2> QED
    BY <2>1, <2>2
<1>5. SubSeq(args, Taken(d) + 1, Len(args)) = Tail(p.va)
  BY <1>3, RestIs
<1>6. r.width = (IF w < 0 THEN -w ELSE w) /\ r.prec = (IF c < 0 THEN 0 ELSE c)
      /\ r.flags = flags
      /\ r.value = args[Stars(d) + 1] /\ r.rest = SubSeq(args, Stars(d) + 2, Len(args))
  <2> DEFINE width == IF w < 0 THEN -w ELSE w
             prec == IF c < 0 THEN 0 ELSE c
             value == args[Stars(d) + 1]
             rest == SubSeq(args, Stars(d) + 2, Len(args))
  <2>1. r = [width |-> width, prec |-> prec, flags |-> flags, value |-> value, rest |-> rest]
    BY <1>1, Zenon
  <2> HIDE DEF width, prec, value, rest, flags, r
  <2>2. r.width = width /\ r.prec = prec /\ r.flags = flags /\ r.value = value /\ r.rest = rest
    BY <2>1
  <2> QED
    BY <2>2, Zenon DEF width, prec, value, rest
<1> HIDE DEF w, c, flags, p
<1>7. (IF c > 0 THEN c ELSE 0) = (IF c < 0 THEN 0 ELSE c)
  BY <1>2
<1>8. r.width = p.width /\ r.prec = p.prec /\ r.value = Head(p.va) /\ r.rest = Tail(p.va)
  BY <1>2, <1>3, <1>4, <1>5, <1>6, <1>7, Zenon
<1> QED
  BY <1>6, <1>8, Zenon DEF flags, p, w, c

LEMMA FlagsAgree ==
  ASSUME NEW d, d.spec \notin {"literal", "other"}, NEW args, Sequence(args), Finds(d, args, 0),
         d.prec = Star => "PRECISION" \in Read(d, args).flags
  PROVE  LET p == Parse(d, args)
             r == Read(d, args)
         IN  /\ "LEFT" \in r.flags <=> "LEFT" \in p.flags
             /\ "PRECISION" \in r.flags <=> "PRECISION" \in p.flags
             /\ "PRECISION" \notin p.flags => p.prec = 0
             /\ p.flags \subseteq d.flags \cup {"LEFT", "PRECISION"}
             /\ d.spec \in IntegerSpecs =>
                  /\ IntegerFlags(d.spec, p.flags) = r.flags
                  /\ "ZEROPAD" \in r.flags => "PRECISION" \notin r.flags
                  /\ "HASH" \in r.flags => /\ d.spec \in {"o", "x", "X", "b"}
                                           /\ r.flags \cap {"PLUS", "SPACE"} = {}
<1> DEFINE p == Parse(d, args)
           r == Read(d, args)
           w == GivenWidth(d, args)
           c == GivenPrec(d, args)
           given == Given(d, w, c)
           left == w < 0
           prec == c >= 0
<1>1. /\ w \in Int /\ c \in Int /\ p.prec = (IF c > 0 THEN c ELSE 0)
      /\ p.flags = d.flags \cup (IF w < 0 THEN {"LEFT"} ELSE {})
                           \cup (IF d.prec # None THEN {"PRECISION"} ELSE {})
  BY GivenIs, Zenon
<1>2. r.flags = {f \in given :
         /\ f = "HASH" => d.spec \in {"o", "x", "X", "b"} \cup FloatSpecs
         /\ f \in {"PLUS", "SPACE"} => d.spec \in {"d", "i"} \cup FloatSpecs
         /\ f = "ZEROPAD" => "PRECISION" \notin given \/ d.spec \in FloatSpecs}
  BY ReadIs, Zenon
<1>3. /\ d.flags \subseteq WrittenFlags /\ d.prec \in Nat \cup {Star, None}
  BY DEF Finds
<1>4. \A f : f \in given <=> \/ f \in d.flags \/ (f = "LEFT" /\ left) \/ (f = "PRECISION" /\ prec)
                             \/ (f = "UPPERCASE" /\ d.spec \in {"X", "F", "E", "G"})
                             \/ (f = "ADAPT_EXP" /\ d.spec \in {"g", "G"})
  BY Zenon DEF Given
<1>5. \A f : f \in p.flags <=> \/ f \in d.flags \/ (f = "LEFT" /\ left)
                               \/ (f = "PRECISION" /\ d.prec # None)
  <2>1. \A f : f \in (IF w < 0 THEN {"LEFT"} ELSE {}) <=> (f = "LEFT" /\ left)
    OBVIOUS
  <2>2. \A f : f \in (IF d.prec # None THEN {"PRECISION"} ELSE {})
                  <=> (f = "PRECISION" /\ d.prec # None)
    OBVIOUS
  <2> HIDE DEF w, left
  <2> QED
    BY <1>1, <2>1, <2>2
<1>6. d.prec # Star => c = d.prec
  BY DEF GivenPrec
<1>7. d.prec = None => c = None
  BY <1>6 DEF None, Star
<1> HIDE DEF p, r, w, c, given, left
<1>8. "PRECISION" \notin d.flags /\ "UPPERCASE" \notin d.flags /\ "ADAPT_EXP" \notin d.flags
      /\ "LEFT" \in WrittenFlags
  BY <1>3 DEF WrittenFlags
<1>9. "PRECISION" \in r.flags <=> prec
  <2> HIDE DEF prec
  <2> QED
    BY <1>2, <1>4, <1>8
<1>10. prec <=> d.prec # None
  <2>1. CASE d.prec = Star
    <3>1. prec
      BY <1>9, <2>1 DEF r
    <3> QED
      BY <2>1, <3>1 DEF Star, None
  <2>2. CASE d.prec = None
    BY <1>7, <2>2 DEF None
  <2>3. CASE d.prec \in Nat
    BY <1>6, <2>3 DEF None, Star
  <2> QED
    BY <1>3, <2>1, <2>2, <2>3
<1>11. "PRECISION" \in p.flags <=> prec
  <2>1. "PRECISION" \in p.flags <=> d.prec # None
    BY <1>5, <1>8
  <2> QED
    BY <1>10, <2>1, Zenon
<1>12. "PRECISION" \notin p.flags => p.prec = 0
  BY <1>1, <1>11
<1> HIDE DEF prec
<1>13. "LEFT" \in r.flags <=> "LEFT" \in p.flags
  <2>1. "LEFT" \in r.flags <=> "LEFT" \in given
    BY <1>2
  <2> QED
    BY <1>4, <1>5, <2>1
<1>14. p.flags \subseteq d.flags \cup {"LEFT", "PRECISION"}
  BY <1>5
<1>15. ASSUME d.spec \in IntegerSpecs
       PROVE  /\ IntegerFlags(d.spec, p.flags) = r.flags
              /\ "ZEROPAD" \in r.flags => "PRECISION" \notin r.flags
              /\ "HASH" \in r.flags => /\ d.spec \in {"o", "x", "X", "b"}
                                       /\ r.flags \cap {"PLUS", "SPACE"} = {}
  <2>1. d.spec \in {"d", "i", "u", "x", "X", "o", "b"} /\ d.spec \notin FloatSpecs
    BY <1>15 DEF IntegerSpecs, FloatSpecs
  <2>2. \A f : f \in r.flags <=>
          /\ f \in given
          /\ f = "HASH" => d.spec \in {"o", "x", "X", "b"}
          /\ f \in {"PLUS", "SPACE"} => d.spec \in {"d", "i"}
          /\ f = "ZEROPAD" => "PRECISION" \notin given
    BY <1>2, <2>1
  <2>3. "PRECISION" \in given <=> "PRECISION" \in p.flags
    BY <1>4, <1>8, <1>11
  <2>4. Base(d.spec) = 10 <=> d.spec \in {"d", "i", "u"}
    BY <2>1 DEF Base
  <2>5. \A f : f \in IntegerFlags(d.spec, p.flags) <=>
          /\ f \in p.flags \/ (f = "UPPERCASE" /\ d.spec = "X")
          /\ ~(f = "HASH" /\ Base(d.spec) = 10)
          /\ ~(f \in {"PLUS", "SPACE"} /\ d.spec \notin {"d", "i"})
          /\ ~(f = "ZEROPAD" /\ "PRECISION" \in p.flags)
    <3> DEFINE noHash == IF Base(d.spec) = 10 THEN {"HASH"} ELSE {}
               noSign == IF d.spec \in {"d", "i"} THEN {} ELSE {"PLUS", "SPACE"}
               noZero == IF "PRECISION" \in p.flags THEN {"ZEROPAD"} ELSE {}
               upper == IF d.spec = "X" THEN {"UPPERCASE"} ELSE {}
    <3>1. IntegerFlags(d.spec, p.flags) = (p.flags \cup upper) \ (noHash \cup noSign \cup noZero)
      BY Zenon DEF IntegerFlags
    <3>2. \A f : /\ f \in noHash <=> (f = "HASH" /\ Base(d.spec) = 10)
                 /\ f \in noSign <=> (f \in {"PLUS", "SPACE"} /\ d.spec \notin {"d", "i"})
                 /\ f \in noZero <=> (f = "ZEROPAD" /\ "PRECISION" \in p.flags)
                 /\ f \in upper <=> (f = "UPPERCASE" /\ d.spec = "X")
      OBVIOUS
    <3> HIDE DEF noHash, noSign, noZero, upper
    <3> QED
      BY <3>1, <3>2
  <2>6. \A f : f \in given <=> f \in p.flags \/ (f = "UPPERCASE" /\ d.spec = "X")
    <3>1. d.spec \in {"X", "F", "E", "G"} <=> d.spec = "X"
      BY <2>1
    <3>2. d.spec \notin {"g", "G"}
      BY <2>1
    <3>3. \A f : f = "PRECISION" => ((f = "PRECISION" /\ prec) <=> f \in p.flags)
      BY <1>11
    <3> QED
      BY <1>4, <1>5, <1>10, <3>1, <3>2, Zenon
  <2>7. \A f : f \in IntegerFlags(d.spec, p.flags) <=> f \in r.flags
    BY <2>1, <2>2, <2>3, <2>4, <2>5, <2>6
  <2>8. "HASH" \in r.flags => d.spec \in {"o", "x", "X", "b"}
    BY <2>2
  <2>9. d.spec \in {"o", "x", "X", "b"} => r.flags \cap {"PLUS", "SPACE"} = {}
    BY <2>2
  <2>10. "ZEROPAD" \in r.flags => "PRECISION" \notin r.flags
    BY <2>2
  <2>11. IntegerFlags(d.spec, p.flags) = r.flags
    BY <2>7, Zenon
  <2> QED
    BY <2>8, <2>9, <2>10, <2>11, Zenon
<1> QED
  BY <1>9, <1>11, <1>12, <1>13, <1>14, <1>15, Zenon DEF p, r

\* Magnitudes fit the type they are cast to.
LEMMA MagnitudeIs ==
  ASSUME NEW x \in Int, NEW length \in Lengths
  PROVE  LET s == Signed(x, length)
             m == IF s > 0 THEN s ELSE 0 - s
         IN  /\ s \in Int /\ m \in Nat /\ m = Magnitude(s) /\ Unsigned(m, Promoted(length)) = m
             /\ m < Power(2, 64)
             /\ Unsigned(x, length) \in Nat /\ Unsigned(x, length) < Power(2, 64)
<1>1. Bits[length] \in 1 .. 64 /\ Bits[Promoted(length)] \in 1 .. 64
      /\ Bits[length] <= Bits[Promoted(length)]
  <2>1. length \in {"hh", "h"} => Bits[length] <= Bits[""]
    BY PrintfAssumption
  <2>2. Promoted(length) = (IF length \in {"hh", "h"} THEN "" ELSE length)
        /\ Promoted(length) \in Lengths
    BY DEF Promoted, Lengths
  <2>3. Bits[length] \in 1 .. 64 /\ Bits[Promoted(length)] \in 1 .. 64
    BY <2>2, Widths
  <2>4. Bits[length] <= Bits[Promoted(length)]
    <3>1. CASE length \in {"hh", "h"}
      BY <2>1, <2>2, <3>1
    <3>2. CASE length \notin {"hh", "h"}
      BY <2>2, <2>3, <3>2
    <3> QED
      BY <3>1, <3>2
  <2> QED
    BY <2>3, <2>4
<1> DEFINE b == Bits[length]
           q == Bits[Promoted(length)]
           top == Power(2, b)
           half == Power(2, b - 1)
           wide == Power(2, q)
           u == Unsigned(x, length)
           s == Signed(x, length)
           m == IF s > 0 THEN s ELSE 0 - s
<1>2. b \in 1 .. 64 /\ q \in 1 .. 64 /\ b <= q
  BY <1>1
<1>3. u \in Nat /\ u < top /\ s = (IF u >= half THEN u - top ELSE u)
  <2>1. u \in Nat /\ u < top
    BY ReadAsType
  <2> QED
    BY <2>1, Zenon DEF Signed
<1>4. Unsigned(m, Promoted(length)) = m % wide
  BY Zenon DEF Unsigned
<1> HIDE DEF b, q
<1>11. b \in Nat /\ q \in Nat /\ b - 1 \in Nat /\ b <= q /\ q <= 64 /\ (b - 1) + 1 = b
       /\ q - b \in Nat /\ 64 - q \in Nat /\ b + (q - b) = q /\ q + (64 - q) = 64
  BY <1>2
<1>5. /\ top \in Nat /\ half \in Nat \ {0} /\ wide \in Nat /\ top = 2 * half
      /\ top <= wide /\ wide <= Power(2, 64) /\ Power(2, 64) \in Nat
  <2>1. 2 \in Nat \ {0, 1} /\ 2 \in Nat \ {0} /\ 2 \in Nat /\ 64 \in Nat
    OBVIOUS
  <2>2. half \in Nat \ {0} /\ top \in Nat \ {0} /\ wide \in Nat \ {0} /\ Power(2, 64) \in Nat \ {0}
    BY <1>11, <2>1, PowerPositive
  <2>3. Power(2, (b - 1) + 1) = 2 * half
    BY <1>11, <2>1, PowerRecursion
  <2>4. Power(2, b) <= Power(2, b + (q - b)) /\ Power(2, q) <= Power(2, q + (64 - q))
    <3>1. \A i, j \in Nat : Power(2, i) <= Power(2, i + j)
      BY <2>1, PowerOrder
    <3> QED
      BY <1>11, <3>1, Zenon
  <2> QED
    BY <1>11, <2>2, <2>3, <2>4
<1> HIDE DEF top, half, wide, u, s
<1>6. s \in Int /\ m \in Nat /\ m <= half /\ m < top /\ m = (IF s < 0 THEN -s ELSE s)
  BY <1>3, <1>5
<1>7. m = Magnitude(s)
  BY <1>6, Zenon DEF Magnitude
<1> HIDE DEF m
<1>8. m < wide
  BY <1>5, <1>6
<1>9. m % wide = m
  BY <1>5, <1>6, <1>8
<1>10. m < Power(2, 64) /\ u < Power(2, 64)
  BY <1>3, <1>5, <1>6
<1> QED
  BY <1>3, <1>4, <1>6, <1>7, <1>9, <1>10, Zenon DEF m, u, s

-----------------------------------------------------------------------------
(* Items: the text of each specifier, and the arguments it leaves.         *)

\* What is given to a specifier's case in _vsnprintf.
Directive(d, args) ==
  /\ d.spec \notin {"literal", "other"} /\ Sequence(args) /\ Finds(d, args, 0)
  /\ ConformingItem(d, args)

\* p, what the code reads of a directive, and r, what C does.
Agree(d, args, p, r) ==
  /\ r.width = p.width /\ r.prec = p.prec /\ p.width \in Nat /\ p.prec \in Nat
  /\ r.value = Head(p.va) /\ r.rest = Tail(p.va) /\ r.value = args[0 + Taken(d)]
  /\ "LEFT" \in r.flags <=> "LEFT" \in p.flags
  /\ "PRECISION" \in r.flags <=> "PRECISION" \in p.flags
  /\ "PRECISION" \notin p.flags => p.prec = 0
  /\ p.flags \subseteq d.flags \cup {"LEFT", "PRECISION"}
  /\ d.spec \in IntegerSpecs =>
       /\ IntegerFlags(d.spec, p.flags) = r.flags
       /\ "ZEROPAD" \in r.flags => "PRECISION" \notin r.flags
       /\ "HASH" \in r.flags => /\ d.spec \in {"o", "x", "X", "b"}
                                /\ r.flags \cap {"PLUS", "SPACE"} = {}

LEMMA DirectiveIs ==
  ASSUME NEW d, NEW args, Directive(d, args)
  PROVE  Agree(d, args, Parse(d, args), Read(d, args))
<1> DEFINE p == Parse(d, args)
           r == Read(d, args)
<1>1. d.spec \notin {"literal", "other"} /\ Sequence(args) /\ Finds(d, args, 0) /\ ConformingItem(d, args)
  BY Zenon DEF Directive
<1>2. d.prec = Star => "PRECISION" \in r.flags
  BY <1>1, Zenon DEF ConformingItem
<1>3. /\ p.width \in Nat /\ p.prec \in Nat /\ Head(p.va) = args[Taken(d)]
  BY <1>1, ParseIs, Zenon
<1>4. /\ r.width = p.width /\ r.prec = p.prec /\ r.value = Head(p.va) /\ r.rest = Tail(p.va)
  BY <1>1, ReadIs, Zenon
<1>5. 0 + Taken(d) = Taken(d)
  BY DEF Taken, Stars
<1>6. /\ "LEFT" \in r.flags <=> "LEFT" \in p.flags
      /\ "PRECISION" \in r.flags <=> "PRECISION" \in p.flags
      /\ "PRECISION" \notin p.flags => p.prec = 0
      /\ p.flags \subseteq d.flags \cup {"LEFT", "PRECISION"}
      /\ d.spec \in IntegerSpecs =>
           /\ IntegerFlags(d.spec, p.flags) = r.flags
           /\ "ZEROPAD" \in r.flags => "PRECISION" \notin r.flags
           /\ "HASH" \in r.flags => /\ d.spec \in {"o", "x", "X", "b"}
                                    /\ r.flags \cap {"PLUS", "SPACE"} = {}
  BY <1>1, <1>2, FlagsAgree, Zenon
<1> QED
  BY <1>3, <1>4, <1>5, <1>6, Zenon DEF Agree

LEMMA IntegerConforms ==
  ASSUME NEW d, NEW args, Directive(d, args), d.spec \in IntegerSpecs
  PROVE  LET p == Parse(d, args)
         IN  <<IntegerText(d.spec, d.length, Head(p.va), p), Tail(p.va)>> = StandardItem(d, args)
<1> DEFINE p == Parse(d, args)
           r == Read(d, args)
           x == Head(p.va)
           f == IntegerFlags(d.spec, p.flags)
           base == Base(d.spec)
           s == Signed(x, d.length)
           m == IF s > 0 THEN s ELSE 0 - s
           u == Unsigned(x, d.length)
           v == Value(d, r)
           text1 == IntegerText(d.spec, d.length, x, p)
<1>1. d.spec \notin {"literal", "other"} /\ Finds(d, args, 0) /\ ConformingItem(d, args)
  BY Zenon DEF Directive
<1>2. /\ r.width = p.width /\ r.prec = p.prec /\ p.width \in Nat /\ p.prec \in Nat
      /\ r.value = x /\ r.rest = Tail(p.va) /\ r.value = args[0 + Taken(d)]
      /\ "PRECISION" \in r.flags <=> "PRECISION" \in p.flags
      /\ "PRECISION" \notin p.flags => p.prec = 0
      /\ f = r.flags
      /\ "ZEROPAD" \in r.flags => "PRECISION" \notin r.flags
      /\ "HASH" \in r.flags => /\ d.spec \in {"o", "x", "X", "b"}
                               /\ r.flags \cap {"PLUS", "SPACE"} = {}
  <2>1. Agree(d, args, p, r)
    BY DirectiveIs
  <2> HIDE DEF p, r
  <2> QED
    BY <2>1, Zenon DEF Agree
<1>3. x \in Int /\ d.length \in Lengths
  <2>1. d.spec \in {"p"} \cup IntegerSpecs
    OBVIOUS
  <2>2. args[0 + Taken(d)] \in Int /\ d.length \in Lengths
    BY <1>1, <2>1, Zenon DEF Finds
  <2> QED
    BY <1>2, <2>2, Zenon
<1>4. Conforming(Magnitude(v), v < 0, base, r.prec, r.width, r.flags)
  BY <1>1, Zenon DEF ConformingItem
<1>5. base \in Bases /\ base \in Nat \ {0, 1} /\ (d.spec \in {"o", "x", "X", "b"} => base # 10)
  <2>1. d.spec \in {"d", "i", "u", "x", "X", "o", "b"}
    BY DEF IntegerSpecs
  <2> QED
    BY <2>1 DEF Base, Bases
<1>6. /\ s \in Int /\ m \in Nat /\ m = Magnitude(s) /\ Unsigned(m, Promoted(d.length)) = m
      /\ m < Power(2, 64) /\ u \in Nat /\ u < Power(2, 64)
  <2> HIDE DEF x
  <2> QED
    BY <1>3, MagnitudeIs, Zenon
<1>7. Power(2, 64) <= Power(base, 64) /\ Power(2, 64) \in Nat /\ Power(base, 64) \in Nat
  <2>1. 64 \in Nat /\ 2 \in Nat \ {0} /\ base \in Nat \ {0}
    BY <1>5
  <2>2. Power(2, 64) <= Power(base, 64)
    BY <1>5, <2>1, PowerOfMore
  <2>3. Power(2, 64) \in Nat \ {0}
    BY <2>1, PowerPositive, Zenon
  <2>4. Power(base, 64) \in Nat \ {0}
    BY <2>1, PowerPositive, Zenon
  <2> QED
    BY <2>2, <2>3, <2>4
<1>8. StandardItem(d, args)
        = <<Standard(Magnitude(v), v < 0, base, r.prec, r.width, r.flags), r.rest>>
  <2>1. d.spec \in {"d", "i", "u", "x", "X", "o", "b"} /\ d.spec \notin FloatSpecs
        /\ d.spec \notin {"c", "s", "p"}
    BY DEF IntegerSpecs, FloatSpecs
  <2> DEFINE std == Standard(Magnitude(v), v < 0, base, r.prec, r.width, r.flags)
             cut == IF "PRECISION" \in r.flags
                    THEN SubSeq(r.value, 1, Smaller(Len(r.value), r.prec)) ELSE r.value
             one == CASE d.spec = "c" -> Padded(<<r.value>>, 1, r.width, r.flags)
                      [] d.spec = "s" -> Padded(cut, Len(cut), r.width, r.flags)
                      [] d.spec = "p" -> Standard(Unsigned(r.value, "ll"), FALSE, 16, 0,
                                                  Bits["ll"] \div 4, {"ZEROPAD", "UPPERCASE"})
                      [] d.spec \in FloatSpecs ->
                           StandardFloat(LowerCase(d.spec), r.value, r.prec, r.width, r.flags)
                      [] d.spec \in IntegerSpecs -> std
  <2>2. StandardItem(d, args) = <<one, r.rest>>
    BY <1>1, Zenon DEF StandardItem
  <2>3. one = std
    <3> HIDE DEF std, cut, r
    <3> QED
      BY <2>1
  <2> QED
    BY <2>2, <2>3, Zenon
<1>9. ASSUME NEW n \in Nat, NEW negative \in BOOLEAN, n < Power(2, 64), "HASH" \in f => ~negative,
             Conforming(n, negative, base, p.prec, p.width, f)
      PROVE  _ntoa_long(n, negative, base, p.prec, p.width, f)
               = Standard(n, negative, base, p.prec, p.width, f)
  <2> HIDE DEF p, r, base, f
  <2>1. Legal(negative, base, p.prec, f)
    BY <1>2, <1>5, <1>9, Zenon DEF Legal
  <2>2. n < Power(base, 64)
    BY <1>7, <1>9
  <2> QED
    BY <1>2, <1>5, <1>9, <2>1, <2>2, NtoaConforms
<1>10. CASE d.spec \in {"d", "i"}
  <2>1. v = s
    BY <1>2, <1>10, Zenon DEF Value
  <2>2. text1 = _ntoa_long(m, s < 0, base, p.prec, p.width, f)
    BY <1>6, <1>10, Zenon DEF IntegerText
  <2>3. (s < 0) \in BOOLEAN
    <3> HIDE DEF s
    <3> QED
      BY <1>6
  <2>4. "HASH" \notin f
    <3>1. d.spec \notin {"o", "x", "X", "b"}
      BY <1>10
    <3> QED
      BY <1>2, <3>1, Zenon
  <2>5. Conforming(m, s < 0, base, p.prec, p.width, f)
    BY <1>2, <1>4, <1>6, <2>1, Zenon
  <2>6. _ntoa_long(m, s < 0, base, p.prec, p.width, f)
          = Standard(m, s < 0, base, p.prec, p.width, f)
    BY <1>6, <1>9, <2>3, <2>4, <2>5, Zenon
  <2> QED
    BY <1>2, <1>6, <1>8, <2>1, <2>2, <2>6, Zenon
<1>11. CASE d.spec \notin {"d", "i"}
  <2>1. v = u
    BY <1>2, <1>11, Zenon DEF Value
  <2>2. text1 = _ntoa_long(u, FALSE, base, p.prec, p.width, f)
    BY <1>11, Zenon DEF IntegerText
  <2>3. (u < 0) = FALSE /\ Magnitude(u) = u
    <3> HIDE DEF u
    <3> QED
      BY <1>6 DEF Magnitude
  <2>4. Conforming(u, FALSE, base, p.prec, p.width, f)
    BY <1>2, <1>4, <2>1, <2>3, Zenon
  <2>5. _ntoa_long(u, FALSE, base, p.prec, p.width, f)
          = Standard(u, FALSE, base, p.prec, p.width, f)
    BY <1>6, <1>9, <2>4, Zenon
  <2> QED
    BY <1>2, <1>8, <2>1, <2>2, <2>3, <2>5, Zenon
<1> QED
  BY <1>10, <1>11, Zenon

LEMMA StandardItemIs ==
  ASSUME NEW d, d.spec \notin {"literal", "other"}, NEW args
  PROVE  LET r == Read(d, args)
             cut == IF "PRECISION" \in r.flags
                    THEN SubSeq(r.value, 1, Smaller(Len(r.value), r.prec)) ELSE r.value
         IN  /\ d.spec = "c" =>
                  StandardItem(d, args) = <<Padded(<<r.value>>, 1, r.width, r.flags), r.rest>>
             /\ d.spec = "s" =>
                  StandardItem(d, args) = <<Padded(cut, Len(cut), r.width, r.flags), r.rest>>
             /\ d.spec = "p" =>
                  StandardItem(d, args)
                    = <<Standard(Unsigned(r.value, "ll"), FALSE, 16, 0, Bits["ll"] \div 4,
                                 {"ZEROPAD", "UPPERCASE"}), r.rest>>
<1> DEFINE r == Read(d, args)
           v == Value(d, r)
           cut == IF "PRECISION" \in r.flags
                  THEN SubSeq(r.value, 1, Smaller(Len(r.value), r.prec)) ELSE r.value
           char == Padded(<<r.value>>, 1, r.width, r.flags)
           string == Padded(cut, Len(cut), r.width, r.flags)
           pointer == Standard(Unsigned(r.value, "ll"), FALSE, 16, 0, Bits["ll"] \div 4,
                               {"ZEROPAD", "UPPERCASE"})
           float == StandardFloat(LowerCase(d.spec), r.value, r.prec, r.width, r.flags)
           integer == Standard(Magnitude(v), v < 0, Base(d.spec), r.prec, r.width, r.flags)
           one == CASE d.spec = "c" -> char
                    [] d.spec = "s" -> string
                    [] d.spec = "p" -> pointer
                    [] d.spec \in FloatSpecs -> float
                    [] d.spec \in IntegerSpecs -> integer
<1>1. StandardItem(d, args) = <<one, r.rest>>
  BY Zenon DEF StandardItem
<1> HIDE DEF r, cut, char, string, pointer, float, integer
<1>2. d.spec = "c" => one = char
  BY DEF FloatSpecs, IntegerSpecs
<1>3. d.spec = "s" => one = string
  BY DEF FloatSpecs, IntegerSpecs
<1>4. d.spec = "p" => one = pointer
  BY DEF FloatSpecs, IntegerSpecs
<1> HIDE DEF one
<1> QED
  BY <1>1, <1>2, <1>3, <1>4, Zenon DEF char, string, pointer, cut, r

LEMMA PointerConforms ==
  ASSUME NEW d, NEW args, Directive(d, args), d.spec = "p"
  PROVE  LET p == Parse(d, args)
         IN  <<PointerText(Head(p.va), p), Tail(p.va)>> = StandardItem(d, args)
<1> DEFINE p == Parse(d, args)
           r == Read(d, args)
           u == Unsigned(r.value, "ll")
           w == Bits["ll"] \div 4
           f == {"ZEROPAD", "UPPERCASE"}
<1>1. d.spec \notin {"literal", "other"} /\ Finds(d, args, 0) /\ ConformingItem(d, args)
  BY Zenon DEF Directive
<1>2. Agree(d, args, p, r)
  BY DirectiveIs
<1>3. d.flags = {} /\ r.flags = {} /\ Conforming(u, FALSE, 16, 0, w, f)
  BY <1>1, Zenon DEF ConformingItem
<1> HIDE DEF p, r
<1>4. /\ r.value = Head(p.va) /\ r.rest = Tail(p.va) /\ r.value = args[0 + Taken(d)]
      /\ "LEFT" \in r.flags <=> "LEFT" \in p.flags
      /\ "PRECISION" \in r.flags <=> "PRECISION" \in p.flags
      /\ "PRECISION" \notin p.flags => p.prec = 0
      /\ p.flags \subseteq d.flags \cup {"LEFT", "PRECISION"}
  BY <1>2, Zenon DEF Agree
<1>5. p.flags = {} /\ p.prec = 0
  BY <1>3, <1>4
<1>6. r.value \in Int
  <2>1. d.spec \in {"p"} \cup IntegerSpecs
    OBVIOUS
  <2> QED
    BY <1>1, <1>4, <2>1, Zenon DEF Finds
<1>7. u \in Nat /\ u < Power(16, 64)
  <2>1. u \in Nat /\ u < Power(2, 64)
    <3>1. "ll" \in Lengths
      BY DEF Lengths
    <3> QED
      BY <1>6, <3>1, MagnitudeIs, Zenon
  <2>2. 64 \in Nat /\ 16 \in Nat \ {0, 1} /\ 16 \in Nat \ {0} /\ 2 \in Nat \ {0}
    OBVIOUS
  <2>3. Power(2, 64) <= Power(16, 64)
    BY <2>2, PowerOfMore
  <2>4. Power(2, 64) \in Nat \ {0} /\ Power(16, 64) \in Nat \ {0}
    BY <2>2, PowerPositive
  <2> HIDE DEF u
  <2> QED
    BY <2>1, <2>3, <2>4
<1>8. w \in Nat
  <2>1. Bits["ll"] \in 1 .. 64
    <3>1. "ll" \in Lengths
      BY DEF Lengths
    <3> QED
      BY <3>1, Widths
  <2>2. \A b \in 1 .. 64 : b \div 4 \in Nat
    OBVIOUS
  <2> QED
    BY <2>1, <2>2, Zenon
<1>9. Legal(FALSE, 16, 0, f)
  <2>1. "PRECISION" \notin f /\ "HASH" \notin f
    OBVIOUS
  <2> QED
    BY <2>1, Zenon DEF Legal
<1> HIDE DEF u, w, f
<1>10. _ntoa_long(u, FALSE, 16, 0, w, f) = Standard(u, FALSE, 16, 0, w, f)
  <2> DEFINE base == 16
             prec == 0
             no == FALSE
  <2>1. base \in Bases /\ no \in BOOLEAN /\ prec \in Nat
    BY DEF Bases
  <2>2. u < Power(base, 64) /\ Legal(no, base, prec, f) /\ Conforming(u, no, base, prec, w, f)
    BY <1>3, <1>7, <1>9, Zenon DEF u, w, f
  <2> HIDE DEF base, prec, no
  <2>3. _ntoa_long(u, no, base, prec, w, f) = Standard(u, no, base, prec, w, f)
    BY <1>7, <1>8, <2>1, <2>2, NtoaConforms
  <2> QED
    BY <2>3, Zenon DEF base, prec, no
<1>11. PointerText(Head(p.va), p) = _ntoa_long(u, FALSE, 16, 0, w, f)
  <2>1. {} \cup {"ZEROPAD", "UPPERCASE"} = f
    BY DEF f
  <2>2. PointerText(Head(p.va), p)
          = _ntoa_long(Unsigned(Head(p.va), "ll"), FALSE, 16, p.prec, Bits["ll"] \div 4,
                       p.flags \cup {"ZEROPAD", "UPPERCASE"})
    BY Zenon DEF PointerText
  <2> QED
    BY <1>4, <1>5, <2>1, <2>2, Zenon DEF u, w
<1>12. StandardItem(d, args) = <<Standard(u, FALSE, 16, 0, w, f), r.rest>>
  BY <1>1, StandardItemIs, Zenon DEF u, w, f, r
<1> QED
  BY <1>4, <1>10, <1>11, <1>12, Zenon DEF p

LEMMA CharConforms ==
  ASSUME NEW d, NEW args, Directive(d, args), d.spec = "c"
  PROVE  LET p == Parse(d, args)
         IN  <<CharText(Head(p.va), p), Tail(p.va)>> = StandardItem(d, args)
<1> DEFINE p == Parse(d, args)
           r == Read(d, args)
<1>1. d.spec \notin {"literal", "other"}
  BY Zenon DEF Directive
<1>2. Agree(d, args, p, r)
  BY DirectiveIs
<1>3. StandardItem(d, args) = <<Padded(<<r.value>>, 1, r.width, r.flags), r.rest>>
  BY <1>1, StandardItemIs, Zenon
<1> HIDE DEF p, r
<1>4. /\ r.width = p.width /\ r.value = Head(p.va) /\ r.rest = Tail(p.va)
      /\ "LEFT" \in r.flags <=> "LEFT" \in p.flags
  BY <1>2, Zenon DEF Agree
<1>5. CharText(Head(p.va), p) = Padded(<<r.value>>, 1, r.width, r.flags)
  BY <1>4, Zenon DEF CharText, Padded
<1> QED
  BY <1>3, <1>4, <1>5, Zenon DEF p

\* The length the code counts a string for is that of what it outputs of it.
LEMMA StringConforms ==
  ASSUME NEW d, NEW args, Directive(d, args), d.spec = "s"
  PROVE  LET p == Parse(d, args)
         IN  <<StringText(Head(p.va), p), Tail(p.va)>> = StandardItem(d, args)
<1> DEFINE p == Parse(d, args)
           r == Read(d, args)
           s == r.value
           limited == "PRECISION" \in p.flags
           len == IF p.prec # 0 THEN _strnlen_s(s, p.prec) ELSE Len(s)
           l == IF limited THEN Smaller(len, p.prec) ELSE len
           cut == IF limited THEN SubSeq(s, 1, Smaller(Len(s), p.prec)) ELSE s
<1>1. d.spec \notin {"literal", "other"} /\ Finds(d, args, 0)
  BY Zenon DEF Directive
<1>2. Agree(d, args, p, r)
  BY DirectiveIs
<1>3. StandardItem(d, args)
        = <<Padded(IF "PRECISION" \in r.flags
                   THEN SubSeq(r.value, 1, Smaller(Len(r.value), r.prec)) ELSE r.value,
                   Len(IF "PRECISION" \in r.flags
                       THEN SubSeq(r.value, 1, Smaller(Len(r.value), r.prec)) ELSE r.value),
                   r.width, r.flags), r.rest>>
  BY <1>1, StandardItemIs, Zenon
<1> HIDE DEF p, r
<1>4. /\ r.width = p.width /\ r.prec = p.prec /\ p.prec \in Nat
      /\ r.value = Head(p.va) /\ r.rest = Tail(p.va) /\ r.value = args[0 + Taken(d)]
      /\ "LEFT" \in r.flags <=> "LEFT" \in p.flags
      /\ "PRECISION" \in r.flags <=> limited
      /\ ~limited => p.prec = 0
  BY <1>2, Zenon DEF Agree
<1>5. Text(s) /\ Len(s) \in Nat
  <2>1. s \in Seq(Chars \ {NUL})
    BY <1>1, <1>4, Zenon DEF Finds
  <2> HIDE DEF s
  <2> QED
    BY <2>1 DEF Text
<1>6. StringText(Head(p.va), p) = Padded(cut, l, p.width, p.flags)
  <2>1. StringText(s, p) = Padded(cut, l, p.width, p.flags)
    BY Zenon DEF StringText
  <2> QED
    BY <1>4, <2>1, Zenon
<1> HIDE DEF s
<1>7. Len(cut) = l
  <2>1. CASE limited
    <3> DEFINE n == Smaller(Len(s), p.prec)
    <3>1. n \in 0 .. Len(s) /\ n \in Nat /\ l = n
      <4>1. l = Smaller(len, p.prec)
        BY <2>1
      <4> QED
        BY <1>4, <1>5, <4>1 DEF Smaller, _strnlen_s
    <3>2. cut = SubSeq(s, 1, n)
      BY <2>1
    <3> HIDE DEF n, l
    <3>3. Len(SubSeq(s, 1, n)) = n
      BY <1>5, <3>1 DEF Text
    <3> QED
      BY <3>1, <3>2, <3>3, Zenon
  <2>2. CASE ~limited
    BY <1>4, <2>2
  <2> QED
    BY <2>1, <2>2
<1>8. cut = (IF "PRECISION" \in r.flags
             THEN SubSeq(r.value, 1, Smaller(Len(r.value), r.prec)) ELSE r.value)
  BY <1>4, Zenon DEF s
<1> HIDE DEF cut, l
<1>9. Padded(cut, Len(cut), p.width, p.flags) = Padded(cut, Len(cut), r.width, r.flags)
  BY <1>4, Zenon DEF Padded
<1> QED
  BY <1>3, <1>4, <1>6, <1>7, <1>8, <1>9, Zenon DEF p

\* Every conforming item that is not of a floating point number outputs what C
\* requires and takes exactly its own arguments, whatever the calls, the
\* widths of the integer types and the size of the buffer.
THEOREM PrintfItemsConform == Spec => ItemsConform
<1> DEFINE Conforms == (/\ format # <<>> /\ format' = Tail(format)
                        /\ Head(format).spec \notin FloatSpecs /\ ConformingItem(Head(format), va))
                          => <<text', va'>> = StandardItem(Head(format), va)
<1>1. ASSUME PInv, [Next]_vars PROVE [Conforms]_vars
  <2> SUFFICES ASSUME Next, format # <<>>, format' = Tail(format),
                      Head(format).spec \notin FloatSpecs, ConformingItem(Head(format), va)
               PROVE  <<text', va'>> = StandardItem(Head(format), va)
    BY <1>1
  <2> DEFINE d == Head(format)
             p == Parse(d, va)
  <2>1. Sequence(va) /\ Finds(d, va, 0)
    BY <1>1, Here
  <2>2. Sequence(format)
    BY <1>1 DEF PInv, Reading, Drops
  <2>3. format' # format
    <3>1. Len(Tail(format)) = Len(format) - 1 /\ Len(format) \in Nat
      BY <2>2, Rest DEF Sequence
    <3>2. \A n \in Nat : n - 1 # n
      OBVIOUS
    <3> QED
      BY <3>1, <3>2, Zenon
  <2>4. d.spec \notin {"literal", "other"} => Directive(d, va)
    BY <2>1, Zenon DEF Directive
  <2> HIDE DEF d, p
  <2>12. CASE Other
    <3>1. d.spec = "other" /\ text' = <<d.ch>> /\ va' = p.va
      BY <2>12 DEF Other, AtItem, Emit, d, p
    <3>2. StandardItem(d, va) = <<<<d.ch>>, va>>
      BY <3>1, Zenon DEF StandardItem
    <3>3. d.width = 0 /\ d.prec = None
      BY <3>1, Zenon DEF ConformingItem, d
    <3>4. p.va = va
      BY <3>3 DEF p, Parse, Star, None
    <3> QED
      BY <3>1, <3>2, <3>4, Zenon DEF d
  <2>5. CASE Literal
    <3>1. d.spec = "literal" /\ text' = <<d.ch>> /\ va' = va
      BY <2>5 DEF Literal, AtItem, Emit, d
    <3>2. StandardItem(d, va) = <<<<d.ch>>, va>>
      BY <3>1, Zenon DEF StandardItem
    <3> QED
      BY <3>1, <3>2, Zenon DEF d
  <2>6. CASE Integer
    <3>1. d.spec \in IntegerSpecs /\ text' = IntegerText(d.spec, d.length, Head(p.va), p)
          /\ va' = Tail(p.va)
      BY <2>6 DEF Integer, AtItem, Emit, d, p
    <3>2. d.spec \notin {"literal", "other"}
      BY <3>1 DEF IntegerSpecs
    <3>3. <<IntegerText(d.spec, d.length, Head(p.va), p), Tail(p.va)>> = StandardItem(d, va)
      BY <2>4, <3>1, <3>2, IntegerConforms, Zenon DEF p
    <3> QED
      BY <3>1, <3>3, Zenon DEF d
  <2>7. CASE Pointer
    <3>1. d.spec = "p" /\ text' = PointerText(Head(p.va), p) /\ va' = Tail(p.va)
      BY <2>7 DEF Pointer, AtItem, Emit, d, p
    <3>2. d.spec \notin {"literal", "other"}
      BY <3>1
    <3>3. <<PointerText(Head(p.va), p), Tail(p.va)>> = StandardItem(d, va)
      BY <2>4, <3>1, <3>2, PointerConforms, Zenon DEF p
    <3> QED
      BY <3>1, <3>3, Zenon DEF d
  <2>8. CASE Float
    BY <2>8 DEF Float, AtItem
  <2>9. CASE Char
    <3>1. d.spec = "c" /\ text' = CharText(Head(p.va), p) /\ va' = Tail(p.va)
      BY <2>9 DEF Char, AtItem, Emit, d, p
    <3>2. d.spec \notin {"literal", "other"}
      BY <3>1
    <3>3. <<CharText(Head(p.va), p), Tail(p.va)>> = StandardItem(d, va)
      BY <2>4, <3>1, <3>2, CharConforms, Zenon DEF p
    <3> QED
      BY <3>1, <3>3, Zenon DEF d
  <2>10. CASE String
    <3>1. d.spec = "s" /\ text' = StringText(Head(p.va), p) /\ va' = Tail(p.va)
      BY <2>10 DEF String, AtItem, Emit, d, p
    <3>2. d.spec \notin {"literal", "other"}
      BY <3>1
    <3>3. <<StringText(Head(p.va), p), Tail(p.va)>> = StandardItem(d, va)
      BY <2>4, <3>1, <3>2, StringConforms, Zenon DEF p
    <3> QED
      BY <3>1, <3>3, Zenon DEF d
  <2>11. CASE OutputChar \/ Terminate
    BY <2>3, <2>11 DEF OutputChar, Terminate
  <2> QED
    BY <2>5, <2>6, <2>7, <2>8, <2>9, <2>10, <2>11, <2>12 DEF Next
<1> QED
  BY <1>1, Invariant, PTL DEF Spec, ItemsConform
=============================================================================
