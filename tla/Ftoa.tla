-------------------------------- MODULE Ftoa --------------------------------
(***************************************************************************)
(* The floating point conversions of printf.c, _ftoa and _etoa, as         *)
(* functions from their arguments to the text they output.                 *)
(*                                                                         *)
(* A double is [class, neg, n, d], n/d its magnitude when it is finite: d  *)
(* is a power of two and n has DoubleBits significant bits.  The           *)
(* arithmetic of _ftoa is the processor's: its one product is rounded to   *)
(* as many bits, all the rest is exact.  The quotient that _etoa hands to  *)
(* _ftoa is taken as exact: what it misses shows in digits only where they *)
(* end halfway, and what the power of ten under it misses is in Exponents. *)
(***************************************************************************)
EXTENDS Ntoa, FiniteSets

CONSTANTS
  FtoaBufferSize,  \* PRINTF_FTOA_BUFFER_SIZE, 32 in the build
  DoubleBits       \* the bits of a double's significand: 53

ASSUME FtoaAssumption == FtoaBufferSize \in Nat \ {0} /\ DoubleBits \in Nat \ {0}

Classes == {"nan", "inf", "finite"}
DefaultPrecision == 6  \* PRINTF_DEFAULT_FLOAT_PRECISION
LastPower == 9         \* the last index of pow10

\* What buf keeps when each append checks for room.
InFtoaBuffer(chars) == SubSeq(chars, 1, Smaller(Len(chars), FtoaBufferSize))

\* nan and the infinities, spelled backwards.
SpecialText(v, width, flags) ==
  _out_rev(CASE v.class = "nan" -> <<"n", "a", "n">>
             [] v.class = "inf" /\ v.neg -> <<"f", "n", "i", "-">>
             [] v.class = "inf" /\ ~v.neg ->
                  <<"f", "n", "i">> \o (IF "PLUS" \in flags THEN <<"+">> ELSE <<>>),
           width, flags)

\* The precision left when the loop that limits it has filled the buffer with
\* zeros or come down to 9: the index into pow10.
TableIndex(prec) == IF prec > LastPower THEN prec - Smaller(prec - LastPower, FtoaBufferSize)
                    ELSE prec

\* t to the nearest multiple of unit, ties to even.
RoundedTo(t, unit) ==
  LET rest == t % unit IN
  IF 2 * rest > unit \/ (2 * rest = unit /\ (t \div unit) % 2 = 1) THEN t - rest + unit
  ELSE t - rest

\* A natural number to DoubleBits significant bits.
ToDouble(t) ==
  RoundedTo(t, Power(2, First(0, 64, LAMBDA k : t \div Power(2, DoubleBits - 1 + k) < 2)))

\* (value - whole) * pow10[prec], times d.
Product(n, d, p) == ToDouble((n % d) * Power(10, p))


\* The whole part and the fraction's p digits, of which tmp / d is the product:
\* up above one half, to an even (or a zero) digit at one half; without digits
\* whole is corrected instead.  Only above one half is a fraction that comes to
\* one carried.
RoundedAt(n, d, p, tmp) ==
  LET whole == n \div d
      frac  == tmp \div d
      twice == 2 * (tmp % d)
      r == CASE twice > d /\ frac + 1 >= Power(10, p) -> <<whole + 1, 0>>
             [] \/ twice > d /\ frac + 1 < Power(10, p)
                \/ twice = d /\ (frac = 0 \/ frac % 2 = 1) -> <<whole, frac + 1>>
             [] OTHER -> <<whole, frac>>
  IN  IF p = 0 /\ 2 * (n - r[1] * d) >= d /\ r[1] % 2 = 1 THEN <<r[1] + 1, r[2]>> ELSE r

Rounded(n, d, p) == RoundedAt(n, d, p, Product(n, d, p))


\* The fraction and its point.  One digit too many takes count below zero, and
\* the loop that adds zeros then goes on to the end of the buffer.
Fraction(frac, p) ==
  CASE p = 0 -> <<>>
    [] p > 0 /\ frac < Power(10, p) -> Figures(frac, 10, p, {}) \o <<".">>
    [] p > 0 /\ frac >= Power(10, p) ->
         Figures(frac, 10, p + 1, {}) \o Copies(FtoaBufferSize, "0")

\* value < 0, which a zero never is, whatever its sign.
Negative(v) == v.neg /\ v.n # 0

\* _ftoa from its test for negative on.  When TableIndex exceeds 9 the buffer
\* is full of zeros, and what is read behind pow10 does not show.
FixedText(v, given, width, flags) ==
  LET prec  == IF "PRECISION" \in flags THEN given ELSE DefaultPrecision
      p     == Smaller(prec, LastPower)
      r     == Rounded(v.n, v.d, p)
      point == Fraction(r[2], p)
      num   == InFtoaBuffer(Copies(prec - p, "0") \o point
                              \o Figures(r[1], 10, DigitCount(r[1], 10), {}))
      zeros == "LEFT" \notin flags /\ "ZEROPAD" \in flags
      w     == IF zeros /\ width > 0 /\ (Negative(v) \/ flags \cap {"PLUS", "SPACE"} # {})
               THEN width - 1 ELSE width
      padded == IF zeros THEN num \o Copies(w - Len(num), "0") ELSE num
  IN  _out_rev(InFtoaBuffer(padded \o Sign(Negative(v), flags)), w, flags)

-----------------------------------------------------------------------------
\* Comparison of n/d with 1e-4, 1e6 and PRINTF_MAX_FLOAT.
InFixedRange(v) == (v.n >= v.d \/ v.n * Power(10, 4) >= v.d) /\ v.n \div v.d < Power(10, 6)
VeryLarge(v) == (v.n - 1) \div v.d >= Power(10, 9)

\* The decimal exponent of n/d.
FloorLog10(n, d) ==
  IF n >= d THEN NumeralLength(n \div d, 10) - 1
  ELSE -First(1, 308, LAMBDA k : n * Power(10, k) >= d)

\* The exponents _etoa can arrive at.  Its power of ten is computed in double
\* precision and comes out too large for many exponents, so that an exact
\* power of ten may be found smaller; zero is found to be 0e-308.
Exponents(v) ==
  IF v.n = 0 THEN {-308}
  ELSE LET e == FloorLog10(v.n, v.d) IN
       IF e > 0 /\ v.n = v.d * Power(10, e) THEN {e - 1, e} ELSE {e}

\* v over ten to the e.
Rescaled(v, e) ==
  CASE v.n = 0 \/ e = 0 -> v
    [] v.n # 0 /\ e > 0 -> [v EXCEPT !.d = @ * Power(10, e)]
    [] v.n # 0 /\ e < 0 -> [v EXCEPT !.n = @ * Power(10, -e)]

\* _etoa of a finite v for which it arrives at the exponent expval.
EtoaText(v, expval, given, width, flags) ==
  LET limited == "PRECISION" \in flags
      prec  == IF limited THEN given ELSE DefaultPrecision
      adapt == "ADAPT_EXP" \in flags
      fixed == adapt /\ InFixedRange(v)
      e     == IF fixed THEN 0 ELSE expval
      decimals == CASE fixed -> IF prec > expval THEN prec - expval - 1 ELSE 0
                    [] ~fixed /\ adapt /\ limited /\ prec > 0 -> prec - 1
                    [] OTHER -> prec
      minwidth == CASE fixed -> 0
                    [] ~fixed /\ expval \in -99 .. 99 -> 4
                    [] OTHER -> 5
      left   == "LEFT" \in flags /\ ~fixed
      fwidth == IF left \/ width <= minwidth THEN 0 ELSE width - minwidth
      mantissa == FixedText(Rescaled(v, e), decimals, fwidth,
                            flags \cup (IF fixed THEN {"PRECISION"} ELSE {}))
      exponent == <<IF "UPPERCASE" \in flags THEN "E" ELSE "e">>
                    \o _ntoa_long(IF e < 0 THEN -e ELSE e, e < 0, 10, 0, minwidth - 1,
                                  {"ZEROPAD", "PLUS"})
      both   == IF fixed THEN mantissa ELSE mantissa \o exponent
  IN  IF left THEN both \o Copies(width - Len(both), " ") ELSE both

\* The texts of _etoa and of _ftoa.
_etoa(v, prec, width, flags) ==
  IF v.class # "finite" THEN {SpecialText(v, width, flags)}
  ELSE {EtoaText(v, e, prec, width, flags) : e \in Exponents(v)}

_ftoa(v, prec, width, flags) ==
  IF v.class = "finite" /\ ~VeryLarge(v) THEN {FixedText(v, prec, width, flags)}
  ELSE _etoa(v, prec, width, flags)
-----------------------------------------------------------------------------
(* What the C standard prescribes for the same conversions.                *)

\* n/d to the nearest p decimals, ties to even: whole part and fraction.
Nearest(n, d, p) ==
  LET units == (n % d) * Power(10, p)
      q     == units \div d
      twice == 2 * (units % d)
      odd   == (IF p = 0 THEN n \div d + q ELSE q) % 2 = 1
      f     == IF twice > d \/ (twice = d /\ odd) THEN q + 1 ELSE q
  IN  <<n \div d + f \div Power(10, p), f % Power(10, p)>>

Decimal(n, d, p) ==
  LET r == Nearest(n, d, p) IN
  Numeral(r[1], 10, {}) \o (IF p = 0 THEN <<>> ELSE <<".">> \o LastDigits(r[2], 10, p, {}))

\* The number of decimals of a d.ddd mantissa that "%e" and "%g" ask for.
MantissaDecimals(prec, flags) ==
  LET p == IF "PRECISION" \in flags THEN prec ELSE 6 IN
  CASE "ADAPT_EXP" \notin flags -> p
    [] "ADAPT_EXP" \in flags /\ p > 0 -> p - 1
    [] OTHER -> 0

RoundsToTen(v, p) ==
  LET m == Rescaled(v, FloorLog10(v.n, v.d)) IN Nearest(m.n, m.d, p)[1] = 10

Scientific(v, p, flags) ==
  LET e == FloorLog10(v.n, v.d)
      m == Rescaled(v, e)
  IN  Decimal(m.n, m.d, p)
        \o <<IF "UPPERCASE" \in flags THEN "E" ELSE "e", IF e < 0 THEN "-" ELSE "+">>
        \o Copies(2 - NumeralLength(IF e < 0 THEN -e ELSE e, 10), "0")
        \o Numeral(IF e < 0 THEN -e ELSE e, 10, {})

\* "%g" is fixed when the exponent is at least -4 and below the precision.
FixedForG(v, p) == FloorLog10(v.n, v.d) \in -4 .. p

\* The product of which p decimals of v are taken is not rounded.
Exact(v, p) == Product(v.n, v.d, p) = (v.n % v.d) * Power(10, p)
Halfway(v, p) == 2 * (((v.n % v.d) * Power(10, p)) % v.d) = v.d

StandardFloat(spec, v, prec, width, flags) ==
  LET p == MantissaDecimals(prec, flags) IN
  IF v.class # "finite"
  THEN InField(Sign(v.neg, flags),
               IF v.class = "nan" THEN <<"n", "a", "n">> ELSE <<"i", "n", "f">>,
               width, flags \ {"ZEROPAD"})
  ELSE InField(Sign(v.neg, flags),
               CASE spec = "f" -> Decimal(v.n, v.d, p)
                 [] spec = "g" /\ FixedForG(v, p) ->
                      Decimal(v.n, v.d, p - FloorLog10(v.n, v.d))
                 [] OTHER -> Scientific(v, p, flags),
               width, flags)

(* Where the code departs from that:                                       *)
(*  - nan and infinity take no zero padding for spaces, no upper case, and *)
(*    no sign that is not their own;                                       *)
(*  - a negative zero has no sign;                                         *)
(*  - "#" has no effect; more than 9 decimals are zeros in front of the    *)
(*    buffer; zero padding ends with the buffer; "%f" of more than 1e9 is  *)
(*    printed as "%e";                                                     *)
(*  - the product of which the digits are taken can round to a tie or      *)
(*    past one, and a tie of nines fills the buffer with zeros;            *)
(*  - zero is 0e-308, a mantissa that rounds to ten stays ten, which       *)
(*    happens to exact powers of ten as well, and one that ends halfway    *)
(*    goes either way, with the error of the quotient;                     *)
(*  - "%g" keeps trailing zeros, turns to exponents at 1e6 whatever the    *)
(*    precision, and has a digit too many when no precision is given.      *)
ConformingFloat(spec, v, prec, width, flags) ==
  LET p == MantissaDecimals(prec, flags)
      m == Rescaled(v, FloorLog10(v.n, v.d))
  IN  IF v.class # "finite"
      THEN flags \cap {"ZEROPAD", "UPPERCASE", "SPACE"} = {} /\ (v.class = "nan" => "PLUS" \notin flags)
      ELSE /\ "HASH" \notin flags
           /\ v.neg => v.n # 0
           /\ p <= LastPower
           /\ "ZEROPAD" \in flags /\ "LEFT" \notin flags => width <= FtoaBufferSize
           /\ spec = "f" => ~VeryLarge(v) /\ Exact(v, p)
           /\ spec \in {"e", "g"} => /\ v.n # 0
                                     /\ Cardinality(Exponents(v)) = 1
                                     /\ ~RoundsToTen(v, p)
                                     /\ Exact(m, p)
                                     /\ m # v => ~Halfway(m, p)
           /\ spec = "g" => /\ "PRECISION" \in flags /\ prec > 0
                            /\ p > 0 => Nearest(m.n, m.d, p)[2] % 10 # 0
                            /\ FixedForG(v, p) <=> InFixedRange(v)
                            /\ FixedForG(v, p) =>
                                 LET decimals == p - FloorLog10(v.n, v.d)
                                 IN  decimals <= LastPower /\ Exact(v, decimals)

-----------------------------------------------------------------------------
(* Reading a number back, whatever form it was printed in.                 *)

\* Where the first of chars stands in t, or behind its end.
Place(t, chars) == First(1, Len(t) + 1, LAMBDA k : k > Len(t) \/ t[k] \in chars)

Figure(ch) == CHOOSE value \in 0 .. 9 : Lower[value + 1] = ch
FiguresIn(t) == SelectSeq(t, LAMBDA ch : \E value \in 0 .. 9 : Lower[value + 1] = ch)
NumberIn(t) == FoldLeft(LAMBDA value, ch : 10 * value + Figure(ch), 0, FiguresIn(t))

\* The number a text denotes: (whole + frac / 10^decimals) * 10^exponent.
NumberRead(t) ==
  LET point    == Place(t, {".", "e", "E"})
      mark     == Place(t, {"e", "E"})
      fraction == SubSeq(t, point + 1, mark - 1)
      power    == SubSeq(t, mark + 1, Len(t))
  IN  [neg      |-> Place(t, {"-"}) < point,
       whole    |-> NumberIn(SubSeq(t, 1, point - 1)),
       frac     |-> NumberIn(fraction),
       decimals |-> Len(FiguresIn(fraction)),
       exponent |-> IF Place(power, {"-"}) <= Len(power) THEN -NumberIn(power) ELSE NumberIn(power)]

\* The numbers of p decimals next to n/d: not above it, and above it.
DecimalBelow(n, d, p) == <<n \div d, ((n % d) * Power(10, p)) \div d>>
DecimalAbove(n, d, p) ==
  LET b == DecimalBelow(n, d, p) IN
  IF b[2] + 1 = Power(10, p) THEN <<b[1] + 1, 0>> ELSE <<b[1], b[2] + 1>>

\* A reading r of n/d, at the exponent it was read with, is off by half a unit
\* of its last decimal at most.
WithinHalf(r, n, d) ==
  LET twice == 2 * (((n % d) * Power(10, r.decimals)) % d) IN
  \/ <<r.whole, r.frac>> = DecimalBelow(n, d, r.decimals) /\ twice <= d
  \/ <<r.whole, r.frac>> = DecimalAbove(n, d, r.decimals) /\ twice >= d
=============================================================================
