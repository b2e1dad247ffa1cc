-------------------------------- MODULE Ntoa --------------------------------
(***************************************************************************)
(* The integer conversions of printf.c: _ntoa_long and _ntoa_long_long     *)
(* (one function written twice, for the two widths), _ntoa_format and      *)
(* _out_rev, as functions from their arguments to the text they output.    *)
(*                                                                         *)
(* buf, as in the code, holds the number backwards: the least significant  *)
(* digit first, then the padding zeros, the prefix and the sign.           *)
(***************************************************************************)
EXTENDS Integers, Sequences, SequencesExt

CONSTANT BufferSize  \* PRINTF_NTOA_BUFFER_SIZE, 32 in the build

ASSUME NtoaAssumption == BufferSize \in Nat \ {0}

Flags == {"ZEROPAD", "LEFT", "PLUS", "SPACE", "HASH", "UPPERCASE", "PRECISION"}

Lower == <<"0", "1", "2", "3", "4", "5", "6", "7", "8", "9", "a", "b", "c", "d", "e", "f">>
Upper == <<"0", "1", "2", "3", "4", "5", "6", "7", "8", "9", "A", "B", "C", "D", "E", "F">>

Smaller(a, b) == IF a < b THEN a ELSE b
Copies(n, ch) == IF n > 0 THEN [k \in 1 .. n |-> ch] ELSE <<>>

\* buf[len++] = ch, where the code checks for room first.
AppendIfRoom(buf, ch) == IF Len(buf) < BufferSize THEN Append(buf, ch) ELSE buf

\* while ((len < n) && (len < PRINTF_NTOA_BUFFER_SIZE)) buf[len++] = '0';
ZerosUpTo(buf, n) == buf \o Copies(Smaller(n, BufferSize) - Len(buf), "0")

\* The first of lo .. hi with P, or hi.
First(lo, hi, P(_)) ==
  LET Is(k) == P(k) /\ \A j \in lo .. k - 1 : ~P(j)
  IN  IF \E k \in lo .. hi : Is(k) THEN CHOOSE k \in lo .. hi : Is(k) ELSE hi

\* base to the n.
Power(base, n) ==
  LET power[k \in Nat] == IF k = 0 THEN 1 ELSE base * power[k - 1] IN power[n]

Character(digit, flags) ==
  IF "UPPERCASE" \in flags THEN Upper[digit + 1] ELSE Lower[digit + 1]

\* What n rounds of the digit loop, value /= base, leave of value.
Remaining(value, base, n) ==
  LET left[k \in Nat] == IF k = 0 THEN value ELSE left[k - 1] \div base IN left[n]

\* How many rounds it takes with a value of at most 64 bits; zero takes one.
DigitCount(value, base) == First(1, 64, LAMBDA n : Remaining(value, base, n) = 0)

\* The characters of n rounds, the least significant one first.
Figures(value, base, n, flags) ==
  [k \in 1 .. n |-> Character(Remaining(value, base, k - 1) % base, flags)]

\* The digits the do-while loop of _ntoa_long leaves in buf.
Digits(value, base, flags) ==
  IF "PRECISION" \in flags /\ value = 0 THEN <<>>
  ELSE Figures(value, base, Smaller(DigitCount(value, base), BufferSize), flags)

_out_rev(buf, width, flags) ==
  (IF flags \cap {"LEFT", "ZEROPAD"} = {} THEN Copies(width - Len(buf), " ") ELSE <<>>)
    \o Reverse(buf)
    \o (IF "LEFT" \in flags THEN Copies(width - Len(buf), " ") ELSE <<>>)

\* The zeros, for a number that is not left-adjusted.
PadZeros(buf, prec, width, flags) ==
  IF "LEFT" \in flags THEN buf
  ELSE LET b == ZerosUpTo(buf, prec) IN
       IF "ZEROPAD" \in flags THEN ZerosUpTo(b, width) ELSE b

\* The prefix takes the place of the number's last characters when the number
\* is as long as the field, and then follows them.
AddPrefix(buf, base, prec, width, flags) ==
  LET full  == "PRECISION" \notin flags /\ buf # <<>> /\ Len(buf) \in {prec, width}
      taken == IF ~full THEN 0 ELSE IF base = 16 /\ Len(buf) > 1 THEN 2 ELSE 1
      kept  == SubSeq(buf, 1, Len(buf) - taken)
      mark  == CASE base = 16 -> AppendIfRoom(kept, IF "UPPERCASE" \in flags THEN "X" ELSE "x")
                 [] base = 2  -> AppendIfRoom(kept, "b")
                 [] OTHER     -> kept
  IN  IF "HASH" \in flags THEN AppendIfRoom(mark, "0") ELSE buf

AddSign(buf, negative, flags) ==
  CASE negative -> AppendIfRoom(buf, "-")
    [] ~negative /\ "PLUS" \in flags -> AppendIfRoom(buf, "+")
    [] ~negative /\ "PLUS" \notin flags /\ "SPACE" \in flags -> AppendIfRoom(buf, " ")
    [] OTHER -> buf

_ntoa_format(buf, negative, base, prec, width, flags) ==
  LET signed == negative \/ flags \cap {"PLUS", "SPACE"} # {}
      w == IF "LEFT" \notin flags /\ width > 0 /\ "ZEROPAD" \in flags /\ signed
           THEN width - 1 ELSE width
  IN  _out_rev(AddSign(AddPrefix(PadZeros(buf, prec, w, flags), base, prec, w, flags),
                       negative, flags),
               w, flags)

_ntoa_long(value, negative, base, prec, width, flags) ==
  LET f == IF value = 0 THEN flags \ {"HASH"} ELSE flags IN
  _ntoa_format(Digits(value, base, f), negative, base, prec, width, f)

-----------------------------------------------------------------------------
(* What the C standard prescribes for the same conversion.                 *)

Digit(value, base, k) == (value \div Power(base, k)) % base

\* The last n digits of value.
LastDigits(value, base, n, flags) ==
  [k \in 1 .. n |-> Character(Digit(value, base, n - k), flags)]

\* How many digits value needs.
NumeralLength(value, base) == First(1, 64, LAMBDA n : value \div Power(base, n - 1) < base)

Numeral(value, base, flags) == LastDigits(value, base, NumeralLength(value, base), flags)

Sign(negative, flags) ==
  CASE negative -> <<"-">>
    [] ~negative /\ "PLUS" \in flags -> <<"+">>
    [] ~negative /\ "PLUS" \notin flags /\ "SPACE" \in flags -> <<" ">>
    [] OTHER -> <<>>

Prefix(value, base, flags) ==
  CASE "HASH" \in flags /\ value # 0 /\ base = 16 ->
         <<"0", IF "UPPERCASE" \in flags THEN "X" ELSE "x">>
    [] "HASH" \in flags /\ value # 0 /\ base = 2 -> <<"0", "b">>
    [] OTHER -> <<>>

\* Head and digits in a field: spaces before or behind, or zeros in between.
InField(head, digits, width, flags) ==
  LET room == width - Len(head) - Len(digits) IN
  CASE "LEFT" \in flags -> head \o digits \o Copies(room, " ")
    [] "LEFT" \notin flags /\ "ZEROPAD" \in flags -> head \o Copies(room, "0") \o digits
    [] OTHER -> Copies(room, " ") \o head \o digits

\* At least prec digits (one when no precision is given); "#" makes the first
\* digit of an octal number a zero.
Standard(value, negative, base, prec, width, flags) ==
  LET least == IF "PRECISION" \in flags THEN prec ELSE 1
      bare  == IF value = 0 THEN <<>> ELSE Numeral(value, base, flags)
      num   == Copies(least - Len(bare), "0") \o bare
      oct   == IF "HASH" \in flags /\ base = 8 /\ value # 0 /\ num[1] # "0"
               THEN <<"0">> \o num ELSE num
  IN  InField(Sign(negative, flags) \o Prefix(value, base, flags), oct, width, flags)

(* Where the code departs from that, or runs out of its buffer:            *)
(*  - left adjustment skips the padding with zeros altogether, so that the *)
(*    precision has no effect;                                             *)
(*  - the digits, zeros, prefix and sign share BufferSize characters, and  *)
(*    what does not fit is not output;                                     *)
(*  - the prefix replaces the last characters of a number that fills its   *)
(*    field, taking them for padding, also when they are digits;           *)
(*  - a zero-padded binary number loses one zero to a prefix of two;       *)
(*  - an octal number gets its "0" although the precision gave it zeros.   *)
Conforming(value, negative, base, prec, width, flags) ==
  LET n == IF value = 0 /\ "PRECISION" \in flags THEN 0 ELSE NumeralLength(value, base)
      field == IF "ZEROPAD" \in flags THEN width ELSE 0
  IN  /\ "LEFT" \in flags => prec <= n
      /\ Len(Standard(value, negative, base, prec, field, flags)) <= BufferSize
      /\ "HASH" \in flags /\ "PRECISION" \notin flags => width \notin {n, n + 1}
      /\ "HASH" \in flags => /\ base = 2 => "ZEROPAD" \notin flags
                             /\ base = 8 => prec <= n
=============================================================================
