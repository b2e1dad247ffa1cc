------------------------------ MODULE MCPrintf ------------------------------
(* Printf with types of 3, 4, 5 and 7 bits and a buffer of 6 characters,   *)
(* shorter (as in the build) than the binary numeral of the widest type;   *)
(* floating point with the build's own constants, but for doubles of       *)
(* DoubleBits bits.                                                        *)
EXTENDS Printf

MCBits == [length \in Lengths |->
            CASE length = "hh" -> 3 [] length = "h" -> 4 [] length = "" -> 5
              [] length \in {"l", "ll"} -> 7]

MCChars == OwnChars \cup {"A", "B", "C", "R", "=", ":", "[", "%"}

Directive(flags, width, prec, length, spec) ==
  [flags |-> flags, width |-> width, prec |-> prec, length |-> length, spec |-> spec]
Lit(ch) == [spec |-> "literal", ch |-> ch]

\* Every integer directive with these fields, on arguments around the limits
\* of its type; "*" finds 4 or -4 for a width, 2 or -1 for a precision.
IntegerDirectives ==
  {Directive(flags, width, prec, length, spec) :
     flags \in SUBSET {"ZEROPAD", "LEFT", "PLUS", "HASH"}, width \in {0, 5, Star},
     prec \in {None, 3, Star}, length \in {"hh", "ll"},
     spec \in {"d", "u", "X", "o", "b"}}

StarArguments(d) ==
  {w \o p : w \in (IF d.width = Star THEN {<<4>>, <<-4>>} ELSE {<<>>}),
            p \in (IF d.prec = Star THEN {<<2>>, <<-1>>} ELSE {<<>>})}

IntegerCalls ==
  UNION {{[fn |-> "snprintf_", buffer |-> TRUE, count |-> 3, format |-> <<d>>, va |-> s \o <<x>>] :
            s \in StarArguments(d), x \in {0, 5, 2^(MCBits[d.length] - 1), 2^MCBits[d.length] - 1}} :
         d \in IntegerDirectives}

\* "%p", whose width is the code's own whatever the directive says.
PointerCalls ==
  UNION {{[fn |-> "snprintf_", buffer |-> TRUE, count |-> 5, format |-> <<d, Lit(":")>>,
           va |-> s \o <<x>>] : s \in StarArguments(d), x \in {0, 5, 100}} :
         d \in {Directive(flags, width, prec, "", "p") :
                 flags \in SUBSET {"LEFT", "HASH", "PLUS"}, width \in {0, 5, Star},
                 prec \in {None, 2, Star}}}

TextDirectives ==
  {Directive(flags, width, prec, "", spec) :
     flags \in SUBSET {"LEFT"}, width \in {0, 1, 3, Star}, prec \in {None, 0, 2, Star},
     spec \in {"c", "s"}}

TextCalls ==
  UNION {{[fn |-> "sprintf_", buffer |-> TRUE, count |-> 0, format |-> <<d, Lit(":"), d>>,
           va |-> s \o <<x>> \o s \o <<x>>] :
            s \in StarArguments(d), x \in IF d.spec = "c" THEN {"A", NUL}
                                  ELSE {<<>>, <<"A">>, <<"A", "B">>, <<"A", "B", "C">>}} :
         d \in TextDirectives}

\* "%%", and a specifier the switch does not know, in front of another directive.
OtherDirectives ==
  {[d EXCEPT !.spec = "other"] @@ [ch |-> ch] :
     d \in {Directive(flags, width, prec, "", "d") :
            flags \in SUBSET {"LEFT"}, width \in {0, 5, Star}, prec \in {None, 2, Star}},
     ch \in {"%", "R"}}

OtherCalls ==
  UNION {{[fn |-> "snprintf_", buffer |-> TRUE, count |-> 5,
           format |-> <<d, Directive({}, 0, None, "", "d")>>, va |-> s \o <<3>>] :
            s \in StarArguments(d)} : d \in OtherDirectives}

\* Doubles with the largest precision at which TLC's integers hold the result.
Finite(neg, n, d) == [class |-> "finite", neg |-> neg, n |-> n, d |-> d]
Representable(n) == \E k \in 0 .. 30 : n % 2^k = 0 /\ n \div 2^k < 2^DoubleBits
Doubles == {v \in
  {<<Finite(FALSE, 0, 1), 42>>, <<Finite(TRUE, 0, 1), 42>>, <<Finite(FALSE, 1, 2), 42>>, <<Finite(TRUE, 3, 2), 42>>,
   <<Finite(FALSE, 5, 2), 42>>, <<Finite(FALSE, 100, 1), 42>>, <<Finite(TRUE, 1, 8), 7>>,
   <<Finite(FALSE, 7, 8), 6>>, <<Finite(FALSE, 19, 2), 6>>, <<Finite(FALSE, 493, 4), 6>>,
   <<Finite(TRUE, 3199, 32), 6>>, <<Finite(FALSE, 1, 16384), 6>>,
   <<Finite(FALSE, 10, 1), 9>>, <<Finite(FALSE, 61, 64), 7>>, <<Finite(FALSE, 2047, 2048), 6>>,
   <<Finite(FALSE, 1048577, 1), 4>>, <<Finite(TRUE, 2^30, 1), 1>>,
   <<[class |-> "nan", neg |-> FALSE, n |-> 0, d |-> 1], 42>>,
   <<[class |-> "inf", neg |-> FALSE, n |-> 0, d |-> 1], 42>>,
   <<[class |-> "inf", neg |-> TRUE, n |-> 0, d |-> 1], 42>>} :
  Representable(v[1].n)}

FloatCalls ==
  UNION {{[fn |-> "snprintf_", buffer |-> TRUE, count |-> 3,
           format |-> <<Directive(flags, width, prec, "", spec)>>, va |-> <<v[1]>>] :
            flags \in {{}, {"ZEROPAD", "SPACE"}, {"LEFT", "PLUS"}},
            width \in {0, 13}, spec \in FloatSpecs,
            prec \in {q \in {None, 0, 1, 3, 9, 12, 42} :
                       (IF q = None THEN 6 ELSE q) <= v[2]}} :
         v \in Doubles}

Percent == Directive({}, 0, None, "", "other") @@ [ch |-> "%"]

\* The shapes of the kernel's own lines, through every function and with
\* every count from none to more than enough.
KernelLines ==
  {[format |-> <<Lit("="), Directive({"ZEROPAD"}, 2, None, "l", "X"), Lit("n")>>, va |-> <<93>>],
   [format |-> <<Directive({"ZEROPAD"}, 2, None, "", "x"), Lit(":"), Directive({}, 0, None, "", "d")>>,
    va |-> <<5, -7>>],
   [format |-> <<Directive({}, 0, None, "", "s"), Lit("["), Directive({}, 0, None, "l", "u")>>,
    va |-> <<<<"E", "R">>, 12>>],
   [format |-> <<Directive({}, Star, None, "", "i"), Directive({}, 0, None, "", "p")>>,
    va |-> <<-4, 3, 100>>],
   [format |-> <<Percent, Directive({}, 0, None, "", "c"), Lit("n")>>, va |-> <<NUL>>],
   [format |-> <<>>, va |-> <<>>]}

LineCalls ==
  {[fn |-> fn, buffer |-> b, count |-> n, format |-> k.format, va |-> k.va] :
     fn \in {"printf_", "vprintf_", "sprintf_", "snprintf_", "vsnprintf_", "fctprintf"},
     b \in BOOLEAN, n \in 0 .. 9, k \in KernelLines}

MCCalls == IntegerCalls \cup PointerCalls \cup TextCalls \cup OtherCalls \cup FloatCalls
             \cup LineCalls
=============================================================================
