-------------------------------- MODULE Printf ------------------------------
(***************************************************************************)
(* printf.c: _vsnprintf, the output functions it is given and the          *)
(* functions that call it.                                                 *)
(*                                                                         *)
(* A format is a sequence of items, a literal character or a directive     *)
(* [flags, width, prec, length, spec] as written between "%" and the       *)
(* specifier; where that is "%", or a character the code knows no case     *)
(* for, spec is "other" and ch is it.  A directive is one action: what the *)
(* specifier's case does to the arguments, and the characters it passes to *)
(* out, which the following steps output one by one, as the code does.     *)
(* Formats end outside a directive: on a trailing "%" the code runs past   *)
(* the NUL.                                                                *)
(***************************************************************************)
EXTENDS Ftoa

CONSTANTS
  Chars,    \* the characters of formats, strings and %c arguments
  Calls,    \* the calls a run makes: [fn, buffer, count, format, va]
  Bits,     \* Bits[length]: the width of the integer types (8, 16, 32, 64, 64)
  SizeMax,  \* (size_t)-1
  MemSize   \* bound: the bytes of memory from buffer on that are observed

\* "*" for a width or a precision, and a precision that is not there.
Star == -1
None == -2

NUL == "NUL"
Untouched == "untouched"

Lengths == {"hh", "h", "", "l", "ll"}
IntegerSpecs == {"d", "i", "u", "x", "X", "o", "b"}
FloatSpecs == {"f", "F", "e", "E", "g", "G"}

\* The flags a directive can have written behind its "%".
WrittenFlags == {"ZEROPAD", "LEFT", "PLUS", "SPACE", "HASH"}

\* The characters the conversions write of their own.
OwnChars == {Lower[k] : k \in 1 .. 16} \cup {Upper[k] : k \in 1 .. 16}
              \cup {" ", ".", "+", "-", "x", "X", "n", "i", NUL}

\* The arguments an item takes: one for each "*", and its value.
Stars(d) == (IF d.width = Star THEN 1 ELSE 0) + (IF d.prec = Star THEN 1 ELSE 0)
Taken(item) == CASE item.spec = "literal" -> 0
                 [] item.spec = "other"   -> Stars(item)
                 [] OTHER                 -> Stars(item) + 1

Sequence(q) == Len(q) \in Nat /\ q = [k \in 1 .. Len(q) |-> q[k]]

\* An item that finds its arguments, of the types C asks for, behind the first
\* n of args.
Finds(item, args, n) ==
  IF item.spec = "literal" THEN item.ch \in Chars ELSE
    /\ item.spec \in {"c", "s", "p", "other"} \cup IntegerSpecs \cup FloatSpecs
    /\ item.spec = "other" => item.ch \in Chars
    /\ item.flags \subseteq WrittenFlags
    /\ item.width \in Nat \cup {Star} /\ item.prec \in Nat \cup {Star, None}
    /\ item.spec \in IntegerSpecs => item.length \in Lengths
    /\ n + Taken(item) <= Len(args)
    /\ \A k \in 1 .. Stars(item) : args[n + k] \in Int
    /\ LET value == args[n + Taken(item)] IN
         /\ item.spec \in {"p"} \cup IntegerSpecs => value \in Int
         /\ item.spec = "c" => value \in Chars
         /\ item.spec = "s" => value \in Seq(Chars \ {NUL})
         /\ item.spec \in FloatSpecs =>
              value \in [class : Classes, neg : BOOLEAN, n : Nat, d : Nat \ {0}]

\* Behind the first at[k] of args come those of the k-th item.
Places(at, items, args) ==
  /\ at \in [1 .. Len(items) + 1 -> 0 .. Len(args)] /\ at[1] = 0
  /\ \A k \in 1 .. Len(items) : /\ at[k + 1] = at[k] + Taken(items[k])
                                /\ Finds(items[k], args, at[k])

\* Every item of a format finds its arguments, one item's behind the other's.
Matches(items, args) ==
  /\ Sequence(items) /\ Sequence(args)
  /\ \E at \in [1 .. Len(items) + 1 -> 0 .. Len(args)] : Places(at, items, args)

\* What C leaves to the caller.
ASSUME PrintfAssumption ==
  /\ OwnChars \subseteq Chars /\ Untouched \notin Chars
  /\ Bits \in [Lengths -> 1 .. 64] /\ \A length \in {"hh", "h"} : Bits[length] <= Bits[""]
  /\ SizeMax \in Nat
  /\ MemSize \in Nat
  /\ \A c \in Calls :
       /\ c.fn \in {"printf_", "vprintf_", "sprintf_", "snprintf_", "vsnprintf_", "fctprintf"}
       /\ c.buffer \in BOOLEAN
       /\ c.count \in 0 .. SizeMax
       /\ Matches(c.format, c.va)

VARIABLES
  call,    \* the call being executed
  format,  \* the items of its format that remain
  va,      \* the arguments that remain
  text,    \* what the current item has still to output
  idx,     \* characters output
  full,    \* history: all the characters of the items so far
  mem,     \* the memory at buffer
  line,    \* what _putchar, or fctprintf's function, has been given
  ret      \* the value returned, None until then

vars == <<call, format, va, text, idx, full, mem, line, ret>>

-----------------------------------------------------------------------------
(* The callers: which output function they pass, and with what maxlen.     *)

OutFct(c) ==
  CASE c.fn \in {"printf_", "vprintf_"} -> "_out_char"
    [] c.fn = "fctprintf" -> "_out_fct"
    [] c.fn \in {"sprintf_", "snprintf_", "vsnprintf_"} ->
         IF c.buffer THEN "_out_buffer" ELSE "_out_null"

Maxlen(c) == IF c.fn \in {"snprintf_", "vsnprintf_"} THEN c.count ELSE SizeMax

\* Mutant: the terminator is passed on.
OutPassesNul(ch, at) ==
  /\ mem' = IF OutFct(call) = "_out_buffer" /\ at < Maxlen(call)
            THEN [mem EXCEPT ![at] = ch] ELSE mem
  /\ line' = IF OutFct(call) \in {"_out_char", "_out_fct"} THEN Append(line, ch) ELSE line

\* The four output functions.
Out(ch, at) ==
  /\ mem' = IF OutFct(call) = "_out_buffer" /\ at < Maxlen(call)
            THEN [mem EXCEPT ![at] = ch] ELSE mem
  /\ line' = IF OutFct(call) \in {"_out_char", "_out_fct"} /\ ch # NUL
             THEN Append(line, ch) ELSE line

-----------------------------------------------------------------------------
(* Reading a directive: flags, width, precision; "*" takes an argument.    *)

\* Mutant: a negative width does not turn the padding round.
ParseKeepsSide(d, args) ==
  LET w == IF d.width = Star THEN Head(args) ELSE d.width
      afterWidth == IF d.width = Star THEN Tail(args) ELSE args
      p == IF d.prec = Star THEN Head(afterWidth) ELSE d.prec
  IN  [flags |-> d.flags \cup (IF d.prec # None THEN {"PRECISION"} ELSE {}),
       width |-> IF w < 0 THEN -w ELSE w,
       prec  |-> IF p > 0 THEN p ELSE 0,
       va    |-> IF d.prec = Star THEN Tail(afterWidth) ELSE afterWidth]

Parse(d, args) ==
  LET w == IF d.width = Star THEN Head(args) ELSE d.width
      afterWidth == IF d.width = Star THEN Tail(args) ELSE args
      p == IF d.prec = Star THEN Head(afterWidth) ELSE d.prec
  IN  [flags |-> d.flags \cup (IF w < 0 THEN {"LEFT"} ELSE {})
                         \cup (IF d.prec # None THEN {"PRECISION"} ELSE {}),
       width |-> IF w < 0 THEN -w ELSE w,
       prec  |-> IF p > 0 THEN p ELSE 0,
       va    |-> IF d.prec = Star THEN Tail(afterWidth) ELSE afterWidth]

Base(spec) == CASE spec \in {"x", "X"} -> 16
                [] spec = "o" -> 8
                [] spec = "b" -> 2
                [] spec \in {"d", "i", "u"} -> 10

IntegerFlags(spec, flags) ==
  LET noHash == IF Base(spec) = 10 THEN {"HASH"} ELSE {}
      noSign == IF spec \in {"d", "i"} THEN {} ELSE {"PLUS", "SPACE"}
      noZero == IF "PRECISION" \in flags THEN {"ZEROPAD"} ELSE {}
      upper  == IF spec = "X" THEN {"UPPERCASE"} ELSE {}
  IN  (flags \cup upper) \ (noHash \cup noSign \cup noZero)

\* The low bits of an argument, read as an unsigned and as a signed type.
Unsigned(x, length) == x % Power(2, Bits[length])
Signed(x, length) ==
  LET u == Unsigned(x, length) IN
    IF u >= Power(2, Bits[length] - 1) THEN u - Power(2, Bits[length]) ELSE u

\* The type the magnitude of a signed argument is cast to.
Promoted(length) == IF length \in {"hh", "h"} THEN "" ELSE length

IntegerText(spec, length, x, p) ==
  LET s == Signed(x, length)
      f == IntegerFlags(spec, p.flags)
  IN  IF spec \in {"d", "i"}
      THEN _ntoa_long(Unsigned(IF s > 0 THEN s ELSE 0 - s, Promoted(length)), s < 0,
                      Base(spec), p.prec, p.width, f)
      ELSE _ntoa_long(Unsigned(x, length), FALSE, Base(spec), p.prec, p.width, f)

PointerText(x, p) ==
  _ntoa_long(Unsigned(x, "ll"), FALSE, 16, p.prec, Bits["ll"] \div 4,
             p.flags \cup {"ZEROPAD", "UPPERCASE"})

FloatFlags(spec, flags) ==
  flags \cup (IF spec \in {"F", "E", "G"} THEN {"UPPERCASE"} ELSE {})
        \cup (IF spec \in {"g", "G"} THEN {"ADAPT_EXP"} ELSE {})

\* The texts a floating point argument may be given; see Exponents.
FloatTexts(spec, v, p) ==
  IF spec \in {"f", "F"} THEN _ftoa(v, p.prec, p.width, FloatFlags(spec, p.flags))
  ELSE _etoa(v, p.prec, p.width, FloatFlags(spec, p.flags))

\* Spaces before or behind s up to width, s counting for l characters.
Padded(s, l, width, flags) ==
  IF "LEFT" \in flags THEN s \o Copies(width - l, " ") ELSE Copies(width - l, " ") \o s

CharText(ch, p) == Padded(<<ch>>, 1, p.width, p.flags)

_strnlen_s(s, maxsize) == Smaller(Len(s), maxsize)

StringText(s, p) ==
  LET limited == "PRECISION" \in p.flags
      len == IF p.prec # 0 THEN _strnlen_s(s, p.prec) ELSE Len(s)
      l   == IF limited THEN Smaller(len, p.prec) ELSE len
  IN  Padded(IF limited THEN SubSeq(s, 1, Smaller(Len(s), p.prec)) ELSE s,
             l, p.width, p.flags)

-----------------------------------------------------------------------------
Init ==
  /\ call \in Calls
  /\ format = call.format
  /\ va = call.va
  /\ text = <<>>
  /\ idx = 0
  /\ full = <<>>
  /\ mem = [i \in 0 .. MemSize - 1 |-> Untouched]
  /\ line = <<>>
  /\ ret = None

\* The loop is at an item of one of these kinds.
AtItem(specs) == text = <<>> /\ format # <<>> /\ Head(format).spec \in specs

\* The item's characters are t, and rest the arguments it leaves.
Emit(t, rest) ==
  /\ text' = t
  /\ full' = full \o t
  /\ va' = rest
  /\ format' = Tail(format)
  /\ UNCHANGED <<call, idx, mem, line, ret>>

\* A character outside a directive.
Literal == AtItem({"literal"}) /\ Emit(<<Head(format).ch>>, va)

\* "%%", or a specifier the switch has no case for: its flags, width and
\* precision have been read, the arguments of "*" are gone.
Other ==
  /\ AtItem({"other"})
  /\ LET p == Parse(Head(format), va) IN Emit(<<Head(format).ch>>, p.va)

Integer ==
  /\ AtItem(IntegerSpecs)
  /\ LET d == Head(format)
         p == Parse(d, va)
     IN  Emit(IntegerText(d.spec, d.length, Head(p.va), p), Tail(p.va))

Pointer ==
  /\ AtItem({"p"})
  /\ LET p == Parse(Head(format), va) IN Emit(PointerText(Head(p.va), p), Tail(p.va))

Float ==
  /\ AtItem(FloatSpecs)
  /\ LET p == Parse(Head(format), va) IN
       \E t \in FloatTexts(Head(format).spec, Head(p.va), p) : Emit(t, Tail(p.va))

Char ==
  /\ AtItem({"c"})
  /\ LET p == Parse(Head(format), va) IN Emit(CharText(Head(p.va), p), Tail(p.va))

String ==
  /\ AtItem({"s"})
  /\ LET p == Parse(Head(format), va) IN Emit(StringText(Head(p.va), p), Tail(p.va))

\* Mutant: only what is stored is counted.
OutputCharCountsStored ==
  /\ text # <<>>
  /\ Out(Head(text), idx)
  /\ idx' = IF idx < Maxlen(call) THEN idx + 1 ELSE idx
  /\ text' = Tail(text)
  /\ UNCHANGED <<call, format, va, full, ret>>

\* One out(c, buffer, idx++, maxlen).
OutputChar ==
  /\ text # <<>>
  /\ Out(Head(text), idx)
  /\ idx' = idx + 1
  /\ text' = Tail(text)
  /\ UNCHANGED <<call, format, va, full, ret>>

\* Mutant: the terminator follows the text, wherever that ends.
NulAtEnd(i, maxlen) == i

\* Where the NUL goes: size_t arithmetic.
NulAt(i, maxlen) == IF i < maxlen THEN i ELSE (maxlen - 1) % (SizeMax + 1)

\* Mutant: truncation is reported as -1.
TerminateMinusOne ==
  /\ format = <<>> /\ text = <<>> /\ ret = None
  /\ Out(NUL, NulAt(idx, Maxlen(call)))
  /\ ret' = IF idx < Maxlen(call) THEN idx ELSE -1
  /\ UNCHANGED <<call, format, va, text, idx, full>>

Terminate ==
  /\ format = <<>> /\ text = <<>> /\ ret = None
  /\ Out(NUL, NulAt(idx, Maxlen(call)))
  /\ ret' = idx
  /\ UNCHANGED <<call, format, va, text, idx, full>>

Next ==
  \/ Literal
  \/ Other
  \/ Integer
  \/ Pointer
  \/ Float
  \/ Char
  \/ String
  \/ OutputChar
  \/ Terminate

Spec == Init /\ [][Next]_vars
-----------------------------------------------------------------------------
(* Properties.                                                             *)

TypeOK ==
  /\ Maxlen(call) \in 0 .. SizeMax
  /\ idx \in Nat
  /\ text \in Seq(Chars)
  /\ full \in Seq(Chars)
  /\ line \in Seq(Chars)
  /\ mem \in [0 .. MemSize - 1 -> Chars \cup {Untouched}]
  /\ ret \in Nat \cup {None}

\* snprintf_ leaves the longest prefix of the text that fits, a NUL right
\* behind it and nothing further (printf.h: count includes the terminator).
BufferHoldsPrefix ==
  (ret # None /\ OutFct(call) = "_out_buffer" /\ Maxlen(call) > 0) =>
    LET k == Smaller(Len(full), Maxlen(call) - 1) IN
      \A i \in DOMAIN mem :
        mem[i] = CASE i < k -> full[i + 1]
                   [] i = k -> NUL
                   [] i > k -> Untouched

\* The return value is the length of the whole text, whatever was cut off and
\* wherever it went: printf.h's "could have been written".
ReturnsFullLength == ret # None => ret = Len(full)

\* The characters of the first n of the text that are not NUL.
Sent(n) == {k \in 1 .. n : full[k] # NUL}

\* _putchar, or fctprintf's function, gets every character that is not NUL
\* once and in its place in the order, and never the terminator.
DeliversAll ==
  (ret # None /\ OutFct(call) \in {"_out_char", "_out_fct"}) =>
    /\ Len(line) = Cardinality(Sent(Len(full)))
    /\ \A k \in Sent(Len(full)) : line[Cardinality(Sent(k))] = full[k]

\* A directive and its arguments as C reads them: the "*" first, in order, and
\* then the value; a negative precision counts as none; flags that mean
\* nothing for the specifier, or beside others, are ignored.
Read(d, args) ==
  LET stars == Stars(d)
      w == IF d.width = Star THEN args[1] ELSE d.width
      p == IF d.prec = Star THEN args[stars] ELSE d.prec
      given == d.flags \cup {f \in {"LEFT"} : w < 0} \cup {f \in {"PRECISION"} : p >= 0}
                       \cup {f \in {"UPPERCASE"} : d.spec \in {"X", "F", "E", "G"}}
                       \cup {f \in {"ADAPT_EXP"} : d.spec \in {"g", "G"}}
  IN  [width |-> IF w < 0 THEN -w ELSE w,
       prec  |-> IF p < 0 THEN 0 ELSE p,
       flags |-> {f \in given :
                   /\ f = "HASH" => d.spec \in {"o", "x", "X", "b"} \cup FloatSpecs
                   /\ f \in {"PLUS", "SPACE"} => d.spec \in {"d", "i"} \cup FloatSpecs
                   /\ f = "ZEROPAD" => "PRECISION" \notin given \/ d.spec \in FloatSpecs},
       value |-> args[stars + 1],
       rest  |-> SubSeq(args, stars + 2, Len(args))]

\* An integer argument's value and magnitude, in its own type.
Value(d, r) == IF d.spec \in {"d", "i"} THEN Signed(r.value, d.length)
               ELSE Unsigned(r.value, d.length)
Magnitude(x) == IF x < 0 THEN -x ELSE x

LowerCase(spec) == CASE spec = "F" -> "f" [] spec = "E" -> "e" [] spec = "G" -> "g" [] OTHER -> spec

\* What C requires of one item with these arguments: the text and the
\* arguments it leaves.
StandardItem(d, args) ==
  IF d.spec \in {"literal", "other"} THEN <<<<d.ch>>, args>> ELSE
  LET r == Read(d, args)
      v == Value(d, r)
      cut == IF "PRECISION" \in r.flags THEN SubSeq(r.value, 1, Smaller(Len(r.value), r.prec))
             ELSE r.value
  IN  <<CASE d.spec = "c" -> Padded(<<r.value>>, 1, r.width, r.flags)
          [] d.spec = "s" -> Padded(cut, Len(cut), r.width, r.flags)
          [] d.spec = "p" -> Standard(Unsigned(r.value, "ll"), FALSE, 16, 0,
                                      Bits["ll"] \div 4, {"ZEROPAD", "UPPERCASE"})
          [] d.spec \in FloatSpecs ->
               StandardFloat(LowerCase(d.spec), r.value, r.prec, r.width, r.flags)
          [] d.spec \in IntegerSpecs ->
               Standard(Magnitude(v), v < 0, Base(d.spec), r.prec, r.width, r.flags),
        r.rest>>

\* The directives on which the code keeps to C: see the lists in Ntoa and Ftoa; and a
\* negative "*" precision, for C none at all, is a precision of zero here, and a
\* pointer's flags and precision act on its fixed width.  Of the specifiers without
\* a case C knows "%", and allows nothing between it and the first.
ConformingItem(d, args) ==
  CASE d.spec = "literal" -> TRUE
    [] d.spec = "other" -> d.ch = "%" /\ d.flags = {} /\ d.width = 0 /\ d.prec = None /\ d.length = ""
    [] OTHER ->
  LET r == Read(d, args)
      v == Value(d, r)
  IN  /\ d.prec = Star => "PRECISION" \in r.flags
      /\ d.spec = "p" =>
           /\ d.flags = {} /\ r.flags = {}
           /\ Conforming(Unsigned(r.value, "ll"), FALSE, 16, 0,
                         Bits["ll"] \div 4, {"ZEROPAD", "UPPERCASE"})
      /\ d.spec \in IntegerSpecs =>
           Conforming(Magnitude(v), v < 0, Base(d.spec), r.prec, r.width, r.flags)
      /\ d.spec \in FloatSpecs =>
           ConformingFloat(LowerCase(d.spec), r.value, r.prec, r.width, r.flags)

\* Every conforming item that is not of a floating point number outputs what C
\* requires and takes exactly its own arguments, so that the next directive
\* finds its own.
ItemsConform ==
  [][(/\ format # <<>> /\ format' = Tail(format) /\ Head(format).spec \notin FloatSpecs
      /\ ConformingItem(Head(format), va)) =>
       <<text', va'>> = StandardItem(Head(format), va)]_vars



\* What printf.c:391 says of a fraction that rounds up to one, "handle rollover,
\* e.g. case 0.99 with prec 1 is 1.0": where the next number of the decimals
\* asked for is a whole one, the number printed is that or the one below, with
\* these decimals.
RolloverHandled ==
  [][(/\ format # <<>> /\ format' = Tail(format) /\ Head(format).spec \in {"f", "F"}
      /\ LET r == Read(Head(format), va) IN
           /\ r.value.class = "finite" /\ ~VeryLarge(r.value)
           /\ "PRECISION" \in r.flags /\ r.prec \in 1 .. LastPower) =>
       LET s     == Read(Head(format), va)
           r     == NumberRead(text')
           below == DecimalBelow(s.value.n, s.value.d, s.prec)
           above == DecimalAbove(s.value.n, s.value.d, s.prec)
       IN  above[2] = 0 => r.decimals = s.prec /\ <<r.whole, r.frac>> \in {below, above}]_vars

\* What printf.c:378 says the loop does, "limit precision to 9, cause a prec
\* >= 10 can lead to overflow errors": pow10, which ends at 9, is read inside.
PrecisionLimited ==
  [][(/\ format # <<>> /\ format' = Tail(format)
      /\ Head(format).spec \in {"f", "F"} /\ Head(format).prec # None
      /\ Read(Head(format), va).value.class = "finite") =>
         TableIndex(Read(Head(format), va).prec) <= LastPower]_vars
=============================================================================
