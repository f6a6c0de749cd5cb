------------------------------- MODULE Printk ------------------------------
(***************************************************************************)
(* printk: the formatting of _print.c with the arithmetic of math.h,       *)
(* checked against reference definitions of a directive and of a numeral.  *)
(*                                                                         *)
(* A byte has BITS_PER_BYTE bits here, fewer than eight, so that TLC's     *)
(* integers hold a 64-bit number; numbers are the unsigned value of their  *)
(* bits.  The characters handed to VGA_PUTC are collected in out.          *)
(***************************************************************************)
EXTENDS Integers, Sequences, FiniteSets

CONSTANTS
    BITS_PER_BYTE,
    Formats,   \* format strings, as sequences of characters
    Values(_), \* values of the numeric arguments that go with a format
    Strings    \* values of string arguments, as sequences of characters

ASSUME BitsAssumption == BITS_PER_BYTE \in 1 .. 3
ASSUME ValueAssumption == \A f \in Formats : Values(f) \subseteq Nat

VARIABLES
    format, i,   \* the format string, and the index of _print's loop
    pattern,     \* a '%' was read
    out, bytes,  \* characters written, and the count that is returned
    args,        \* history: the arguments consumed, with what they were taken for
    hung         \* div64 does not end

vars == <<format, i, pattern, out, bytes, args, hung>>

Bits(size) == size * BITS_PER_BYTE
MOD64 == 2 ^ Bits(8)

\* The characters of the tables hex and Hex; an index past their end reads
\* some other byte.
hex == <<"0", "1", "2", "3", "4", "5", "6", "7", "8", "9",
         "a", "b", "c", "d", "e", "f">>
Hex == <<"0", "1", "2", "3", "4", "5", "6", "7", "8", "9",
         "A", "B", "C", "D", "E", "F">>
At(table, digit) == IF digit \in 0 .. 15 THEN table[digit + 1] ELSE "OUTSIDE"

-----------------------------------------------------------------------------
(* math.h                                                                  *)

\* The powers of ten below 2^64.
EXP10 == SelectSeq([k \in 1 .. 8 |-> 10 ^ (k - 1)], LAMBDA v : v < MOD64)

ilog10u(v) == Cardinality({k \in 2 .. Len(EXP10) : v >= EXP10[k]})

ilog2u(v) == Cardinality({k \in 1 .. Bits(8) - 1 : v >= 2 ^ k})

\* div64 counts res up until b * res, modulo 2^64, exceeds a; HANG if it never
\* does.
HANG == -1
div64(a, b) ==
    LET Over(res) == (b * res) % MOD64 > a
    IN  IF \E res \in 0 .. MOD64 - 1 : Over(res)
        THEN (CHOOSE res \in 0 .. MOD64 - 1 :
                Over(res) /\ \A r \in 0 .. res - 1 : ~Over(r)) - 1
        ELSE HANG

-----------------------------------------------------------------------------
(* The conversions: the characters each writes and the count it returns.   *)

\* The digits of num from EXP10[j] down, as far as div64 ends.
RECURSIVE DecDigits(_, _)
DecDigits(num, j) ==
    IF j < 0 THEN <<>>
    ELSE LET digit == div64(num, EXP10[j + 1])
         IN  IF digit = HANG THEN <<"HANG">>
             ELSE <<At(hex, digit)>>
                  \o DecDigits((num - digit * EXP10[j + 1]) % MOD64, j - 1)

_print_dec_unsigned(num) ==
    [text |-> DecDigits(num, ilog10u(num)), bytes |-> ilog10u(num) + 1]

\* Whether the sign bit is found set.  The mask 1 << 63 of an int is undefined
\* for a 64-bit number: it is 0 where the compiler folds it, and 1 << 31 with
\* its sign extended where the processor shifts.
SignSeen(num, size) ==
    IF size < 8 THEN {num >= 2 ^ (Bits(size) - 1)} ELSE {FALSE, num >= 2 ^ (Bits(4) - 1)}

_print_dec_signed(num, size, negative) ==
    LET dec == _print_dec_unsigned(IF negative THEN 2 ^ Bits(size) - num ELSE num)
    IN  IF negative THEN [text |-> <<"-">> \o dec.text, bytes |-> dec.bytes + 1] ELSE dec

\* The digits of num in groups of width bits from bit j down.
RECURSIVE BitDigits(_, _, _, _)
BitDigits(table, num, j, width) ==
    IF j < 0 THEN <<>>
    ELSE <<At(table, (num \div 2 ^ j) % 2 ^ width)>> \o BitDigits(table, num, j - width, width)

_print_oct(num) ==
    LET text == BitDigits(hex, num, (ilog2u(num) \div 3) * 3, 3)
    IN  [text |-> text, bytes |-> Len(text)]

\* Mutant: the count of _print_hex without its last digit.
HexUncounted(table, num) ==
    LET j == ilog2u(num) - (ilog2u(num) % 4)
    IN  [text |-> BitDigits(table, num, j, 4), bytes |-> j \div 4]

\* _print_hex and _print_Hex
_print_hex(table, num) ==
    LET j == ilog2u(num) - (ilog2u(num) % 4)
    IN  [text |-> BitDigits(table, num, j, 4), bytes |-> j \div 4 + 1]

\* The count is that of a 64-bit number, two digits for each of eight bytes.
_print_ptr(num, size) ==
    [text |-> <<"0", "x">> \o BitDigits(hex, num, Bits(size) - 4, 4),
     bytes |-> 2 + Bits(8) \div 4]

-----------------------------------------------------------------------------
(* Directives.                                                             *)

Char(k) == IF k <= Len(format) THEN format[k] ELSE "NUL"

Conversions(modifier) ==
    {"d", "i", "u", "p", "o", "x", "X"} \cup (IF modifier = "" THEN {"s", "%"} ELSE {})

INVALID == [modifier |-> "", conv |-> "INVALID"]

\* _parse_format, from its state format_state after the modifier.
RECURSIVE ParseFrom(_, _)
ParseFrom(modifier, k) ==
    CASE Char(k) = "h" /\ modifier = "" -> ParseFrom("h", k + 1)
      [] Char(k) = "h" /\ modifier = "h" -> ParseFrom("hh", k + 1)
      [] Char(k) = "l" /\ modifier = "" -> ParseFrom("l", k + 1)
      [] Char(k) = "l" /\ modifier = "l" -> ParseFrom("ll", k + 1)
      [] Char(k) \in Conversions(modifier) -> [modifier |-> modifier, conv |-> Char(k)]
      [] OTHER -> INVALID

_parse_format(k) == ParseFrom("", k)

\* The bytes of the argument's type.
Size(modifier) ==
    CASE modifier = "hh" -> 1 [] modifier = "h" -> 2
      [] modifier = "" -> 4 [] modifier \in {"l", "ll"} -> 8

\* Mutant: both letters of a long modifier count as one.
SkipOne(modifier) == IF modifier = "" THEN 0 ELSE 1

\* The characters of the directive before its last.
Skip(modifier) ==
    CASE modifier = "" -> 0 [] modifier \in {"h", "l"} -> 1
      [] modifier \in {"hh", "ll"} -> 2

\* The switch of _print_format: h, hh and ll before p are parsed but have no
\* case.
HasCase(f) ==
    f.conv # "INVALID" /\ (f.conv = "p" => f.modifier \in {"", "l"})

\* What a conversion of the number v writes, for each outcome of SignSeen.
Printed(f, v) ==
    LET size == Size(f.modifier)
    IN  CASE f.conv \in {"d", "i"} ->
                {_print_dec_signed(v, size, neg) : neg \in SignSeen(v, size)}
          [] f.conv = "u" -> {_print_dec_unsigned(v)}
          [] f.conv = "o" -> {_print_oct(v)}
          [] f.conv = "x" -> {_print_hex(hex, v)}
          [] f.conv = "X" -> {_print_hex(Hex, v)}
          [] f.conv = "p" -> {_print_ptr(v, size)}

-----------------------------------------------------------------------------
(* The loop of _print; each action handles one character or directive.     *)

Init ==
    /\ format \in Formats /\ i = 1 /\ pattern = FALSE
    /\ out = <<>> /\ bytes = 0 /\ args = <<>> /\ hung = FALSE

Running == i <= Len(format) /\ ~hung

Percent ==
    /\ Running /\ ~pattern /\ Char(i) = "%"
    /\ pattern' = TRUE /\ i' = i + 1
    /\ UNCHANGED <<format, out, bytes, args, hung>>

Literal ==
    /\ Running /\ ~pattern /\ Char(i) # "%"
    /\ out' = Append(out, Char(i)) /\ bytes' = bytes + 1 /\ i' = i + 1
    /\ UNCHANGED <<format, pattern, args, hung>>

\* The end of a call of _print_format that wrote text.
Write(text, n, skip) ==
    /\ out' = out \o text /\ bytes' = bytes + n
    /\ pattern' = FALSE /\ i' = i + skip + 1
    /\ UNCHANGED format

\* A numeric argument is cut to the size of the directive's type.
Number ==
    LET f == _parse_format(i)
    IN  /\ Running /\ pattern /\ HasCase(f) /\ f.conv \notin {"s", "%"}
        /\ \E v \in {a % 2 ^ Bits(Size(f.modifier)) : a \in Values(format)} :
            /\ \E p \in Printed(f, v) :
                /\ Write(p.text, p.bytes, Skip(f.modifier))
                /\ hung' = \E k \in DOMAIN p.text : p.text[k] = "HANG"
            /\ args' = Append(args, [value |-> v, conv |-> f.conv,
                                     long |-> Size(f.modifier) = 8])

String ==
    /\ Running /\ pattern /\ _parse_format(i).conv = "s"
    /\ \E s \in Strings :
        /\ Write(s, Len(s), 0)
        /\ args' = Append(args, [value |-> s, conv |-> "s", long |-> FALSE])
    /\ UNCHANGED hung

Escaped ==
    /\ Running /\ pattern /\ _parse_format(i).conv = "%"
    /\ Write(<<"%">>, 1, 0)
    /\ UNCHANGED <<args, hung>>

Unknown ==
    /\ Running /\ pattern /\ ~HasCase(_parse_format(i))
    /\ Write(<<"?", "?", "?">>, 3, 0)
    /\ UNCHANGED <<args, hung>>

Next == Percent \/ Literal \/ Number \/ String \/ Escaped \/ Unknown

Spec == Init /\ [][Next]_vars

-----------------------------------------------------------------------------
(* What the output should be.                                              *)

\* The numeral of n, written with the characters of the table.
RECURSIVE Numeral(_, _, _)
Numeral(table, n, base) ==
    IF n < base THEN <<table[n + 1]>>
    ELSE Numeral(table, n \div base, base) \o <<table[(n % base) + 1]>>

Padded(s, n) == IF Len(s) >= n THEN s ELSE [k \in 1 .. n - Len(s) |-> "0"] \o s

Signed(n, size) == IF n >= 2 ^ (Bits(size) - 1) THEN n - 2 ^ Bits(size) ELSE n

Expected(conv, size, v) ==
    CASE conv \in {"d", "i"} -> IF Signed(v, size) < 0
                                THEN <<"-">> \o Numeral(hex, 0 - Signed(v, size), 10)
                                ELSE Numeral(hex, v, 10)
      [] conv = "u" -> Numeral(hex, v, 10)
      [] conv = "o" -> Numeral(hex, v, 8)
      [] conv = "x" -> Numeral(hex, v, 16)
      [] conv = "X" -> Numeral(Hex, v, 16)
      [] conv = "p" -> <<"0", "x">> \o Padded(Numeral(hex, v, 16), Bits(size) \div 4)

\* The directives _parse_format knows: a modifier with its letters and size,
\* then a conversion.
Modifiers == {[letters |-> <<>>, size |-> 4], [letters |-> <<"h">>, size |-> 2],
              [letters |-> <<"h", "h">>, size |-> 1], [letters |-> <<"l">>, size |-> 8],
              [letters |-> <<"l", "l">>, size |-> 8]}

Directives ==
    {d \in [modifier : Modifiers, conv : {"d", "i", "u", "o", "x", "X", "p", "s", "%"}] :
        d.conv \in {"s", "%"} => d.modifier.letters = <<>>}

Letters(d) == d.modifier.letters \o <<d.conv>>

\* The directives whose letters stand at position k of the format.
StandsAt(k) ==
    {d \in Directives : /\ k + Len(Letters(d)) - 1 <= Len(format)
                        /\ SubSeq(format, k, k + Len(Letters(d)) - 1) = Letters(d)}

\* What the n-th argument should come out as: no text does if it was not read.
Filled(d, n) ==
    IF n \notin DOMAIN args THEN <<"MISSING">>
    ELSE IF d.conv = "s" THEN args[n].value
    ELSE Expected(d.conv, d.modifier.size, args[n].value)

\* The output for the format from position k, with the arguments from the
\* n-th: a directive is replaced by its argument, anything else after a '%'
\* by "???" and one character less.
RECURSIVE Reference(_, _)
Reference(k, n) ==
    IF k > Len(format) THEN <<>>
    ELSE IF format[k] # "%" THEN <<format[k]>> \o Reference(k + 1, n)
    ELSE IF k = Len(format) THEN <<>>
    ELSE IF StandsAt(k + 1) = {} THEN <<"?", "?", "?">> \o Reference(k + 2, n)
    ELSE LET d == CHOOSE d \in StandsAt(k + 1) : TRUE
             next == k + 1 + Len(Letters(d))
         IN  IF d.conv = "%" THEN <<"%">> \o Reference(next, n)
             ELSE Filled(d, n) \o Reference(next, n + 1)

Returned == i > Len(format) /\ ~hung

\* The format has a %hp, %hhp or %llp.
OddPointer ==
    \E k \in DOMAIN format : format[k] = "%" /\ \E d \in StandsAt(k + 1) :
        d.conv = "p" /\ d.modifier.letters \notin {<<>>, <<"l">>}

\* The calls that the findings leave: a decimal 64-bit number is below the last
\* power of ten, 10^19, and if signed it is below 2^31, and no pointer has
\* a modifier but l.
Covered ==
    /\ \A n \in DOMAIN args : args[n].long =>
        /\ args[n].conv = "u" => args[n].value < EXP10[Len(EXP10)]
        /\ args[n].conv \in {"d", "i"} => args[n].value < 2 ^ (Bits(4) - 1)
    /\ ~OddPointer

\* _print_format: every directive of the format is replaced by the numeral of
\* its argument, cut to the type the modifier names, and every other character
\* is copied: nothing of a directive is printed and no argument is skipped.
\* For the calls Covered leaves out SomeAppropriate shows what happens.
TextCorrect == Returned /\ Covered => out = Reference(1, 1)

\* "number of bytes written" (_print_format): the count that every conversion
\* but %p returns is the number of characters it wrote.
BytesCounted ==
    Returned /\ (\A k \in DOMAIN format : format[k] # "p") => bytes = Len(out)

\* What the directives from position k on should print, a text for each.
RECURSIVE Texts(_, _)
Texts(k, n) ==
    IF k > Len(format) THEN {}
    ELSE IF format[k] # "%" \/ StandsAt(k + 1) = {} THEN Texts(k + 1, n)
    ELSE LET d == CHOOSE d \in StandsAt(k + 1) : TRUE
         IN  {Filled(d, n)} \cup Texts(k + 1 + Len(Letters(d)), n + 1)

Occurs(t) == \E k \in 0 .. Len(out) - Len(t) : SubSeq(out, k + 1, k + Len(t)) = t

\* "Read format string [...] and va_list argument and print the appropriate
\* characters" (_print_format), for every directive the parser knows and every
\* argument: so in a call with several directives the text of at least one is
\* printed.  A call that violates this refutes the comment for each of them.
SomeAppropriate == Returned => \E t \in Texts(1, 1) : Occurs(t)

=============================================================================
