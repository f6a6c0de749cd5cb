----------------------------- MODULE MCPrintk ------------------------------
(***************************************************************************)
(* Instances of Printk for TLC: a byte has two bits, so that a char has 2, *)
(* a short 4, an int 8 and a 64-bit number 16; the largest power of ten in *)
(* the table is 10^4.                                                      *)
(***************************************************************************)
EXTENDS Printk

UpTo(chars, n) == UNION {[1 .. k -> chars] : k \in 0 .. n}

\* Every string of at most five of these characters.
AllFormats == UpTo({"%", "h", "l", "u", "p", "s"}, 5)

\* One directive of each kind.
OneDirective ==
    {<<"%">> \o m \o <<c>> :
        m \in {<<>>, <<"h">>, <<"h", "h">>, <<"l">>, <<"l", "l">>},
        c \in {"d", "i", "u", "o", "x", "X", "p"}}

TextFormats == AllFormats \cup OneDirective

\* The directives Covered leaves out, in one call.
OddCall == {<<"%", "l", "u", " ", "%", "l", "i", " ", "%", "h", "p">>}

\* 60000 as an unsigned 64-bit number, which is -5536 as a signed one.
OddValue(f) == {60000}

\* Values at the edges of the types and of the powers of ten and of two.
Edges == {0, 1, 2, 3, 7, 8, 9, 10, 11, 15, 16, 63, 64, 99, 100, 101, 127, 128, 129,
          254, 255, 256, 999, 1000, 4095, 4096, 9999, 10000, 32767, 32768,
          59999, 60000, 65519, 65535}

\* A lone directive is tried with all of them, a longer format with two.
EdgesAlone(f) == IF f \in OneDirective THEN Edges ELSE {5, 200}
NoStrings == {<<>>}
TwoStrings == {<<>>, <<"a", "b">>}
=============================================================================
