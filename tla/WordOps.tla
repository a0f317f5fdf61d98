------------------------------- MODULE WordOps --------------------------------
(***************************************************************************)
(* The straight-line W-instructions of src/interpreter.c: what each does   *)
(* to the stack of words and what it prints.  A word is a number below     *)
(* Span(64); there is nothing in it that says what type it stands for.     *)
(*                                                                         *)
(* The widths 8, 16, 32 and 64 keep their order but are scaled to Bits[n]  *)
(* bits, so that TLC can go through all the words.  What the floating      *)
(* point unit computes is not modelled: any of a set of outcomes.          *)
(***************************************************************************)
EXTENDS Integers, SequencesExt

CONSTANTS
  Bits,         \* Bits[n]: the number of bits that stands for n bits.
  Utf8, Utf16,  \* The encodings of the codepoints from 0 to UnicodeMax,
  UnicodeMax,   \* UNICODE_MAX.
  One32, One64, \* The bit patterns of 1.0f and of 1.0.
  Outcomes      \* What the parts that are not modelled may come to.

Spans == [n \in DOMAIN Bits |-> 2^Bits[n]]
Span(n) == Spans[n]
AllWords == 0..(Span(64) - 1)

WordOpsAssumption ==
  /\ Bits \in [{8, 16, 32, 64} -> Nat \ {0}]
  /\ Bits[8] < Bits[16] /\ Bits[16] < Bits[32] /\ Bits[32] < Bits[64]
  /\ UnicodeMax \in 1..(Span(32) - 1)
  /\ Utf8 \in [0..UnicodeMax -> 0..(Span(32) - 1)] /\ IsInjective(Utf8)
  /\ Utf16 \in [0..UnicodeMax -> 0..(Span(32) - 1)] /\ IsInjective(Utf16)
  /\ One32 \in 1..(Span(32) - 1) /\ One64 \in AllWords \ {0}
  /\ Outcomes # {}
  /\ Outcomes \subseteq
       [f32 : 0..(Span(32) - 1), f64 : AllWords, int : AllWords, holds : BOOLEAN]

\* u64_to_s64, and the value of the lowest n bits read as two's complement.
SignedValue(n, w) ==
  LET low == w % Span(n) IN IF low < Span(n) \div 2 THEN low ELSE low - Span(n)

\* The word that holds an integer: s64_to_u64, and wrapping arithmetic.
InWord(i) == i % Span(64)

Truth(b) == IF b THEN 1 ELSE 0

\* An outcome is a member of Outcomes: what one run of the floating point unit
\* comes to (as a float, a double or an integer, or as the answer to a comparison).
\* Its integer is also what is decoded from a word that is no encoding, encoded
\* for what is no codepoint, and read from memory.

Decoded(encoding, w, u) ==
  IF \E c \in DOMAIN encoding : encoding[c] = w
  THEN CHOOSE c \in DOMAIN encoding : encoding[c] = w
  ELSE u.int % Span(32)

Encoded(encoding, c, u) == IF c \in DOMAIN encoding THEN encoding[c] ELSE u.int % Span(32)

-----------------------------------------------------------------------------
\* An instruction with its operands.  Those that convert the word under the top
\* word, W_OP_SX8L and its like, have the name of the one that converts the top
\* word and TRUE for `under'.

W(op)         == [op |-> op, under |-> FALSE, n |-> 0, m |-> 0]
Under(op)     == [op |-> op, under |-> TRUE, n |-> 0, m |-> 0]
Sized(op, n, m) == [op |-> op, under |-> FALSE, n |-> n, m |-> m]

SignExtensions == {"SX8", "SX16", "SX32"}
ZeroExtensions == {"ZX8", "ZX16", "ZX32"}
WidthOf(op) == CASE op \in {"SX8", "ZX8"} -> 8 [] op \in {"SX16", "ZX16"} -> 16 [] OTHER -> 32

FloatArithmetic == {"ADDF", "SUBF", "MULTF", "DIVF"}
FloatComparisons == {"EQUALS_F", "NOT_EQUALS_F", "LESS_THAN_F", "LESS_EQUALS_F",
                     "GREATER_THAN_F", "GREATER_EQUALS_F"}

\* SXn: mask off the higher bits, then repeat the sign bit in them.
Extended(op, w) == InWord(SignedValue(WidthOf(op), w))

\* Instructions that replace one word.  n is the size of the float operand.
Converted(op, n, w, u) ==
  CASE op \in SignExtensions -> Extended(op, w)
    [] op \in ZeroExtensions -> w % Span(WidthOf(op))
    [] op = "NEG"     -> InWord(-w)
    [] op = "NOT"     -> Truth(w = 0)
    [] op = "ICONVB"  -> Truth(w # 0)
    [] op = "ICONVC32" ->
         LET i == SignedValue(64, w)
         IN IF i < 0 THEN 0 ELSE IF i > UnicodeMax THEN UnicodeMax ELSE i
    [] op = "CHAR_8CONV32"  -> Decoded(Utf8, w, u)
    [] op = "CHAR_16CONV32" -> Decoded(Utf16, w, u)
    [] op = "CHAR_32CONV8"  -> Encoded(Utf8, w % Span(32), u)
    [] op = "CHAR_32CONV16" -> Encoded(Utf16, w % Span(32), u)
    [] op \in {"ICONVF", "NEGF"} -> IF n = 32 THEN u.f32 ELSE u.f64
    [] op = "FPROM"   -> u.f64
    [] op = "FDEM"    -> u.f32
    [] op = "FCONVI"  -> u.int
    [] op = "FCONVB"  -> Truth(u.holds)
    [] op = "DEREF"   -> u.int % Span(8)

\* Division as C has it: towards zero.
Quotient(a, b) ==
  LET q == (IF a < 0 THEN -a ELSE a) \div (IF b < 0 THEN -b ELSE b)
  IN IF (a < 0) = (b < 0) THEN q ELSE -q
Remainder(a, b) == a - b * Quotient(a, b)

\* Mutant: the quotient is not adjusted with the remainder.
Euclidean_QuotientKept(a, b) ==
  LET q == Quotient(a, b)  r == Remainder(a, b)
  IN IF r >= 0 THEN <<q, r>> ELSE <<q, IF b > 0 THEN r + b ELSE r - b>>

\* The adjustment of W_OP_EDIVMOD: a remainder below zero is raised by |b|, and
\* the quotient moved by the sign of b.
Euclidean(a, b) ==
  LET q == Quotient(a, b)  r == Remainder(a, b)
  IN IF r >= 0 THEN <<q, r>>
     ELSE IF b > 0 THEN <<q - 1, r + b>> ELSE <<q + 1, r - b>>

\* W_OP_DIVMOD, W_OP_IDIVMOD and W_OP_EDIVMOD: two words for two.
Divided(op, a, b) ==
  LET x == SignedValue(64, a)  y == SignedValue(64, b)
      e == Euclidean(x, y)
  IN CASE op = "DIVMOD"  -> <<a \div b, a % b>>
       [] op = "IDIVMOD" -> <<InWord(Quotient(x, y)), InWord(Remainder(x, y))>>
       [] op = "EDIVMOD" -> <<InWord(e[1]), InWord(e[2])>>

\* The processor traps: a zero divisor, or a signed quotient that overflows.
DivisionTraps(op, a, b) ==
  \/ b = 0
  \/ op # "DIVMOD" /\ SignedValue(64, b) = -1 /\ a = Span(64) \div 2

\* Instructions that put one word for two.
Combined(op, n, a, b, u) ==
  LET x == SignedValue(64, a)  y == SignedValue(64, b)
      TrueFloat == IF n = 32 THEN One32 ELSE One64
  IN CASE op = "ADD"  -> InWord(a + b)
       [] op = "SUB"  -> InWord(a - b)
       [] op = "MULT" -> InWord(a * b)
       [] op = "AND"  -> IF a = 0 THEN a ELSE b
       [] op = "OR"   -> IF a # 0 THEN a ELSE b
       [] op = "EQUALS"         -> Truth(a = b)
       [] op = "NOT_EQUALS"     -> Truth(a # b)
       [] op = "LESS_THAN"      -> Truth(x < y)
       [] op = "LESS_EQUALS"    -> Truth(x <= y)
       [] op = "GREATER_THAN"   -> Truth(x > y)
       [] op = "GREATER_EQUALS" -> Truth(x >= y)
       [] op = "LOWER_THAN"     -> Truth(a < b)
       [] op = "LOWER_SAME"     -> Truth(a <= b)
       [] op = "HIGHER_THAN"    -> Truth(a > b)
       [] op = "HIGHER_SAME"    -> Truth(a >= b)
       \* BINF32_OP and BINF64_OP push the result of a comparison as a float.
       [] op \in FloatComparisons -> IF u.holds THEN TrueFloat ELSE 0
       [] op \in FloatArithmetic  -> IF n = 32 THEN u.f32 ELSE u.f64

Divisions == {"DIVMOD", "IDIVMOD", "EDIVMOD"}
Combinations ==
  {"ADD", "SUB", "MULT", "AND", "OR", "EQUALS", "NOT_EQUALS", "LESS_THAN", "LESS_EQUALS",
   "GREATER_THAN", "GREATER_EQUALS", "LOWER_THAN", "LOWER_SAME", "HIGHER_THAN", "HIGHER_SAME"}
    \cup FloatComparisons \cup FloatArithmetic
Conversions ==
  SignExtensions \cup ZeroExtensions \cup
  {"NEG", "NOT", "ICONVB", "ICONVC32", "CHAR_8CONV32", "CHAR_16CONV32", "CHAR_32CONV8",
   "CHAR_32CONV16", "ICONVF", "NEGF", "FPROM", "FDEM", "FCONVI", "FCONVB", "DEREF"}

-----------------------------------------------------------------------------
\* The machine: the main stack, what the last instruction that prints has
\* printed, and whether a division has trapped.

Machine(s) == [stack |-> s, out |-> <<>>, trapped |-> FALSE]

Stack(m, s) == [m EXCEPT !.stack = s]
Below(s, n) == SubSeq(s, 1, Len(s) - n)      \* popn
Nth(s, n) == s[Len(s) - n]                   \* peek_nth

\* comp_get_subcomp: m of the topmost n words again; and swap_comps.
SubcompGet(s, n, m) == s \o SubSeq(s, Len(s) - n + 1, Len(s) - n + m)
SwapComps(s, n, m) ==
  Below(s, n + m) \o SubSeq(s, Len(s) - m + 1, Len(s)) \o SubSeq(s, Len(s) - m - n + 1, Len(s) - m)

\* What an instruction prints, or the status the program exits with.
Printed(op, w) ==
  LET i == SignedValue(64, w)  IntMax == Span(32) \div 2 - 1
  IN
  CASE op = "PRINT_INT"  -> <<i>>
    [] op = "EXIT" -> <<IF i < -IntMax - 1 THEN -IntMax - 1 ELSE IF i > IntMax THEN IntMax ELSE i>>
    [] op = "PRINT_BOOL" -> <<Truth(w # 0)>>
    [] OTHER             -> <<w>>

Execute(w, m, u) ==
  LET s == m.stack
  IN CASE w.op \in Conversions ->
            IF w.under
            THEN Stack(m, Below(s, 2) \o <<Converted(w.op, w.n, Nth(s, 1), u), Nth(s, 0)>>)
            ELSE Stack(m, Append(Below(s, 1), Converted(w.op, w.n, Nth(s, 0), u)))
       [] w.op \in Combinations ->
            Stack(m, Append(Below(s, 2), Combined(w.op, w.n, Nth(s, 1), Nth(s, 0), u)))
       [] w.op \in Divisions ->
            IF DivisionTraps(w.op, Nth(s, 1), Nth(s, 0))
            THEN [m EXCEPT !.trapped = TRUE]
            ELSE Stack(m, Below(s, 2) \o Divided(w.op, Nth(s, 1), Nth(s, 0)))
       [] w.op = "PUSH" -> Stack(m, Append(s, w.n))
       [] w.op = "POPN" -> Stack(m, Below(s, w.n))
       [] w.op = "DUPEN" -> Stack(m, SubcompGet(s, w.n, w.n))
       [] w.op = "COMP_SUBCOMP_GET" -> Stack(m, SubcompGet(s, w.n, w.m))
       [] w.op = "SWAP_COMPS" -> Stack(m, SwapComps(s, w.n, w.m))
       [] w.op = "PRINT_STRING" -> [m EXCEPT !.stack = Below(s, 2), !.out = <<Nth(s, 0)>>]
       [] w.op \in {"PRINT", "PRINT_INT", "PRINT_BOOL", "PRINT_FLOAT", "PRINT_CHAR", "EXIT"} ->
            [m EXCEPT !.stack = Below(s, 1), !.out = Printed(w.op, Nth(s, 0))]

\* A trap ends the program in the middle of the code.
Run(code, m, u) ==
  LET after[i \in 0..Len(code)] ==
        IF i = 0 THEN m
        ELSE LET before == after[i - 1]
             IN IF before.trapped THEN before ELSE Execute(code[i], before, u)
  IN after[Len(code)]
=============================================================================
