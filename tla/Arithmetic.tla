------------------------------ MODULE Arithmetic ------------------------------
(***************************************************************************)
(* Straight-line Bude code: the type checker (TypedOps) and the machine    *)
(* (WordOps) side by side.  The checker translates a whole function before *)
(* any of it is run, but without jumps each T-instruction is translated    *)
(* once and its code run once, in the same order; so a step here does both *)
(* for one instruction.  `types' is the checker's type stack where the     *)
(* instruction begins and `words' the main stack when its code is reached. *)
(*                                                                         *)
(* Neither stack knows of the other when the program runs: that a word on  *)
(* the stack is what the type on the type stack says rests on the          *)
(* conversions the checker emits around each operation.                    *)
(***************************************************************************)
EXTENDS TypedOps

CONSTANTS
  Literals,      \* The values integer literals are given,
  Codepoints,    \* and character literals.
  MaxDepth,      \* How many values the stack holds at most,
  DeepTypes      \* and of which types they are when it holds that many.

ArithmeticAssumption ==
  /\ WordOpsAssumption
  /\ Literals \subseteq AllWords
  /\ Codepoints \subseteq 0..UnicodeMax
  /\ MaxDepth \in Nat
  /\ DeepTypes \subseteq Types

VARIABLES
  types,   \* checker->tstack
  words,   \* interpreter->main_stack
  status   \* "running", "exited" or "trap"; "type_error" or "assert" if the
           \* checker stops the program; "skewed" and "misfit": see Continue.

vars == <<types, words, status>>

Init == types = <<>> /\ words = <<>> /\ status = "running"

\* Where the k-th value ends on the stack of words: only a string has two words.
TopOf(ts, k) == k + Cardinality({j \in 1..k : WordCount(ts[j]) = 2})
WordsOf(ts) == TopOf(ts, Len(ts))

-----------------------------------------------------------------------------
\* Literals.

PushValue(type, value) ==
  /\ status = "running"
  /\ Len(types) < MaxDepth - 1
  /\ types' = Append(types, type)
  /\ words' = words \o value
  /\ UNCHANGED status

\* emit_immediate_uv chooses the shortest instruction that can hold the value ...
OperandWidth(v) == CHOOSE n \in DOMAIN Bits :
  v < Span(n) /\ \A k \in DOMAIN Bits : v < Span(k) => n <= k

\* ... and W_OP_PUSH_INTn extends the sign of what it reads.
Read(t, v) == IF t \in Signed THEN InWord(SignedValue(OperandWidth(v), v)) ELSE v

\* check_range lets a literal of type t have the value v.  Bound: a literal of an
\* unsigned type has no minus sign.
InRange(t, v) ==
  IF t \in Signed
  THEN SignedValue(64, v) \in -(Span(Width(t)) \div 2)..(Span(Width(t)) \div 2 - 1)
  ELSE v < Span(Width(t))

\* compile_integer has the value converted to a narrow type by `as'.
PushInteger ==
  \E t \in Integral, v \in Literals :
    InRange(t, v) /\ PushValue(t, <<Read(t, v) % Span(Width(t))>>)

PushFloat ==
  \E u \in Outcomes : PushValue("f32", <<u.f32>>) \/ PushValue("f64", <<u.f64>>)
PushChar == \E c \in Codepoints : PushValue("char", <<Utf8[c]>>)
\* The start of the string and its length.
LoadString == \E start \in Literals : PushValue("string", <<start, 1>>)

-----------------------------------------------------------------------------
\* The other instructions.  Bound: there may be MaxDepth values on the stack if
\* they are all of DeepTypes.
Room(after) ==
  \/ Len(after) < MaxDepth
  \/ Len(after) = MaxDepth /\ ToSet(after) \subseteq DeepTypes

\* What the parts that are not modelled may contribute to the code: one outcome
\* is as good as any if the code does not ask.
AsksOutside ==
  FloatArithmetic \cup FloatComparisons \cup
  {"ICONVF", "NEGF", "FPROM", "FDEM", "FCONVI", "FCONVB", "DEREF", "CHAR_8CONV32",
   "CHAR_16CONV32", "CHAR_32CONV8", "CHAR_32CONV16"}
OutcomesOf(code) ==
  IF \E k \in DOMAIN code : code[k].op \in AsksOutside
  THEN Outcomes ELSE {CHOOSE u \in Outcomes : TRUE}

Stop(reason) == types' = <<>> /\ words' = <<>> /\ status' = reason

\* type_error: the whole program is rejected, and never run.
Rejected == {i \in Instructions : Translate(i, types).error}
Reject == status = "running" /\ Rejected # {} /\ Stop("type_error")

\* A word that could be a value of type t: narrow values are zero extended.
Limit == [t \in Simple |-> Span(Width(t))]
Fits(t, w) == w < Limit[t]

\* The words of a value that has more than one are not looked at.
AllFit(ts, s) ==
  \A k \in DOMAIN ts : WordCount(ts[k]) = 1 => Fits(ts[k], s[TopOf(ts, k)])

\* The code of the instruction is run.  Bound: the program is not followed any
\* further if the stacks are no longer of the same height, so that the words no
\* longer belong to the types, or if a word does not fit its type.
Continue(i, t, after) ==
  /\ Room(after)
  /\ \E u \in OutcomesOf(t.code) :
       LET m == Run(t.code, Machine(words), u)
       IN CASE m.trapped -> Stop("trap")
            [] ~m.trapped /\ i.op = "exit" -> Stop("exited")
            [] ~m.trapped /\ Len(m.stack) # WordsOf(after) -> Stop("skewed")
            [] OTHER -> IF AllFit(after, m.stack)
                        THEN types' = after /\ words' = m.stack /\ UNCHANGED status
                        ELSE Stop("misfit")

Perform(i, t) ==
  \/ t.assert /\ Stop("assert")
  \/ ~t.error /\ ~t.assert /\ Continue(i, t, TypesAfter(types, t))

\* Bound: a conversion is followed only if its operand is the only value.
Followed == {i \in Instructions : i.op \in {"to", "as"} => Len(types) <= 1}

Step(i) == Perform(i, Translate(i, types))

Next ==
  \/ PushInteger \/ PushFloat \/ PushChar \/ LoadString
  \/ Reject
  \/ status = "running" /\ \E i \in Followed : Step(i)

Spec == Init /\ [][Next]_vars


-----------------------------------------------------------------------------
\* The other properties are about any instruction that could come next.

Depth == Len(types)
Top == types[Depth]
Lhs == types[Depth - 1]
SomeOutcome == CHOOSE u \in Outcomes : TRUE
After(i, u) == Run(Translate(i, types).code, Machine(words), u)
Result(op) == After(Instruction(op), SomeOutcome)

\* The number a word of an integral type stands for, and whether a word stands
\* for a number as far as the type's width goes.
Number(t, w) == IF t \in Signed THEN SignedValue(Width(t), w) ELSE w
IsNumber(t, w, n) == (w - n) % Span(Width(t)) = 0

\* The two values on top, if they are integers.
OnIntegers ==
  status = "running" /\ Depth >= 2 /\ Lhs \in Integral /\ Top \in Integral
LhsNumber == Number(Lhs, words[Len(words) - 1])
RhsNumber == Number(Top, Last(words))

\* The rows of arithmetic_conversions that leave a conversion out or have the
\* wrong one (type_checker.c:234-244, 283).
InDoubt(l, r) ==
  <<l, r>> = <<"word", "s32">> \/ ("byte" \in {l, r} /\ {l, r} \cap NarrowSigned # {})

\* `+', `-' and `*' on integers of any two types leave what is, in the width of
\* the result type, the sum, difference or product of the two numbers: the
\* conversions the checker emits before and after the instruction lose none of
\* it.  Excepted: word with s32.
RingExact ==
  OnIntegers /\ <<Lhs, Top>> # <<"word", "s32">> =>
    \A op \in {"+", "-", "*"} :
      IsNumber(ResultType(Lhs, Top), Last(Result(op).stack),
               CASE op = "+" -> LhsNumber + RhsNumber
                 [] op = "-" -> LhsNumber - RhsNumber
                 [] op = "*" -> LhsNumber * RhsNumber)

\* A number as the instruction sees it that the result type decides on: a negative
\* one is a large word if the result type is unsigned.
Common(n) == IF ResultType(Lhs, Top) \in Signed THEN n ELSE InWord(n)
Answers(op, x, y) ==
  Last(Result(op).stack) =
    Truth(CASE op = "=" -> x = y   [] op = "/=" -> x # y
            [] op = "<" -> x < y   [] op = "<=" -> x <= y
            [] op = ">" -> x > y   [] op = ">=" -> x >= y)

\* `=', `<=', `>', `>=', and `<' if the result type is signed, answer for the two
\* numbers in their result type: the instruction is of the signedness the
\* operands were converted to.  Excepted: `/=' and the unsigned `<', which are
\* translated like `=' and `<='.
ComparisonsExact ==
  OnIntegers /\ ~InDoubt(Lhs, Top) =>
    \A op \in {"=", "<=", ">", ">="} \cup (IF ResultType(Lhs, Top) \in Signed THEN {"<"} ELSE {}) :
      Answers(op, Common(LhsNumber), Common(RhsNumber))

\* src/README.md:191-193: `/=' answers whether the two numbers differ.
NotEqualsExact ==
  OnIntegers /\ ~InDoubt(Lhs, Top) => Answers("/=", Common(LhsNumber), Common(RhsNumber))

\* n divided by one of its divisors.
Exactly(n, d) == IF d > 0 THEN n \div d ELSE -(n \div (-d))
Magnitude(n) == IF n < 0 THEN -n ELSE n
Rest(op, x, y) ==
  IF op = "idivmod" /\ x < 0 THEN -(Magnitude(x) % Magnitude(y)) ELSE x % Magnitude(y)

\* Dividing x by y leaves the quotient and rest; it traps only on zero, and when
\* the quotient would not fit an int.
Divides(type, m, x, y, rest) ==
  IF m.trapped THEN y = 0 \/ (y = -1 /\ -x = Span(64) \div 2)
  ELSE /\ y # 0
       /\ IsNumber(type, Nth(m.stack, 1), Exactly(x - rest, y))
       /\ IsNumber(type, Nth(m.stack, 0), rest)

Meant(op, n) == IF op = "divmod" THEN Common(n) ELSE n

\* `divmod' of two integers of any types is the Euclidean division of the numbers
\* in their result type; `edivmod' is that of the numbers themselves, and
\* `idivmod' the division towards zero, except with a word: those two read it as
\* signed.  Whether it is DIVMOD, IDIVMOD or EDIVMOD that divmod becomes is
\* decided by the types alone.  The Euclidean quotient is what src/README.md:151 says of
\* `edivmod'; line 152 says that it is rounded towards negative infinity, which for a
\* negative divisor is another number, and not what the code leaves: 7 divided by -2
\* gives -3.
DivisionsExact ==
  OnIntegers /\ ~InDoubt(Lhs, Top) =>
    \A op \in IF "word" \in {Lhs, Top} THEN {"divmod"} ELSE DivmodNames :
      LET x == Meant(op, LhsNumber)  y == Meant(op, RhsNumber)
      IN Divides(ResultType(Lhs, Top), Result(op), x, y, Rest(op, x, y))

\* The instructions with a narrow result that is not narrowed: `+' is narrowed
\* before the sum (type_checker.c:1347), of a division the remainder is, twice, and
\* the quotient is not (696-713), the rows of byte have no result conversion, and
\* float comparisons push a float for a bool.
NotNarrowed(op, l, r) ==
  \/ /\ BothIntegral(l, r)
     /\ Narrow(ResultType(l, r))
     /\ \/ op = "+"
        \/ op \in {"-", "*"} /\ ResultConv(l, r) = Nop
        \/ op \in DivmodNames \cup {"/"} /\ {l, r} \cap NarrowSigned # {}
  \/ op \in Comparisons /\ SomeFloat(l, r)

LeavesFitting(i, t, after) ==
  \/ t.error \/ t.assert
  \/ i \in Binary /\ NotNarrowed(i.op, Lhs, Top)
  \/ \A u \in OutcomesOf(t.code) :
       LET m == Run(t.code, Machine(words), u)
       IN m.trapped \/ Len(m.stack) # WordsOf(after) \/ AllFit(after, m.stack)

\* Whatever is run next, it leaves a value of a narrow type in the low bits of its
\* word, with none of the higher bits set: arithmetic that overflows is narrowed
\* again, and so is a value that is converted.  Excepted: NotNarrowed.
ResultsFit ==
  status = "running" =>
    \A i \in Instructions :
      LET t == Translate(i, types) IN LeavesFitting(i, t, TypesAfter(types, t))

Keeps(i, m, n) ==
  CASE i.op = "to" /\ i.type = "bool" -> Last(m.stack) = Truth(n # 0)
    [] i.op \in {"to", "as"} /\ i.type # "bool" -> IsNumber(i.type, Last(m.stack), n)
    [] i.op = "~"     -> IsNumber(Top, Last(m.stack), -n)
    [] i.op = "print" -> m.out = <<n>>

\* Conversions between the integral types keep the number, in the width of the
\* type that is converted to: a signed number is extended by its own width first.
\* A conversion to bool is false for 0 only, `~' is the number's negation, and
\* `print' prints the number.
ConversionsExact ==
  status = "running" /\ Depth > 0 /\ Top \in Integral =>
    \A i \in {ToType(t) : t \in Integral \cup {"bool"}}
              \cup {AsType(t) : t \in {u \in Integral : Width(u) <= Width(Top)}}
              \cup {Instruction("~"), Instruction("print")} :
      Keeps(i, After(i, SomeOutcome), Number(Top, Last(words)))

-----------------------------------------------------------------------------
\* Characters.

Encoding(t) ==
  CASE t = "char" -> Utf8 [] t = "char16" -> Utf16
    [] t = "char32" -> [c \in 0..UnicodeMax |-> c]
Nearest(n) == IF n < 0 THEN 0 ELSE IF n > UnicodeMax THEN UnicodeMax ELSE n

Becomes(w, to, c) ==
  IF to \in Character THEN w = Encoding(to)[c] ELSE IsNumber(to, w, c)

\* A word that encodes a character encodes the same character after a conversion
\* to another character type, and is its codepoint after one to an integral type;
\* a number becomes the codepoint that is nearest, in the encoding of the type it
\* is converted to.  A word is read as signed (type_checker.c:831, W_OP_ICONVC32).
CharactersKept ==
  status = "running" /\ Depth > 0 /\ Top \in Character \cup (Integral \ {"word"}) =>
    LET codepoints == IF Top \in Integral THEN {Nearest(Number(Top, Last(words)))}
                      ELSE {c \in 0..UnicodeMax : Last(words) = Encoding(Top)[c]}
    IN \A to \in Character \cup (IF Top \in Character THEN Integral ELSE {}), c \in codepoints :
         Becomes(Last(After(ToType(to), SomeOutcome).stack), to, c)

-----------------------------------------------------------------------------
\* Formats: what kind of bits a word holds.

Format(t) ==
  CASE t \in Float -> t [] t = "char" -> "utf8" [] t = "char16" -> "utf16" [] OTHER -> "int"
FormatsOf(ts) ==
  LET of[k \in 0..Len(ts)] ==
        IF k = 0 THEN <<>> ELSE of[k - 1] \o [j \in 1..WordCount(ts[k]) |-> Format(ts[k])]
  IN of[Len(ts)]
OfSize(n) == IF n = 32 THEN "f32" ELSE "f64"

\* What an instruction reads from the top of the stack and puts there instead.
\* The truncations and the logical operators work on any format.
Signature(w, top) ==
  LET f == OfSize(w.n) IN
  CASE w.op \in ZeroExtensions -> <<<<top>>, <<top>>>>
    [] w.op \in {"AND", "OR"}  -> <<<<top, top>>, <<top>>>>
    [] w.op \in SignExtensions \cup {"NEG", "NOT", "ICONVB", "ICONVC32", "DEREF"} ->
         <<<<"int">>, <<"int">>>>
    [] w.op = "ICONVF" -> <<<<"int">>, <<f>>>>
    [] w.op = "NEGF"   -> <<<<f>>, <<f>>>>
    [] w.op \in {"FCONVI", "FCONVB"} -> <<<<f>>, <<"int">>>>
    [] w.op = "FPROM"  -> <<<<"f32">>, <<"f64">>>>
    [] w.op = "FDEM"   -> <<<<"f64">>, <<"f32">>>>
    [] w.op = "CHAR_8CONV32"  -> <<<<"utf8">>, <<"int">>>>
    [] w.op = "CHAR_16CONV32" -> <<<<"utf16">>, <<"int">>>>
    [] w.op = "CHAR_32CONV8"  -> <<<<"int">>, <<"utf8">>>>
    [] w.op = "CHAR_32CONV16" -> <<<<"int">>, <<"utf16">>>>
    [] w.op \in FloatArithmetic \cup FloatComparisons -> <<<<f, f>>, <<f>>>>
    [] w.op \in Divisions     -> <<<<"int", "int">>, <<"int", "int">>>>
    [] w.op \in Combinations  -> <<<<"int", "int">>, <<"int">>>>
    [] w.op = "PRINT_FLOAT"   -> <<<<"f64">>, <<>>>>
    [] w.op = "PRINT_CHAR"    -> <<<<"utf8">>, <<>>>>
    [] w.op = "PRINT_STRING"  -> <<<<"int", "int">>, <<>>>>
    [] w.op \in {"PRINT", "PRINT_INT", "PRINT_BOOL", "EXIT"} -> <<<<"int">>, <<>>>>

Moves == {"POPN", "DUPEN", "COMP_SUBCOMP_GET", "SWAP_COMPS"}
Mismatch == <<"mismatch">>

FormatsAfter(fs, w) ==
  IF fs = Mismatch THEN fs
  ELSE IF w.op \in Moves THEN Execute(w, Machine(fs), SomeOutcome).stack
  ELSE LET above == IF w.under THEN 1 ELSE 0
           signature == Signature(w, Nth(fs, above))
           rest == Len(fs) - above - Len(signature[1])
       IN IF rest >= 0 /\ SubSeq(fs, rest + 1, Len(fs) - above) = signature[1]
          THEN SubSeq(fs, 1, rest) \o signature[2] \o SubSeq(fs, Len(fs) - above + 1, Len(fs))
          ELSE Mismatch

FormatsThrough(code, fs) ==
  LET after[k \in 0..Len(code)] ==
        IF k = 0 THEN fs ELSE FormatsAfter(after[k - 1], code[k])
  IN after[Len(code)]

\* Instructions whose code does not keep to formats: `as', which is there to
\* reinterpret; `not' of a float, which leaves a bool too many on the type stack;
\* `and' and `or' of strings, which are one instruction; comparisons of floats,
\* which push a float, and are accepted with any type; `+' with a pointer, which
\* looks at no other type and converts the top word even if that is the pointer;
\* print-char of a byte.
MixesFormats(i) ==
  \/ i.op = "as"
  \/ i.op = "not" /\ Top \in Float
  \/ i.op \in {"and", "or"} /\ Top = "string"
  \/ i.op \in Comparisons /\ SomeFloat(Lhs, Top)
  \/ i.op = "+" /\ \/ Lhs = "ptr" /\ Top \notin Integral
                   \/ Top = "ptr" /\ Lhs \notin Integral
  \/ i.op = "print-char" /\ Top = "byte"

KeepsFormats(i, t) ==
  \/ t.error \/ t.assert \/ MixesFormats(i)
  \/ FormatsThrough(t.code, FormatsOf(types)) = FormatsOf(TypesAfter(types, t))

\* The types the checker goes on with are those of the words its code leaves: as
\* many words as the types have, and each in the format of its type, where every
\* instruction is given words of the formats it works on.  Nothing at run time
\* tells a float from an integer, or a string's length from the word under it.
FormatsAgree ==
  status = "running" =>
    \A i \in Instructions : KeepsFormats(i, Translate(i, types))
=============================================================================
