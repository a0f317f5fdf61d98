------------------------------- MODULE TypedOps -------------------------------
(***************************************************************************)
(* What the type checker of src/type_checker.c makes of each straight-line *)
(* T-instruction: the types it takes from its type stack and puts there,   *)
(* the W-instructions it emits, and the type errors it reports.            *)
(***************************************************************************)
EXTENDS WordOps

Unsigned  == {"word", "byte", "u8", "u16", "u32"}
Signed    == {"int", "s8", "s16", "s32"}
Integral  == Unsigned \cup Signed
Float     == {"f32", "f64"}
Character == {"char", "char16", "char32"}
Simple    == Integral \cup Float \cup Character \cup {"ptr", "bool"}
ErrorType == "error"
Types     == Simple \cup {"string"}  \* TYPE_STRING, a comp of a ptr and a word.

\* type_size in bits, and type_word_count.
Width(t) ==
  CASE t \in {"byte", "bool", "u8", "s8"} -> 8
    [] t \in {"u16", "s16"} -> 16
    [] t \in {"u32", "s32", "f32"} \cup Character -> 32
    [] OTHER -> 64
WordCount(t) == IF t = "string" THEN 2 ELSE 1

\* The instruction for a width.  No conversion is no code: emit_simple_nnop.
Sx(t) == CASE Width(t) = 8 -> "SX8" [] Width(t) = 16 -> "SX16" [] OTHER -> "SX32"
Zx(t) == CASE Width(t) = 8 -> "ZX8" [] Width(t) = 16 -> "ZX16" [] OTHER -> "ZX32"
Nop == <<>>
Code(op) == <<W(op)>>

NarrowSigned == Signed \ {"int"}
Narrow(t) == Width(t) < 64

\* Mutant: SXn where it is SXnL, which works on the word under the top.
LhsConv_TopWord(l, r) ==
  IF l \in NarrowSigned /\ r # "byte" THEN Code(Sx(l)) ELSE Nop

\* The columns of arithmetic_conversions.  The row of word and s32 extends from
\* 16 bits, and the rows of byte leave conversions out.
LhsConv(l, r) ==
  IF l \in NarrowSigned /\ r # "byte" THEN <<Under(Sx(l))>> ELSE Nop
RhsConv(l, r) ==
  IF r \in NarrowSigned /\ l # "byte"
  THEN Code(IF l = "word" /\ r = "s32" THEN "SX16" ELSE Sx(r)) ELSE Nop
ResultType(l, r) ==
  CASE l = r -> l
    [] Width(l) > Width(r) -> l
    [] Width(l) < Width(r) -> r
    [] OTHER -> IF "word" \in {l, r} THEN "word" ELSE IF "byte" \in {l, r} THEN "byte"
                ELSE CHOOSE t \in {l, r} : t \in Unsigned
ResultConv(l, r) ==
  IF Narrow(ResultType(l, r)) /\ ("byte" \in {l, r} => <<l, r>> \in {<<"byte", "byte">>, <<"byte", "s8">>})
  THEN Code(Zx(ResultType(l, r))) ELSE Nop

\* convert: rows the table does not have are zero, TYPE_ERROR and W_OP_NOP.
NoConversion == [result |-> ErrorType, lhs |-> Nop, rhs |-> Nop, res |-> Nop]
Convert(l, r) ==
  IF {l, r} \subseteq Integral
  THEN [result |-> ResultType(l, r), lhs |-> LhsConv(l, r), rhs |-> RhsConv(l, r),
        res |-> ResultConv(l, r)]
  ELSE IF <<l, r>> = <<"bool", "word">> THEN [NoConversion EXCEPT !.result = "word"]
  ELSE NoConversion

\* Mutant: the conversion of the wrong operand.
Promote_WrongSide(t) == Convert("int", t).lhs
\* Mutant: the narrowing is left out.
Demote_Nothing(t) == Nop

Promote(t)  == Convert("int", t).rhs   \* promote: the word on top,
PromoteL(t) == Convert(t, "int").lhs   \* promotel: the word under it.
Demote(t)   == Convert(t, t).res

\* An instruction on floats, of the size of type t.
Fp(op, t) == Sized(op, Width(t), 0)
FpUnder(op, t) == [Fp(op, t) EXCEPT !.under = TRUE]

\* float_conversions and convert_float.
ConvertFloat(l, r) ==
  CASE l = "int" /\ r \in Float -> [NoConversion EXCEPT !.result = r, !.lhs = <<FpUnder("ICONVF", r)>>]
    [] l \in Float /\ r = "int" -> [NoConversion EXCEPT !.result = l, !.rhs = <<Fp("ICONVF", l)>>]
    [] l \in Float /\ r = l     -> [NoConversion EXCEPT !.result = l]
    [] l = "f32" /\ r = "f64"   -> [NoConversion EXCEPT !.result = r, !.lhs = <<Under("FPROM")>>]
    [] l = "f64" /\ r = "f32"   -> [NoConversion EXCEPT !.result = l, !.rhs = <<W("FPROM")>>]
    [] OTHER -> NoConversion

\* convert_float_args, and the same lines in the cases of +, - and /: an integer
\* beside a float becomes an int, and then what float_conversions says.
FloatOperands(l, r) ==
  LET conversion == ConvertFloat(IF l \in Integral THEN "int" ELSE l,
                                 IF l \notin Integral /\ r \in Integral THEN "int" ELSE r)
  IN [code |-> (IF l \in Integral THEN PromoteL(l) ELSE IF r \in Integral THEN Promote(r) ELSE Nop)
               \o conversion.lhs \o conversion.rhs,
      result |-> conversion.result]

-----------------------------------------------------------------------------
\* A translation: how many types the instruction takes from the type stack, the
\* types it puts there, the code, and whether it is an error or fails an assertion.

Translation(takes, gives, code) ==
  [takes |-> takes, gives |-> gives, code |-> code, error |-> FALSE, assert |-> FALSE]
TypeError(takes) == [Translation(takes, <<>>, Nop) EXCEPT !.error = TRUE]

BothIntegral(l, r) == l \in Integral /\ r \in Integral
SomeFloat(l, r) == l \in Float \/ r \in Float

\* check_pointer_addition: the type beside the pointer is not looked at, and its
\* conversion always works on the top word.
Add(l, r) ==
  LET c == Convert(l, r)  f == FloatOperands(l, r)
  IN CASE l = "ptr" /\ r = "ptr" -> TypeError(2)
       [] l = "ptr" /\ r # "ptr" -> Translation(2, <<"ptr">>, Promote(r) \o Code("ADD"))
       [] l # "ptr" /\ r = "ptr" -> Translation(2, <<"ptr">>, Promote(l) \o Code("ADD"))
       \* The result conversion comes before the addition.
       [] BothIntegral(l, r) ->
            Translation(2, <<c.result>>, c.lhs \o c.rhs \o c.res \o Code("ADD"))
       [] SomeFloat(l, r) /\ "ptr" \notin {l, r} ->
            IF f.result = ErrorType THEN TypeError(2)
            ELSE Translation(2, <<f.result>>, f.code \o <<Fp("ADDF", f.result)>>)
       [] OTHER -> TypeError(2)

Sub(l, r) ==
  LET c == Convert(l, r)  f == FloatOperands(l, r)
  IN CASE l = "ptr" /\ r = "ptr" -> Translation(2, <<"int">>, Code("SUB"))
       [] l = "ptr" /\ r \in Integral -> Translation(2, <<"ptr">>, Promote(r) \o Code("SUB"))
       [] l # "ptr" /\ BothIntegral(l, r) ->
            Translation(2, <<c.result>>, c.lhs \o c.rhs \o Code("SUB") \o c.res)
       [] l # "ptr" /\ SomeFloat(l, r) /\ f.result # ErrorType ->
            Translation(2, <<f.result>>, f.code \o <<Fp("SUBF", f.result)>>)
       [] OTHER -> TypeError(2)

Mult(l, r) ==
  LET c == Convert(l, r)  f == FloatOperands(l, r)
  IN CASE BothIntegral(l, r) ->
            Translation(2, <<c.result>>, c.lhs \o c.rhs \o Code("MULT") \o c.res)
       [] SomeFloat(l, r) /\ f.result # ErrorType ->
            Translation(2, <<f.result>>, f.code \o <<Fp("MULTF", f.result)>>)
       [] OTHER -> TypeError(2)

\* emit_divmod_instruction: the result conversion is emitted twice, both times for
\* the remainder, which is on top.
DivisionCode(op, c) == c.lhs \o c.rhs \o Code(op) \o c.res \o c.res
DivmodOp(l, r) ==
  CASE ResultType(l, r) \notin Signed -> "DIVMOD"
    [] ResultType(l, r) \in Signed /\ l \in Signed -> "EDIVMOD"
    [] OTHER -> "IDIVMOD"

Divmod(l, r) ==
  LET c == Convert(l, r)
  IN IF BothIntegral(l, r)
     THEN Translation(2, <<c.result, c.result>>, DivisionCode(DivmodOp(l, r), c))
     ELSE TypeError(2)

\* idivmod and edivmod ask the table and not is_integral.
ExplicitDivmod(op, l, r) ==
  LET c == Convert(l, r)
  IN IF c.result # ErrorType
     THEN Translation(2, <<c.result, c.result>>, DivisionCode(op, c)) ELSE TypeError(2)

Div(l, r) ==
  LET c == Convert(l, r)  f == FloatOperands(l, r)
  IN CASE SomeFloat(l, r) /\ f.result # ErrorType ->
            Translation(2, <<f.result>>, f.code \o <<Fp("DIVF", f.result)>>)
       [] BothIntegral(l, r) ->
            Translation(2, <<c.result>>,
                        DivisionCode(DivmodOp(l, r), c) \o <<Sized("POPN", 1, 0)>>)
       [] OTHER -> TypeError(2)

\* The comparisons.  Only the integer ones look at the signedness; `<' has the
\* instruction of `<=' among the unsigned, and `/=' the instruction of `='.
SignedComparison(op) ==
  CASE op \in {"=", "/="} -> "EQUALS"
    [] op = "<"  -> "LESS_THAN"     [] op = "<=" -> "LESS_EQUALS"
    [] op = ">"  -> "GREATER_THAN"  [] op = ">=" -> "GREATER_EQUALS"
\* Mutant: the comparison stays the signed one.
UnsignedComparison_StillSigned(op) == SignedComparison(op)
UnsignedComparison(op) ==
  CASE op \in {"=", "/="} -> "EQUALS"
    [] op \in {"<", "<="} -> "LOWER_SAME"
    [] op = ">" -> "HIGHER_THAN"    [] op = ">=" -> "HIGHER_SAME"
FloatComparison(op) ==
  CASE op \in {"=", "/="} -> "EQUALS_F"
    [] op = "<"  -> "LESS_THAN_F"     [] op = "<=" -> "LESS_EQUALS_F"
    [] op = ">"  -> "GREATER_THAN_F"  [] op = ">=" -> "GREATER_EQUALS_F"

\* A float beside what is no number is no error: its types are not in the table,
\* nothing is converted, and the comparison is the one of doubles.
Compare(op, l, r) ==
  LET c == Convert(l, r)  f == FloatOperands(l, r)
  IN CASE BothIntegral(l, r) ->
            Translation(2, <<"bool">>, c.lhs \o c.rhs \o
              Code(IF c.result \in Signed THEN SignedComparison(op) ELSE UnsignedComparison(op)))
       [] SomeFloat(l, r) -> Translation(2, <<"bool">>, f.code \o <<Fp(FloatComparison(op), f.result)>>)
       [] OTHER -> TypeError(2)

\* `and' and `or' are one instruction whatever the types are, if they are the same.
Logical(op, l, r) == IF l = r THEN Translation(2, <<l>>, Code(op)) ELSE TypeError(2)

Neg(t) ==
  CASE t \in Integral -> Translation(1, <<t>>, Promote(t) \o Code("NEG") \o Demote(t))
    [] t \in Float    -> Translation(1, <<t>>, <<Fp("NEGF", t)>>)
    [] OTHER -> TypeError(1)

\* check_to_bool has already put the bool there when a float is inverted.
Not(t) ==
  CASE t \in Integral \cup {"bool"} -> Translation(1, <<"bool">>, Code("NOT"))
    [] t \in Float -> Translation(1, <<"bool", "bool">>, <<Fp("FCONVB", t)>> \o Code("NOT"))
    [] OTHER -> TypeError(1)

Deref(t) == IF t = "ptr" THEN Translation(1, <<"byte">>, Code("DEREF")) ELSE TypeError(1)

-----------------------------------------------------------------------------
\* The stack instructions work on whole values, of one word or of more.

Pop(t)  == Translation(1, <<>>, <<Sized("POPN", WordCount(t), 0)>>)
Dupe(t) == Translation(1, <<t, t>>, <<Sized("DUPEN", WordCount(t), 0)>>)
Swap(a, b) == Translation(2, <<b, a>>, <<Sized("SWAP_COMPS", WordCount(a), WordCount(b))>>)
\* Mutant: the offset of the value that is copied leaves out the one above it.
Over_TopSizeForgotten(a, b) ==
  Translation(2, <<a, b, a>>, <<Sized("COMP_SUBCOMP_GET", 1 + WordCount(a), WordCount(a))>>)

Over(a, b) ==
  Translation(2, <<a, b, a>>,
              <<Sized("COMP_SUBCOMP_GET", WordCount(a) + WordCount(b), WordCount(a))>>)
Rot(a, b, c) ==
  Translation(3, <<b, c, a>>, <<Sized("SWAP_COMPS", WordCount(a), WordCount(b) + WordCount(c))>>)

-----------------------------------------------------------------------------
\* check_as_simple, and the truncation that follows it.
As(t, to) ==
  IF t = "string" THEN TypeError(1)
  ELSE Translation(1, <<to>>,
         CASE to = "char32" -> Code("ICONVC32")
           [] to \in {"char", "char16"} -> Code("ZX32")
           [] to \notin Character /\ Narrow(to) -> Code(Zx(to))
           [] OTHER -> Nop)

\* Mutant: every encoding but UTF-32 is UTF-8.
EncodeCharacter_Utf8(t) ==
  CASE t \in {"char", "char16"} -> Code("CHAR_32CONV8") [] OTHER -> Nop

DecodeCharacter(t) ==
  CASE t = "char" -> Code("CHAR_8CONV32") [] t = "char16" -> Code("CHAR_16CONV32") [] OTHER -> Nop
EncodeCharacter(t) ==
  CASE t = "char" -> Code("CHAR_32CONV8") [] t = "char16" -> Code("CHAR_32CONV16") [] OTHER -> Nop

\* check_to_integral.  `to ptr' comes here too, and fails the assertion that ptr
\* is an integral type.
ToIntegral(t, to) ==
  LET truncation == IF Narrow(to) THEN Code(Zx(to)) ELSE Nop
      translation == Translation(1, <<to>>,
                       (CASE t \in Integral -> Promote(t)
                          [] t \in Float    -> <<Fp("FCONVI", t)>>
                          [] OTHER          -> DecodeCharacter(t)) \o truncation)
  IN CASE to = "ptr" -> [translation EXCEPT !.assert = TRUE]
       [] to # "ptr" /\ t \in Integral \cup Float \cup Character -> translation
       [] OTHER -> TypeError(1)

ToBool(t) ==
  CASE t \in Integral -> Translation(1, <<"bool">>, Code("ICONVB"))
    [] t \in Float    -> Translation(1, <<"bool">>, <<Fp("FCONVB", t)>>)
    [] t = "bool"     -> Translation(1, <<"bool">>, Nop)
    [] OTHER -> TypeError(1)

\* check_to_float, and the truncation of an f32.
ToFloat(t, to) ==
  LET truncation == IF to = "f32" THEN Code("ZX32") ELSE Nop
      Gives(code) == Translation(1, <<to>>, code \o truncation)
  IN CASE t \in Integral  -> Gives(Promote(t) \o <<Fp("ICONVF", to)>>)
       [] t \in Float     -> Gives(CASE t = to -> Nop
                                 [] t # to /\ to = "f64" -> Code("FPROM")
                                 [] t # to /\ to = "f32" -> Code("FDEM"))
       [] t \in Character -> Gives(DecodeCharacter(t) \o <<Fp("ICONVF", to)>>)
       [] OTHER -> TypeError(1)

ToCharacter(t, to) ==
  LET Gives(code) == Translation(1, <<to>>, code)
  IN CASE t \in Integral  -> Gives(Promote(t) \o Code("ICONVC32") \o EncodeCharacter(to))
       [] t \in Float     -> Gives(<<Fp("FCONVI", t)>> \o Code("ICONVC32") \o EncodeCharacter(to))
       [] t = to          -> Gives(Nop)
       [] t \in Character \ {to} -> Gives(DecodeCharacter(t) \o EncodeCharacter(to))
       [] OTHER -> TypeError(1)

To(t, to) ==
  CASE to \in Integral \cup {"ptr"} -> ToIntegral(t, to)
    [] to = "bool"       -> ToBool(t)
    [] to \in Float      -> ToFloat(t, to)
    [] to \in Character  -> ToCharacter(t, to)

-----------------------------------------------------------------------------
\* emit_print_instruction; print-char, print-int and exit.
PrintValue(t) ==
  Translation(1, <<>>,
    CASE t = "string" -> Code("PRINT_STRING")
      [] t \in Signed -> Promote(t) \o Code("PRINT_INT")
      [] t = "f32"    -> Code("FPROM") \o Code("PRINT_FLOAT")
      [] t = "f64"    -> Code("PRINT_FLOAT")
      [] t = "char"   -> Code("PRINT_CHAR")
      [] t = "char16" -> Code("CHAR_16CONV32") \o Code("CHAR_32CONV8") \o Code("PRINT_CHAR")
      [] t = "char32" -> Code("CHAR_32CONV8") \o Code("PRINT_CHAR")
      [] t = "bool"   -> Code("PRINT_BOOL")
      [] OTHER        -> Code("PRINT"))

PrintChar(t) ==
  IF t \in {"char", "byte"} THEN Translation(1, <<>>, Code("PRINT_CHAR")) ELSE TypeError(1)

PrintInt(t) ==
  IF t \in Integral
  THEN Translation(1, <<>>, (IF Narrow(t) THEN Code(Sx(t)) ELSE Nop) \o Code("PRINT_INT"))
  ELSE TypeError(1)

Exit(t) ==
  IF t \in Integral THEN Translation(1, <<>>, Promote(t) \o Code("EXIT")) ELSE TypeError(1)

-----------------------------------------------------------------------------
\* A T-instruction: its name, and the type it names if it is a conversion.
Instruction(op) == [op |-> op, type |-> ErrorType]
AsType(t) == [op |-> "as", type |-> t]
ToType(t) == [op |-> "to", type |-> t]

Comparisons == {"=", "/=", "<", "<=", ">", ">="}
DivmodNames == {"divmod", "idivmod", "edivmod"}
UnaryNames  == {"~", "not", "deref", "pop", "dupe", "print", "print-char", "print-int", "exit"}
BinaryNames == {"+", "-", "*", "/", "and", "or", "swap", "over"} \cup DivmodNames \cup Comparisons

Unary  == {Instruction(op) : op \in UnaryNames}
            \cup {AsType(t) : t \in Simple} \cup {ToType(t) : t \in Simple}
Binary == {Instruction(op) : op \in BinaryNames}
Rotate == Instruction("rot")
Instructions == Unary \cup Binary \cup {Rotate}

Translate1(i, t) ==
  CASE i.op = "as" -> As(t, i.type)     [] i.op = "to" -> To(t, i.type)
    [] i.op = "~" -> Neg(t)             [] i.op = "not" -> Not(t)
    [] i.op = "deref" -> Deref(t)       [] i.op = "pop" -> Pop(t)
    [] i.op = "dupe" -> Dupe(t)         [] i.op = "print" -> PrintValue(t)
    [] i.op = "print-char" -> PrintChar(t)
    [] i.op = "print-int" -> PrintInt(t)
    [] i.op = "exit" -> Exit(t)

Translate2(i, l, r) ==
  CASE i.op = "+" -> Add(l, r)          [] i.op = "-" -> Sub(l, r)
    [] i.op = "*" -> Mult(l, r)         [] i.op = "/" -> Div(l, r)
    [] i.op = "divmod" -> Divmod(l, r)
    [] i.op = "idivmod" -> ExplicitDivmod("IDIVMOD", l, r)
    [] i.op = "edivmod" -> ExplicitDivmod("EDIVMOD", l, r)
    [] i.op \in Comparisons -> Compare(i.op, l, r)
    [] i.op = "and" -> Logical("AND", l, r)
    [] i.op = "or" -> Logical("OR", l, r)
    [] i.op = "swap" -> Swap(l, r)      [] i.op = "over" -> Over(l, r)

\* All translations, tabulated.
UnaryTable  == [t \in Types |-> [i \in Unary |-> Translate1(i, t)]]
BinaryTable == [l \in Types |-> [r \in Types |-> [i \in Binary |-> Translate2(i, l, r)]]]

Arity(i) == IF i \in Unary THEN 1 ELSE IF i \in Binary THEN 2 ELSE 3

\* ts_pop on an empty type stack is an error.
Translate(i, types) ==
  LET n == Len(types)
  IN IF n < Arity(i) THEN TypeError(n)
     ELSE IF i \in Unary THEN UnaryTable[types[n]][i]
     ELSE IF i \in Binary THEN BinaryTable[types[n - 1]][types[n]][i]
     ELSE Rot(types[n - 2], types[n - 1], types[n])

TypesAfter(types, t) == SubSeq(types, 1, Len(types) - t.takes) \o t.gives
=============================================================================
