------------------------------ MODULE Compounds -------------------------------
(***************************************************************************)
(* Packs, comps and arrays: what the type checker of src/type_checker.c    *)
(* makes of the T-instructions on them, and of those that move values of   *)
(* several words, and what the W-instructions it emits do to the stack of  *)
(* words, in src/interpreter.c and in the code of src/generator.c.  As in  *)
(* Arithmetic, a step translates an instruction and runs its code.         *)
(*                                                                         *)
(* No word says which value it is part of: the checker's types, the sizes  *)
(* and offsets that were laid down when the types were compiled, and the   *)
(* operands of the instructions have to agree on that.                     *)
(***************************************************************************)
EXTENDS TypeTable, Codegen

CONSTANTS
  Index,     \* The simple types that are integral, and unsigned;
  MaxWords,  \* bounds: the words on the stack,
  MaxDepth,  \* the values,
  MaxMoves   \* and the instructions that do more than build a stack.

VARIABLES
  types,   \* checker->tstack
  words,   \* interpreter->main_stack
  moves,   \* How many such instructions there have been.
  done     \* The instruction that was executed last.

vars == <<types, words, moves, done>>

CompoundsAssumption ==
  /\ WordOpsAssumption /\ TypeTableAssumption
  /\ Index \subseteq Simple
  /\ {MaxWords, MaxDepth, MaxMoves} \subseteq Nat

-----------------------------------------------------------------------------
\* What the checker emits.  A W-instruction on packs has the sizes of the fields.

WithSizes(op, sizes) == [op |-> op, under |-> FALSE, n |-> 0, m |-> 0, sizes |-> sizes]

\* Mutant: offsets are counted from the first word.
Offset_FromStart(t, i) ==
  SumOf([j \in 1..i |-> IF Parts[t][j] \in Comps THEN CompWordCount[Parts[t][j]] ELSE 1])

\* comp.offsets: from the end of the comp to where the field begins.
Offset(t, i) ==
  CompWordCount[t] -
    SumOf([j \in 1..i - 1 |-> IF Parts[t][j] \in Comps THEN CompWordCount[Parts[t][j]] ELSE 1])

\* emit_pack_field, emit_comp_field and emit_comp_subcomp
emit_field(which, t, i) ==
  LET field == Parts[t][i]
      before == SumOf([j \in 1..i - 1 |-> type_size[Parts[t][j]]])
  IN CASE t \in Packs -> <<Sized("PACK_FIELD_" \o which, before, type_size[field])>>
       [] t \in Comps /\ field \notin Comps -> <<Sized("COMP_FIELD_" \o which, Offset(t, i), 0)>>
       [] t \in Comps /\ field \in Comps ->
            <<Sized("COMP_SUBCOMP_" \o which, Offset(t, i), type_word_count[field])>>

emit_array_instruction(which, t) ==
  <<Sized("ARRAY_" \o which, Table[t].count, type_word_count[Table[t].element])>>

\* The parts are printed from the topmost word down.
emit_print_instruction[t \in DOMAIN Table] ==
  IF t \in Comps \cup Arrays
  THEN FlattenSeq(Reverse([i \in DOMAIN Parts[t] |-> emit_print_instruction[Parts[t][i]]]))
  ELSE <<W("PRINT")>>
-----------------------------------------------------------------------------
\* A T-instruction with its operands.  A translation of it says how many types it
\* takes, which it puts there and the code; there is none if it is a type error.

Op(op) == [op |-> op, t |-> "", i |-> 0]
OpOn(op, t, i) == [op |-> op, t |-> t, i |-> i]

Instructions ==
  {Op(op) : op \in {"pop", "dupe", "swap", "over", "rot", "print", "unpack", "decomp",
                    "array-get", "array-set"}}
    \cup {OpOn("construct", t, 0) : t \in Compounds}
    \cup UNION {{OpOn(op, t, i) : op \in {"field-get", "field-set"}, i \in DOMAIN Parts[t]} :
                  t \in Packs \cup Comps}

Depth == Len(types)
Type(k) == IF k < Depth THEN types[Depth - k] ELSE "none"   \* the k-th from the top
Size(k) == type_word_count[Type(k)]
Arity(x) ==
  CASE x.op \in {"swap", "over", "array-get"} -> 2
    [] x.op \in {"rot", "array-set"} -> 3
    [] x.op = "construct" -> Len(Parts[x.t])
    [] OTHER -> 1

\* The checks.  A field is set without a look at the type under the one that is
\* popped.
WellTyped(x) ==
  /\ Arity(x) <= Depth
  /\ CASE x.op = "construct" -> SubSeq(types, Depth - Arity(x) + 1, Depth) = Parts[x.t]
       [] x.op = "unpack"    -> Type(0) \in Packs
       [] x.op = "decomp"    -> Type(0) \in Comps \cup Arrays
       [] x.op = "field-get" -> Type(0) = x.t
       [] x.op = "field-set" -> Type(0) = Parts[x.t][x.i]
       [] x.op = "array-get" -> Type(0) \in Index /\ Type(1) \in Arrays
       [] x.op = "array-set" -> Type(0) \in Index /\ Type(2) \in Arrays
                                /\ Table[Type(2)].element = Type(1)
       [] OTHER -> TRUE

Gives(x) ==
  CASE x.op \in {"pop", "print"} -> <<>>
    [] x.op = "dupe" -> <<Type(0), Type(0)>>
    [] x.op = "swap" -> <<Type(0), Type(1)>>
    [] x.op = "over" -> <<Type(1), Type(0), Type(1)>>
    [] x.op = "rot"  -> <<Type(1), Type(0), Type(2)>>
    [] x.op = "construct" -> <<x.t>>
    [] x.op \in {"unpack", "decomp"} -> Parts[Type(0)]
    [] x.op = "field-get" -> <<x.t, Parts[x.t][x.i]>>
    [] x.op = "field-set" -> <<>>
    [] x.op = "array-get" -> <<Type(1), Table[Type(1)].element>>
    [] x.op = "array-set" -> <<Type(2)>>
TypesAfter(x) == SubSeq(types, 1, Depth - Arity(x)) \o Gives(x)

CodeOf(x) ==
  CASE x.op = "pop"  -> <<Sized("POPN", Size(0), 0)>>
    [] x.op = "dupe" -> <<Sized("DUPEN", Size(0), 0)>>
    [] x.op = "swap" -> <<Sized("SWAP_COMPS", Size(1), Size(0))>>
    [] x.op = "over" -> <<Sized("COMP_SUBCOMP_GET", Size(1) + Size(0), Size(1))>>
    [] x.op = "rot"  -> <<Sized("SWAP_COMPS", Size(2), Size(1) + Size(0))>>
    [] x.op = "print" -> emit_print_instruction[Type(0)]
    [] x.op = "construct" -> IF x.t \in Packs THEN <<WithSizes("PACK", Sizes(x.t))>> ELSE <<>>
    [] x.op = "unpack"    -> <<WithSizes("UNPACK", Sizes(Type(0)))>>
    [] x.op = "decomp"    -> <<>>
    [] x.op = "field-get" -> emit_field("GET", x.t, x.i)
    [] x.op = "field-set" -> emit_field("SET", x.t, x.i)
    [] x.op = "array-get" -> emit_array_instruction("GET", Type(1))
    [] x.op = "array-set" -> emit_array_instruction("SET", Type(2))
-----------------------------------------------------------------------------
\* What the interpreter does.  Bytes are taken from a word, and put in it, at an
\* offset: memcpy.

Factor(bytes) == 2^(bytes * Bits[8])
BytesOf(w, offset, size) == (w \div Factor(offset)) % Factor(size)
WithBytes(w, offset, size, v) ==
  w + (BytesOf(v, 0, size) - BytesOf(w, offset, size)) * Factor(offset)

OffsetIn(sizes, i) == SumOf(SubSeq(sizes, 1, i - 1))
pack_fields(sizes, fields) ==
  FoldLeft(LAMBDA pack, i : WithBytes(pack, OffsetIn(sizes, i), sizes[i], fields[i]),
           0, [i \in DOMAIN sizes |-> i])
unpack_fields(sizes, pack) ==
  [i \in DOMAIN sizes |-> BytesOf(pack, OffsetIn(sizes, i), sizes[i])]

TopWords(s, n) == SubSeq(s, Len(s) - n + 1, Len(s))

\* comp_set_subcomp: n bytes, and not n words, of the new words are copied over
\* those that lie `offset' words from the end.
comp_set_subcomp(s, offset, n) ==
  LET rest == Below(s, n)
      new  == TopWords(s, n)
      Copied(i) ==   \* how many bytes of the i-th word are
        CASE 8 * i <= n -> 8 [] 8 * (i - 1) >= n -> 0 [] OTHER -> n - 8 * (i - 1)
  IN Below(rest, offset)
       \o [i \in 1..offset |-> IF i <= n THEN WithBytes(rest[Len(rest) - offset + i], 0, Copied(i), new[i])
                               ELSE rest[Len(rest) - offset + i]]

\* What setting the words would leave.
SetWords(s, offset, n) ==
  LET rest == Below(s, n)
  IN Below(rest, offset) \o TopWords(s, n) \o TopWords(rest, offset - n)

\* The operand of array_get and array_set: where the element begins.
ElementOffset(w, s) == (w.n - SignedValue(64, Nth(s, 0))) * w.m

\* W_OP_PACKn and W_OP_UNPACKn
ExecutePack(sizes, s) ==
  Append(Below(s, Len(sizes)), pack_fields(sizes, TopWords(s, Len(sizes))))
ExecuteUnpack(sizes, s) == Below(s, 1) \o unpack_fields(sizes, Nth(s, 0))

ExecuteCompound(w, s) ==
  CASE w.op = "PACK" -> ExecutePack(w.sizes, s)
    [] w.op = "UNPACK" -> ExecuteUnpack(w.sizes, s)
    [] w.op = "PACK_FIELD_GET" -> Append(s, BytesOf(Nth(s, 0), w.n, w.m))
    [] w.op = "PACK_FIELD_SET" -> Append(Below(s, 2), WithBytes(Nth(s, 1), w.n, w.m, Nth(s, 0)))
    [] w.op = "COMP_FIELD_GET" -> Append(s, Nth(s, w.n - 1))
    [] w.op = "COMP_FIELD_SET" -> [Below(s, 1) EXCEPT ![Len(s) - w.n] = Nth(s, 0)]
    [] w.op = "COMP_SUBCOMP_SET" -> comp_set_subcomp(s, w.n, w.m)
    [] w.op = "ARRAY_GET" -> SubcompGet(Below(s, 1), ElementOffset(w, s), w.m)
    [] w.op = "ARRAY_SET" -> comp_set_subcomp(Below(s, 1), ElementOffset(w, s), w.m)
    [] OTHER -> Execute(w, Machine(s), CHOOSE u \in Outcomes : TRUE).stack

WordsAfter(x) == FoldLeft(LAMBDA s, w : ExecuteCompound(w, s), words, CodeOf(x))
-----------------------------------------------------------------------------
\* A literal of a simple type.  Bound: a word or its like is known by how many
\* words lie under it, three more make a difference in its first byte only; of the
\* index types there is every index.
Literals(t, below) ==
  IF t \in Index THEN {(below + 2) % 3}
  ELSE {((58 * ((below % 3) + 1)) % Span(8 * Table[t].size)) + (below \div 3)}
Push ==
  \E t \in Simple : \E v \in Literals(t, Len(words)) :
    /\ Len(words) < MaxWords /\ Depth < MaxDepth
    /\ types' = Append(types, t)
    /\ words' = Append(words, v)
    /\ done' = OpOn("push", t, 0)
    /\ UNCHANGED moves

\* Bound: an index is in the array's range.  The interpreter does not look.
IndexInRange(x) ==
  /\ x.op = "array-get" => Nth(words, 0) < Table[Type(1)].count
  /\ x.op = "array-set" => Nth(words, 0) < Table[Type(2)].count

\* A field is set in a value of the type the field is of.
SetsOwnField(x) == x.op = "field-set" => Type(1) = x.t

CouldRun(x) == WellTyped(x) /\ IndexInRange(x) /\ SetsOwnField(x)

\* comp_set_subcomp is called.
SetsWords(x) ==
  x.op = "array-set" \/ (x.op = "field-set" /\ x.t \in Comps /\ Parts[x.t][x.i] \in Comps)
SetsMeant(x, w) ==
  IF x.op = "array-set" THEN SetWords(Below(words, 1), ElementOffset(w, words), w.m)
  ELSE SetWords(words, w.n, w.m)
WordsMeant(x) == IF SetsWords(x) THEN SetsMeant(x, Last(CodeOf(x))) ELSE WordsAfter(x)

\* Bounds: a program is not followed if it sets a field of what is no such value,
\* or if comp_set_subcomp does not copy all that is new.
Perform(x) ==
  /\ CouldRun(x)
  /\ types' = TypesAfter(x) /\ Len(types') <= MaxDepth
  /\ moves' = (IF x.op = "construct" THEN moves ELSE moves + 1) /\ moves' <= MaxMoves
  /\ words' = WordsAfter(x) /\ Len(words') <= MaxWords
  /\ words' = WordsMeant(x)
  /\ done' = x

Init == types = <<>> /\ words = <<>> /\ moves = 0 /\ done = Op("none")
Next == Push \/ \E x \in Instructions : Perform(x)
Spec == Init /\ [][Next]_vars
-----------------------------------------------------------------------------
\* The words of a stack of values, read by the types.

\* How many words a value has; the bytes a part of a pack has; and how many of
\* them lie before each part.
RECURSIVE Extent(_)
Extent(t) ==
  IF t \in Simple \cup Packs THEN 1 ELSE SumOf([i \in DOMAIN Parts[t] |-> Extent(Parts[t][i])])
RECURSIVE Width(_)
Width(t) ==
  CASE t \in Simple -> Table[t].size
    [] t \in Packs  -> SumOf([i \in DOMAIN Parts[t] |-> Width(Parts[t][i])])
    [] OTHER -> 8 * Extent(t)
Extents == [t \in DOMAIN Table |-> Extent(t)]
Widths  == [t \in DOMAIN Table |-> Width(t)]
Before  == [t \in Compounds |-> [i \in DOMAIN Parts[t] |->
  SumOf([j \in 1..i - 1 |-> IF t \in Packs THEN Widths[Parts[t][j]] ELSE Extents[Parts[t][j]]])]]

\* The value of type t in the words of s after the first n.
RECURSIVE ValueOf(_, _, _)
ValueOf(t, s, n) ==
  CASE t \in Simple -> s[n + 1]
    [] t \in Packs  ->
         [i \in DOMAIN Parts[t] |->
            LET part == Parts[t][i]
            IN ValueOf(part, <<BytesOf(s[n + 1], Before[t][i], Widths[part])>>, 0)]
    [] OTHER -> [i \in DOMAIN Parts[t] |-> ValueOf(Parts[t][i], s, n + Before[t][i])]

\* Not a stack of values if there are more words than the types have, or fewer.
ValuesOf(ts, s) ==
  LET start[k \in 1..Len(ts) + 1] == IF k = 1 THEN 0 ELSE start[k - 1] + Extents[ts[k - 1]]
  IN IF start[Len(ts) + 1] # Len(s) THEN <<"skewed">>
     ELSE [k \in DOMAIN ts |-> [type |-> ts[k], value |-> ValueOf(ts[k], s, start[k])]]

Abstract == INSTANCE Values WITH
  Numbers <- [t \in Simple |-> UNION {Literals(t, n) : n \in 0..MaxWords}],
  stack   <- ValuesOf(types, words), done <- done

\* The words on the stack are those of a stack of values, and each instruction
\* does to them what it promises to do to the values: it moves them whole, takes
\* apart what was put together, and reads or sets the part that is named and no
\* other.  The sizes and offsets are computed when a type is compiled; the words
\* are moved when the program runs; between them there are only operands.
ImplementsValues == Abstract!Spec

\* What the generator is known to get wrong.  Of a value of two words or more that
\* lies under a single word, the last word is not loaded (generator.c:196); and a
\* comp of several words is set only where it has two and is the last field
\* (generator.c:214-232).
GeneratedWrong(w) ==
  \/ w.op = "COMP_SUBCOMP_GET" /\ w.m > 1 /\ w.n = w.m + 1
  \/ w.op = "COMP_SUBCOMP_SET" /\ <<w.n, w.m>> # <<2, 2>>

\* The code the generator writes for an instruction, run by the processor with the
\* two topmost words in registers and the rest in memory, leaves the words that
\* are meant, and those under them as they were: also where comp_set_subcomp does
\* not.  Excepted: GeneratedWrong.  Bound: a program that has made its last move is
\* not looked at.
GeneratedMovesWords ==
  moves < MaxMoves => \A x \in Instructions :
    CouldRun(x) /\ (\A k \in DOMAIN CodeOf(x) : ~GeneratedWrong(CodeOf(x)[k])) =>
      LET all == Unloaded(RunAssembly(Generated(CodeOf(x)), Loaded(words)))
      IN all = <<Unknown, Unknown>> \o WordsMeant(x)

\* src/README.md:121: setting an element of an array, or a field of a comp, sets
\* all of it.
SetsAllWords == \A x \in Instructions : CouldRun(x) => WordsAfter(x) = WordsMeant(x)
=============================================================================
