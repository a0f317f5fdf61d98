------------------------------- MODULE TypeTable -------------------------------
(***************************************************************************)
(* The type table of src/type.c: the simple types and the compound ones    *)
(* that `pack', `comp' and `array[' make of them.                          *)
(***************************************************************************)
EXTENDS Integers, SequencesExt

CONSTANT
  Table   \* Per type a record: its `kind', and `size' in bytes if it is simple,
          \* `fields' if a pack or comp, `element' and `count' if an array.

Simple    == {t \in DOMAIN Table : Table[t].kind = "simple"}
Packs     == {t \in DOMAIN Table : Table[t].kind = "pack"}
Comps     == {t \in DOMAIN Table : Table[t].kind = "comp"}
Arrays    == {t \in DOMAIN Table : Table[t].kind = "array"}
Compounds == Packs \cup Comps \cup Arrays

\* The types of the parts, which `unpack' and `decomp' put on the type stack.
Parts == [t \in Compounds |->
  IF t \in Arrays THEN [i \in 1..Table[t].count |-> Table[t].element] ELSE Table[t].fields]

SumOf(s) == FoldLeft(LAMBDA sum, n : sum + n, 0, s)

\* compile_comp: a field takes one slot, unless it is a comp itself.
CompWordCount[t \in Comps] ==
  SumOf([i \in DOMAIN Parts[t] |->
           IF Parts[t][i] \in Comps THEN CompWordCount[Parts[t][i]] ELSE 1])

type_word_count[t \in DOMAIN Table] ==
  CASE t \in Simple \cup Packs -> 1
    [] t \in Comps  -> CompWordCount[t]
    [] t \in Arrays -> Table[t].count * type_word_count[Table[t].element]

type_size[t \in DOMAIN Table] ==
  CASE t \in Simple -> Table[t].size
    [] t \in Packs  -> SumOf([i \in DOMAIN Parts[t] |-> type_size[Parts[t][i]]])
    [] t \in Comps \cup Arrays -> 8 * type_word_count[t]

\* The field sizes of a pack, in bytes.
Sizes(t) == [i \in DOMAIN Parts[t] |-> type_size[Parts[t][i]]]

\* A pack has at most eight fields, of at most eight bytes together.  Every type
\* is made of types that were there before it.  Bound: no array is a field of a
\* comp; compile_comp would count it as one word (compiler.c:1022).
TypeTableAssumption ==
  /\ \A t \in Compounds : Parts[t] \in Seq(DOMAIN Table) /\ Parts[t] # <<>>
  /\ \A t \in Packs : Len(Parts[t]) <= 8 /\ type_size[t] <= 8
  /\ \A t \in Comps : ToSet(Parts[t]) \cap Arrays = {}
=============================================================================
