------------------------------ MODULE MCCompounds -----------------------------
(* An instance of Compounds for TLC.                                         *)
EXTENDS Compounds

\* A byte is scaled to one bit.
Scaled == (8 :> 1) @@ (16 :> 2) @@ (32 :> 4) @@ (64 :> 8)
Encoding == (0 :> 0) @@ (1 :> 1)
SomeOutcomes == {[f32 |-> 0, f64 |-> 0, int |-> 1, holds |-> FALSE]}

Simply(size)    == [kind |-> "simple", size |-> size]
PackOf(fields)  == [kind |-> "pack", fields |-> fields]
CompOf(fields)  == [kind |-> "comp", fields |-> fields]
ArrayOf(n, t)   == [kind |-> "array", element |-> t, count |-> n]

\* A pack of fields of two sizes; a comp with a comp at either end, and a pack
\* between them; arrays of words and of comps.
SomeTable ==
  [word |-> Simply(8), u16 |-> Simply(2), u32 |-> Simply(4),
   Pair |-> CompOf(<<"word", "word">>), Small |-> PackOf(<<"u16", "u32", "u16">>),
   Ends |-> CompOf(<<"Pair", "Small", "Pair">>),
   Row  |-> ArrayOf(3, "word"), Table |-> ArrayOf(2, "Pair")]

ASSUME CompoundsAssumption
=============================================================================
