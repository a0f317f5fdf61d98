----------------------------- MODULE MCBytecode -----------------------------
(* Instances of Bytecode: modules as small programs leave them. *)
EXTENDS Bytecode

\* Instructions 0 (NOP) and 1 have no operand, 2 has a byte, 8 has eight, 3 is a jump;
\* 4 has no entry in the table of sizes.
MCSizes == [op \in 0 .. 255 |-> CASE op \in {0, 1} -> 1 [] op = 2 -> 2 [] op = 3 -> 3
                                   [] op = 8 -> 9 [] OTHER -> 0]
MCTables == [strings |-> 3, functions |-> 2, types |-> 3, externals |-> 2, libraries |-> 2]

Function(code, jumps, loops, locals) ==
  [code |-> code, jumps |-> jumps, loops |-> loops, locals_size |-> Len(locals), locals |-> locals]
Plain == Function(<<2, 3, 1>>, {}, 0, <<>>)
\* A loop: a jump forward over it and one back, whose operand is negative.
Looping == Function(<<2, 9, 3, 7, 0, 2, 3, 3, 248, 255, 1>>, {0, 10}, 2, <<>>)
NoTables == [strings |-> <<>>, functions |-> <<Plain>>, types |-> <<>>, externals |-> <<>>,
             libraries |-> <<>>]
Strings == [NoTables EXCEPT !.strings = << <<7>>, <<104, 105>> >>, !.functions = <<Plain, Looping>>]
Types == [Strings EXCEPT !.types = << [kind |-> KIND_PACK, words |-> 1, fields |-> <<6, 7>>],
                                      [kind |-> KIND_COMP, words |-> 3, fields |-> <<4, 18, 1>>],
                                      [kind |-> KIND_ARRAY, words |-> 5, fields |-> <<19>>] >>]
Foreign == [Strings EXCEPT
  !.strings = << <<7>>, <<107>>, <<108, 109>> >>,
  !.externals = << [params |-> <<4, 4>>, rets |-> <<5>>, name |-> <<107>>, call_conv |-> 1],
                   [params |-> <<>>, rets |-> <<>>, name |-> <<108, 109>>, call_conv |-> 0] >>,
  !.libraries = << [items |-> <<0, 1>>, filename |-> <<108, 109>>] >>]
\* The file name of a library comes from the command line (main.c:448).
Unnamed == [Foreign EXCEPT !.libraries[1].filename = <<120>>]
ExternalFirst == [Foreign EXCEPT !.externals[1].name = <<7>>]
Locals == [Strings EXCEPT !.functions[1].locals = <<4, 1>>, !.functions[1].locals_size = 2]
EmptyString == [Strings EXCEPT !.strings[2] = <<>>]
NulInString == [Strings EXCEPT !.strings[2] = <<104, 0, 105>>]
FullTable == [Strings EXCEPT !.strings = << <<1>>, <<2>>, <<3>>, <<4>> >>]
Unsized == [Strings EXCEPT !.functions[2] = Function(<<1, 4, 1>>, {}, 0, <<>>)]
\* Its first instruction, PUSH_INT64, has the literal 4294967296.
LongLiteral ==
  [NoTables EXCEPT !.functions = <<Function(<<8, 0, 0, 0, 0, 1, 0, 0, 0, 1, 1, 1>>, {}, 0, <<>>)>>]

AllModules == {NoTables, Strings, Types, Foreign, Unnamed, ExternalFirst, Locals, EmptyString,
               NulInString, FullTable, Unsized, LongLiteral}
OnlyNumbers == {NoTables, LongLiteral}
=============================================================================
