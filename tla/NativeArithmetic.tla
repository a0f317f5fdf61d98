---------------------------- MODULE NativeArithmetic ----------------------------
(***************************************************************************)
(* Arithmetic, with the program compiled to assembly by src/generator.c    *)
(* instead of being run by the interpreter.                                *)
(***************************************************************************)
EXTENDS Arithmetic, Codegen

\* The words an EDIVMOD in the code would divide leave a negative remainder: the
\* quotient is then moved the wrong way (generator.c:855-878; the comments at 870
\* and 873 have r10 as minus the sign of the divisor, the code adds it).
MovesQuotientWrongly(code, s) ==
  \E k \in DOMAIN code :
    LET before == Run(SubSeq(code, 1, k - 1), Machine(s), SomeOutcome)
    IN /\ code[k].op = "EDIVMOD"
       /\ ~before.trapped /\ ~DivisionTraps("EDIVMOD", Nth(before.stack, 1), Nth(before.stack, 0))
       /\ Remainder(SignedValue(64, Nth(before.stack, 1)), SignedValue(64, Nth(before.stack, 0))) < 0

\* Of two words or more under a single word, the last is not loaded (generator.c:196).
LoadsOneLess(code) ==
  \E k \in DOMAIN code : code[k].op = "COMP_SUBCOMP_GET" /\ code[k].m > 1 /\ code[k].n = code[k].m + 1

\* The instructions that have the same meaning for both.
Comparable(code) ==
  /\ \A k \in DOMAIN code : code[k].op \notin NotGenerated
  /\ ~MovesQuotientWrongly(code, words)
  /\ ~LoadsOneLess(code)

\* ExitProcess takes 32 bits of the status, to which the interpreter limits it.
SameStatus(i, m) ==
  Last(words) \in 0..(Span(32) \div 2 - 1) => m.out = After(i, SomeOutcome).out

SameEffect(i, code) ==
  LET x == Run(code, Machine(words), SomeOutcome)
      m == RunAssembly(Generated(code), Loaded(words))
  IN IF x.trapped THEN m.trapped
     ELSE /\ ~m.trapped
          /\ IF i.op = "exit" THEN SameStatus(i, m) ELSE Leaves(m, x.stack, x.out)

\* The assembly the generator writes for an instruction does what the interpreter
\* does for it: run by a processor, with the two topmost words in registers, it
\* leaves the same words, prints the same, and traps for the same divisions.  The
\* words under the operands are not changed, whatever the registers printf may
\* change.  Excepted: MovesQuotientWrongly, LoadsOneLess.
GeneratedAgrees ==
  status = "running" =>
    \A i \in Instructions :
      LET t == Translate(i, types)
      IN ~t.error /\ ~t.assert /\ Comparable(t.code) => SameEffect(i, t.code)
=============================================================================
