------------------------------ MODULE MCPrograms ------------------------------
(* Programs with functions for TLC: all short ones, and some that are longer,  *)
(* loops whose bodies call functions that loop, recurse, return early or exit. *)
(* The first two of these are after test/return_early_loop.bude and            *)
(* test/recursive_loop.bude.  A program is a sequence of phrases; the compiler *)
(* of Bude reads the next phrase and does all it does with it.                 *)
EXTENDS MCBude

\* Phrases.
Lit(v)     == [phrase |-> "lit", op |-> PushInt, value |-> v]
Do(op)     == [phrase |-> "simple", op |-> op]
Sym(n)     == [phrase |-> "sym", name |-> n]
Var(n)     == [phrase |-> "var", name |-> n]
Set(n)     == [phrase |-> "set", name |-> n]
For(n, s)  == [phrase |-> "for", name |-> n, slots |-> s]
Func(n, s) == [phrase |-> "func", name |-> n, sig |-> s]
Word(w)    == [phrase |-> w]

If == Word("if")  Then == Word("then")  Elif == Word("elif")  Else == Word("else")
While == Word("while")  Loop == Word("do")  End == Word("end")

IntToNone == [params |-> <<"int">>, rets |-> <<>>]
Signatures3 == {NoArguments, IntToInt, IntToNone}

ReturnEarly ==
  << Func("f", NoArguments), For("j", 2), Lit(3), Loop,
       If, Sym("j"), Then, Do(Ret), End, End, End,
     For("i", 2), Lit(3), Loop, Sym("i"), Do(Pop), Sym("f"), End >>

RecursiveLoop ==
  << Func("f", IntToNone), For("i", 2), Loop, Sym("i"), Sym("f"), End, End,
     Lit(3), Sym("f") >>

\* Every activation has a variable of its own, set before it calls the next.
RecursiveVariable ==
  << Func("f", IntToInt), Var("x"), Set("x"), For("i", 2), Sym("x"), Loop,
       Sym("i"), Sym("f"), Do(Pop), End, Sym("x"), End,
     Lit(3), Sym("f"), Do(Pop) >>

\* A loop that counts down around one that counts up, and a choice of three.
NestedChoice ==
  << For("i", 1), Lit(2), Loop, For("j", 2), Sym("i"), Loop,
       If, Sym("j"), Then, Sym("i"), Do(Pop),
       Elif, Lit(0), Then, Lit(1), Do(Dupe), Do(Pop), Do(Pop),
       Else, Sym("j"), Do(Pop), End, End, End >>

\* A `while' whose condition its body clears, inside a `for'.
WhileInFor ==
  << Var("x"), For("i", 1), Lit(2), Loop, Lit(200), Set("x"),
       While, Sym("x"), Loop, Lit(0), Set("x"), End, End >>

\* A counted loop in another, in a called function: it sets a variable, and may return,
\* from inside both, while its caller is in a loop too.
NestedInCall ==
  << Func("f", IntToInt), Var("x"), Set("x"), For("i", 1), Sym("x"), Loop,
       For("j", 2), Sym("i"), Loop,
         If, Sym("j"), Then, Sym("x"), Do(Ret), End, Sym("j"), Set("x"), End, End,
       Sym("x"), End,
     For("i", 2), Lit(2), Loop, Sym("i"), Sym("f"), Do(Pop), End >>

\* The program ends two activations deep and inside two loops.
ExitInside ==
  << Func("f", NoArguments), For("i", 2), Lit(2), Loop,
       If, Sym("i"), Then, Lit(0), Do(Exit), End, End, End,
     Func("g", IntToNone), For("j", 1), Loop, Sym("f"), End, End,
     Lit(2), Sym("g") >>

\* Calls without end: the stacks run out.
Endless == << Func("f", IntToNone), Var("x"), Set("x"), Lit(2), Sym("f"), End, Lit(1), Sym("f") >>

Programs == {ReturnEarly, RecursiveLoop, RecursiveVariable, NestedChoice, WhileInFor,
             NestedInCall, ExitInside, Endless}

\* What the short programs consist of, in any order, and how many of them there are.
ShortPhrases ==
  {Lit(2), Do(Ret), Sym("i"), Sym("x"), Sym("f"), Var("x"), Set("x"), For("i", 1), For("i", 2),
   Loop, End} \cup {Func("f", s) : s \in Signatures2}
ShortLength == 6

VARIABLE program  \* the text of a longer program, empty for a short one

NextPhrases ==
  IF program = <<>> THEN IF phrases < ShortLength THEN ShortPhrases ELSE {}
  ELSE IF phrases < Len(program) THEN {program[phrases + 1]} ELSE {}
MayEnd == program = <<>> \/ phrases = Len(program)

Read(p) ==
  CASE p.phrase = "lit"    -> C!CompileInteger(p.op, p.value)
    [] p.phrase = "simple" -> C!CompileSimple(p.op)
    [] p.phrase = "sym"    -> C!CompileSymbol(p.name) \/ C!RefuseSymbol(p.name)
    [] p.phrase = "var"    -> C!CompileVar(p.name)
    [] p.phrase = "set"    -> C!CompileAssignment(p.name) \/ C!RefuseAssignment(p.name)
    [] p.phrase = "for"    -> C!CompileForVar(p.name, p.slots)
    [] p.phrase = "func"   -> C!CompileFunction(p.name, p.sig)
    [] p.phrase = "if"     -> C!CompileIf
    [] p.phrase = "then"   -> C!ConditionalThen
    [] p.phrase = "elif"   -> C!ConditionalElif
    [] p.phrase = "else"   -> C!ConditionalElse
    [] p.phrase = "while"  -> C!CompileWhile
    [] p.phrase = "do"     -> C!WhileDo \/ C!ForDo
    [] p.phrase = "end"    -> C!ConditionalEnd \/ C!WhileEnd \/ C!ForEnd \/ C!FunctionEnd

ProgramInit == Init /\ program \in Programs \cup {<<>>}

ReadProgram == /\ \E p \in NextPhrases : Read(p)
               /\ UNCHANGED <<checking, running>>

CloseProgram == /\ \/ C!ReturnToElif
                   \/ C!ReturnFromConditional
                   \/ MayEnd /\ (C!Finish \/ C!Unexpected)
                /\ UNCHANGED <<checking, running>>

ProgramNext == /\ ReadProgram \/ CloseProgram \/ TypeCheck \/ Interpret \/ Terminated
               /\ UNCHANGED program

\* Compiler, type checker and interpreter go on.
ProgramSpec == ProgramInit /\ [][ProgramNext]_<<vars, program>> /\ WF_<<vars, program>>(ProgramNext)

\* Every one of the longer programs compiles, is accepted and comes to its end, the
\* endless one to that of its stacks: the passes get through loops, calls and early
\* returns.
ProgramEnds ==
  program # <<>> ~> run_status \in IF program = Endless THEN {"overflow"} ELSE {"done", "exited"}
===============================================================================
