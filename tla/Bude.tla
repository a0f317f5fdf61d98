--------------------------------- MODULE Bude ---------------------------------
(***************************************************************************)
(* The program src/main.c makes of the three: a text is compiled, the      *)
(* compiled module type-checked, and, if there was no error, its W-code    *)
(* interpreted.  Each phase works on the module the one before it left;    *)
(* the program is one thread.                                              *)
(***************************************************************************)
EXTENDS Integers, Sequences

CONSTANTS
  ByteBase,
  Literals, LiteralOps, SimpleOps, LoopNames, VarNames, FuncNames, Signatures,
  Constructs, Oddities, MaxPhrases,      \* of Compiler
  BlockInitSize, HeapBytes,              \* of TypeChecker
  StackSize, WordBase, Junk              \* and of Interpreter.

VARIABLES
  status, ctx, end_addr, func_index, for_loop_level, symbols, max_for_loop_level, phrases,
  t_code, t_jumps, sigs, locals,
  check_status, current, t_ip, tstack, had_error, arrived, saved, wir_dests, wir_srcs,
  w_code, w_jumps,
  run_status, main_stack, auxiliary_stack, loop_stack, call_stack,
  locals_base, current_function, ip, run_for_loop_level

C == INSTANCE Compiler
T == INSTANCE TypeChecker
I == INSTANCE Interpreter WITH for_loop_level <- run_for_loop_level

ASSUME BudeAssumption ==
  /\ C!ByteBaseAssumption /\ C!CompilerAssumption
  /\ T!TypeCheckerAssumption /\ I!InterpreterAssumption

compiling == <<status, ctx, end_addr, func_index, for_loop_level, symbols,
               max_for_loop_level, phrases>>
checking == <<check_status, current, t_ip, tstack, had_error, arrived, saved,
              wir_dests, wir_srcs, w_code, w_jumps>>
running == <<run_status, main_stack, auxiliary_stack, loop_stack, call_stack,
             locals_base, current_function, ip, run_for_loop_level>>
vars == <<compiling, t_code, t_jumps, sigs, locals, checking, running>>

Init == C!Init /\ T!CheckerInit /\ I!RunInit

Compile == C!Step /\ UNCHANGED <<checking, running>>

TypeCheck == /\ status = "compiled"
             /\ T!CheckStep
             /\ UNCHANGED <<compiling, running>>

\* main exits after type_check has returned TYPE_CHECK_ERROR.
Interpret == /\ check_status = "ok"
             /\ I!RunStep
             /\ UNCHANGED <<compiling, t_code, t_jumps, checking>>

\* The process has exited.
Exited == \/ status = "error"
          \/ check_status \in {"type_error", "exit", "assert"}
          \/ run_status \notin {"idle", "running"}

Terminated == Exited /\ UNCHANGED vars

Next == Compile \/ TypeCheck \/ Interpret \/ Terminated

Spec == Init /\ [][Next]_vars

\* The type checker and the interpreter never wait.
FairSpec == Spec /\ WF_vars(TypeCheck) /\ WF_vars(Interpret)

-----------------------------------------------------------------------------
(* Properties.                                                             *)

CheckerTypeOK        == T!CheckerTypeOK
NoAssertionFails     == T!NoAssertionFails
WordJumpsResolved    == T!WordJumpsResolved
PatchesOwed          == T!PatchesOwed
JumpsMirrored        == T!JumpsMirrored
RunTypeOK            == I!RunTypeOK
NeverUnderflows      == I!NeverUnderflows
ReadsOwnLoops        == I!ReadsOwnLoops
ReturnsItsResults    == I!ReturnsItsResults
EndsClean            == I!EndsClean
KeepsActivationsApart == I!KeepsActivationsApart

\* No activation has more loop-stack slots open than the compiler counted for its
\* function; the generated code sets that many aside in the frame.
LoopSlotsReserved ==
  run_status = "running" =>
    run_for_loop_level <= max_for_loop_level[current_function + 1]

\* The pass of the type checker over a compiled program comes to an end, and so
\* does a program that neither loops with `while' nor runs out of stack.
CheckingEnds == status = "compiled" ~> check_status \notin {"idle", "checking"}
RunningEnds  == check_status = "ok" ~> run_status \notin {"idle", "running"}
===============================================================================
