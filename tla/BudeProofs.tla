------------------------------ MODULE BudeProofs -------------------------------
(***************************************************************************)
(* Proofs about the whole program: what the compiler leaves is what the    *)
(* type checker relies on, whatever program is compiled, and what the two  *)
(* of them leave is what the interpreter relies on.  So the properties that*)
(* TypeCheckerProofs and InterpreterProofs prove of each pass on its own   *)
(* hold of the passes that src/main.c makes one after the other.           *)
(*                                                                         *)
(* Bude is put together from instances of Compiler, TypeChecker and        *)
(* Interpreter, and the theorems to be used are in modules that extend     *)
(* these; some sections show that the two instances of each have the same  *)
(* steps.                                                                  *)
(***************************************************************************)
EXTENDS Bude, SequenceTheorems, TLAPS

CP == INSTANCE CompilerCodeProofs
TP == INSTANCE TypeCheckerProofs

-----------------------------------------------------------------------------
(* The assumptions on the constants.                                       *)

LEMMA ByteBaseIsByte == CP!ByteBaseAssumption /\ TP!ByteBaseAssumption
<1>1. CP!ByteBaseAssumption
  BY BudeAssumption DEF C!ByteBaseAssumption, CP!ByteBaseAssumption
<1>2. QED
  BY <1>1 DEF CP!ByteBaseAssumption, TP!ByteBaseAssumption

LEMMA CompilerConstants == CP!CompilerAssumption
BY BudeAssumption
   DEF C!CompilerAssumption, CP!CompilerAssumption, C!IntType, CP!IntType,
       C!T_OP_POP, CP!T_OP_POP, C!T_OP_DUPE, CP!T_OP_DUPE, C!T_OP_EXIT, CP!T_OP_EXIT,
       C!T_OP_RET, CP!T_OP_RET, C!T_OP_PUSH8, CP!T_OP_PUSH8,
       C!T_OP_PUSH_INT8, CP!T_OP_PUSH_INT8

-----------------------------------------------------------------------------
(* The steps of the instances.                                             *)

LEMMA SameStarts == \A block : C!TStarts(block) = CP!TStarts(block)
BY DEF C!TStarts, CP!TStarts, C!t_instruction_size, CP!t_instruction_size, C!is_t_jump,
       CP!is_t_jump, C!T_OP_GET_LOOP_VAR, CP!T_OP_GET_LOOP_VAR, C!T_OP_LOCAL_GET,
       CP!T_OP_LOCAL_GET, C!T_OP_LOCAL_SET, CP!T_OP_LOCAL_SET, C!T_OP_PUSH8, CP!T_OP_PUSH8,
       C!T_OP_PUSH_INT8, CP!T_OP_PUSH_INT8, C!T_OP_CALL8, CP!T_OP_CALL8, C!T_OP_JUMP, CP!T_OP_JUMP,
       C!T_OP_JUMP_COND, CP!T_OP_JUMP_COND, C!T_OP_JUMP_NCOND, CP!T_OP_JUMP_NCOND,
       C!T_OP_FOR_STARTS, CP!T_OP_FOR_STARTS, C!T_OP_FOR_UPDATES, CP!T_OP_FOR_UPDATES,
       C!T_OP_FOR_DEC_START, CP!T_OP_FOR_DEC_START, C!T_OP_FOR_INC_START, CP!T_OP_FOR_INC_START,
       C!T_OP_FOR_DEC, CP!T_OP_FOR_DEC, C!T_OP_FOR_INC, CP!T_OP_FOR_INC, C!InstructionStarts,
       CP!InstructionStarts, C!At, CP!At

LEMMA CompilerSteps == C!Step => CP!Step
<1> USE DEF C!Names, CP!Names, C!Reading, CP!Reading, C!NextPhrase, CP!NextPhrase, C!Emit,
           CP!Emit, C!tables, CP!tables, C!SymbolRefused, CP!SymbolRefused, C!SymbolCode,
           CP!SymbolCode, C!Fail, CP!Fail, C!IntType, CP!IntType, C!Symbol, CP!Symbol,
           C!T_OP_LOCAL_SET, CP!T_OP_LOCAL_SET, C!U16, CP!U16, C!Enter, CP!Enter, C!Frame, CP!Frame,
           C!In, CP!In, C!T_OP_JUMP_NCOND, CP!T_OP_JUMP_NCOND, C!Become, CP!Become, C!Count, CP!Count,
           C!T_OP_JUMP, CP!T_OP_JUMP, C!Top, CP!Top, C!CloseConditional, CP!CloseConditional, C!Block,
           CP!Block, C!InS16, CP!InS16, C!SetBlock, CP!SetBlock, C!Patched, CP!Patched, C!AddJumps,
           CP!AddJumps, C!Leave, CP!Leave, C!ForFrame, CP!ForFrame, C!NoName, CP!NoName,
           C!T_OP_FOR_DEC_START, CP!T_OP_FOR_DEC_START, C!T_OP_FOR_INC_START, CP!T_OP_FOR_INC_START,
           C!T_OP_FOR_DEC, CP!T_OP_FOR_DEC, C!T_OP_FOR_INC, CP!T_OP_FOR_INC, C!NeedsRet, CP!NeedsRet,
           C!RunsOffEnd, CP!RunsOffEnd, C!T_OP_RET, CP!T_OP_RET, C!T_OP_GET_LOOP_VAR,
           CP!T_OP_GET_LOOP_VAR, C!T_OP_CALL8, CP!T_OP_CALL8, C!T_OP_LOCAL_GET, CP!T_OP_LOCAL_GET,
           C!T_OP_PUSH8, CP!T_OP_PUSH8, C!T_OP_PUSH_INT8, CP!T_OP_PUSH_INT8, C!T_OP_POP, CP!T_OP_POP,
           C!T_OP_DUPE, CP!T_OP_DUPE, C!T_OP_EXIT, CP!T_OP_EXIT, C!Words16, CP!Words16,
           C!overwrite_s16, CP!overwrite_s16, C!check_last_instruction, CP!check_last_instruction,
           C!T_OP_JUMP_COND, CP!T_OP_JUMP_COND, C!T_OP_FOR_STARTS, CP!T_OP_FOR_STARTS,
           C!T_OP_FOR_UPDATES, CP!T_OP_FOR_UPDATES
<1>1. \A op, v : C!CompileInteger(op, v) => CP!CompileInteger(op, v)
  BY DEF C!CompileInteger, CP!CompileInteger
<1>2. \A op : C!CompileSimple(op) => CP!CompileSimple(op)
  BY DEF C!CompileSimple, CP!CompileSimple
<1>3. \A n : C!CompileSymbol(n) => CP!CompileSymbol(n)
  BY DEF C!CompileSymbol, CP!CompileSymbol
<1>4. \A n : C!RefuseSymbol(n) => CP!RefuseSymbol(n)
  BY DEF C!RefuseSymbol, CP!RefuseSymbol
<1>5. \A n : C!CompileVar(n) => CP!CompileVar(n)
  BY DEF C!CompileVar, CP!CompileVar
<1>6. \A n : C!CompileAssignment(n) => CP!CompileAssignment(n)
  BY DEF C!CompileAssignment, CP!CompileAssignment
<1>7. \A n : C!RefuseAssignment(n) => CP!RefuseAssignment(n)
  BY DEF C!RefuseAssignment, CP!RefuseAssignment
<1>8. C!CompileIf => CP!CompileIf
  BY DEF C!CompileIf, CP!CompileIf
<1>9. C!ConditionalThen => CP!ConditionalThen
  BY DEF C!ConditionalThen, CP!ConditionalThen
<1>10. C!ConditionalElse => CP!ConditionalElse
  BY DEF C!ConditionalElse, CP!ConditionalElse
<1>11. C!ConditionalElif => CP!ConditionalElif
  BY DEF C!ConditionalElif, CP!ConditionalElif
<1>12. C!ConditionalEnd => CP!ConditionalEnd
  BY DEF C!ConditionalEnd, CP!ConditionalEnd
<1>13. C!ReturnToElif => CP!ReturnToElif
  BY DEF C!ReturnToElif, CP!ReturnToElif
<1>14. C!ReturnFromConditional => CP!ReturnFromConditional
  BY DEF C!ReturnFromConditional, CP!ReturnFromConditional
<1>15. C!CompileWhile => CP!CompileWhile
  BY DEF C!CompileWhile, CP!CompileWhile
<1>16. C!WhileDo => CP!WhileDo
  BY DEF C!WhileDo, CP!WhileDo
<1>17. C!WhileEnd => CP!WhileEnd
  BY DEF C!WhileEnd, CP!WhileEnd
<1>18. C!CompileFor => CP!CompileFor
  BY DEF C!CompileFor, CP!CompileFor
<1>19. \A n, slots : C!CompileForVar(n, slots) => CP!CompileForVar(n, slots)
  BY DEF C!CompileForVar, CP!CompileForVar
<1>20. C!ForDo => CP!ForDo
  BY DEF C!ForDo, CP!ForDo
<1>21. C!ForEnd => CP!ForEnd
  BY DEF C!ForEnd, CP!ForEnd
<1>22. \A n, sig : C!CompileFunction(n, sig) => CP!CompileFunction(n, sig)
  BY DEF C!CompileFunction, CP!CompileFunction
<1>23. C!FunctionEnd => CP!FunctionEnd
  BY SameStarts DEF C!FunctionEnd, CP!FunctionEnd
<1>24. C!Finish => CP!Finish
  BY DEF C!Finish, CP!Finish
<1>25. C!Unexpected => CP!Unexpected
  BY DEF C!Unexpected, CP!Unexpected
<1>26. QED
  BY <1>1, <1>2, <1>3, <1>4, <1>5, <1>6, <1>7, <1>8, <1>9, <1>10, <1>11, <1>12, <1>13, <1>14,
  <1>15, <1>16, <1>17, <1>18, <1>19, <1>20, <1>21, <1>22, <1>23, <1>24, <1>25 DEF C!Step,
  CP!Step

LEMMA SameCapacities == T!Capacities = TP!Capacities
BY DEF T!Capacities, TP!Capacities, T!Growths, TP!Growths

LEMMA SameGoOn ==
  \A at, stack, stacks, error :
    T!GoOnAfter(at, stack, stacks, error) = TP!GoOnAfter(at, stack, stacks, error)
<1> USE DEF T!In, TP!In, T!Jumps, TP!Jumps, T!At, TP!At, T!NotSaved, TP!NotSaved, T!T_OP_NOP,
           TP!T_OP_NOP, T!T_OP_RET, TP!T_OP_RET
<1>1. \A at, past, stacks : T!Unreachable(at, past, stacks) = TP!Unreachable(at, past, stacks)
  BY DEF T!Unreachable, TP!Unreachable, T!Min, TP!Min
<1>2. T!PastBytes = TP!PastBytes
  BY SameCapacities DEF T!PastBytes, TP!PastBytes
<1>3. QED
  BY <1>1, <1>2 DEF T!GoOnAfter, TP!GoOnAfter

LEMMA CheckerSteps == T!CheckStep => TP!CheckStep
<1> USE DEF T!StartFunction, TP!StartFunction, T!input, TP!input, T!In, TP!In, T!IsSaved,
           TP!IsSaved, T!Jumps, TP!Jumps, T!Out, TP!Out, T!Abort, TP!Abort, T!PatchAll, TP!PatchAll,
           T!Fetch, TP!Fetch, T!T_OP_PUSH8, TP!T_OP_PUSH8, T!T_OP_PUSH_INT8, TP!T_OP_PUSH_INT8,
           T!FallThrough, TP!FallThrough, T!Opcode, TP!Opcode, T!WordType, TP!WordType, T!IntType,
           TP!IntType, T!Emit, TP!Emit, T!W_OP_PUSH8, TP!W_OP_PUSH8, T!W_OP_PUSH_INT8,
           TP!W_OP_PUSH_INT8, T!Operand8, TP!Operand8, T!Plain, TP!Plain, T!T_OP_POP, TP!T_OP_POP,
           T!Popped, TP!Popped, T!Underflow, TP!Underflow, T!W_OP_POP, TP!W_OP_POP, T!T_OP_DUPE,
           TP!T_OP_DUPE, T!PoppedType, TP!PoppedType, T!W_OP_DUPE, TP!W_OP_DUPE, T!T_OP_GET_LOOP_VAR,
           TP!T_OP_GET_LOOP_VAR, T!W_OP_GET_LOOP_VAR, TP!W_OP_GET_LOOP_VAR, T!At, TP!At,
           T!T_OP_LOCAL_GET, TP!T_OP_LOCAL_GET, T!LocalType, TP!LocalType, T!read_u16, TP!read_u16,
           T!W_OP_LOCAL_GET, TP!W_OP_LOCAL_GET, T!T_OP_LOCAL_SET, TP!T_OP_LOCAL_SET, T!W_OP_LOCAL_SET,
           TP!W_OP_LOCAL_SET, T!T_OP_CALL8, TP!T_OP_CALL8, T!W_OP_CALL8, TP!W_OP_CALL8, T!JumpDest,
           TP!JumpDest, T!T_OP_JUMP_COND, TP!T_OP_JUMP_COND, T!W_OP_JUMP_COND, TP!W_OP_JUMP_COND,
           T!T_OP_JUMP_NCOND, TP!T_OP_JUMP_NCOND, T!W_OP_JUMP_NCOND, TP!W_OP_JUMP_NCOND,
           T!T_OP_FOR_DEC_START, TP!T_OP_FOR_DEC_START, T!W_OP_FOR_DEC_START, TP!W_OP_FOR_DEC_START,
           T!T_OP_FOR_INC_START, TP!T_OP_FOR_INC_START, T!W_OP_FOR_INC_START, TP!W_OP_FOR_INC_START,
           T!T_OP_FOR_STARTS, TP!T_OP_FOR_STARTS, T!SaveJump, TP!SaveJump, T!Inconsistent,
           TP!Inconsistent, T!CopiedJump, TP!CopiedJump, T!T_OP_FOR_DEC, TP!T_OP_FOR_DEC,
           T!W_OP_FOR_DEC, TP!W_OP_FOR_DEC, T!W_OP_FOR_INC, TP!W_OP_FOR_INC, T!T_OP_FOR_UPDATES,
           TP!T_OP_FOR_UPDATES, T!T_OP_JUMP, TP!T_OP_JUMP, T!W_OP_JUMP, TP!W_OP_JUMP, T!T_OP_EXIT,
           TP!T_OP_EXIT, T!ErrorType, TP!ErrorType, T!W_OP_EXIT, TP!W_OP_EXIT, T!T_OP_RET, TP!T_OP_RET,
           T!W_OP_RET, TP!W_OP_RET, T!NotSaved, TP!NotSaved, T!U16, TP!U16, T!t_instruction_size,
           TP!t_instruction_size, T!read_s16, TP!read_s16, T!T_OP_FOR_INC, TP!T_OP_FOR_INC,
           T!is_t_jump, TP!is_t_jump, T!Words16, TP!Words16, T!T_OP_NOP, TP!T_OP_NOP
<1>1. T!Start => TP!Start
  BY DEF T!Start, TP!Start
<1>2. T!NextFunction => TP!NextFunction
  BY DEF T!NextFunction, TP!NextFunction
<1>3. T!Arrive => TP!Arrive
  BY DEF T!Arrive, TP!Arrive
<1>4. T!CheckPush => TP!CheckPush
  BY DEF T!CheckPush, TP!CheckPush
<1>5. T!CheckPop => TP!CheckPop
  BY DEF T!CheckPop, TP!CheckPop
<1>6. T!CheckDupe => TP!CheckDupe
  BY DEF T!CheckDupe, TP!CheckDupe
<1>7. T!CheckGetLoopVar => TP!CheckGetLoopVar
  BY DEF T!CheckGetLoopVar, TP!CheckGetLoopVar
<1>8. T!CheckLocalGet => TP!CheckLocalGet
  BY DEF T!CheckLocalGet, TP!CheckLocalGet
<1>9. T!CheckLocalSet => TP!CheckLocalSet
  BY ZenonT(60) DEF T!CheckLocalSet, TP!CheckLocalSet
<1>10. T!CheckCall => TP!CheckCall
  BY DEF T!CheckCall, TP!CheckCall
<1>11. T!CheckConditionalJump => TP!CheckConditionalJump
  BY ZenonT(60) DEF T!CheckConditionalJump, TP!CheckConditionalJump
<1>12. T!CheckForUpdate => TP!CheckForUpdate
  BY ZenonT(60) DEF T!CheckForUpdate, TP!CheckForUpdate
<1>13. T!CheckJump => TP!CheckJump
  BY SameGoOn DEF T!CheckJump, TP!CheckJump
<1>14. T!CheckExit => TP!CheckExit
  BY SameGoOn DEF T!CheckExit, TP!CheckExit
<1>15. T!CheckRet => TP!CheckRet
  BY SameGoOn DEF T!CheckRet, TP!CheckRet
<1>16. QED
  BY <1>1, <1>2, <1>3, <1>4, <1>5, <1>6, <1>7, <1>8, <1>9, <1>10, <1>11, <1>12, <1>13, <1>14,
  <1>15 DEF T!CheckStep, TP!CheckStep

LEMMA CompilerStarts == C!Init => CP!Init
BY DEF C!Init, CP!Init, C!Names, CP!Names, C!None, CP!None

LEMMA CheckerStarts == T!CheckerInit => TP!CheckerInit
BY DEF T!CheckerInit, TP!CheckerInit

LEMMA InterpreterLeavesModule == I!RunStep => UNCHANGED <<sigs, locals>>
<1>1. \A how : I!Stop(how) => UNCHANGED <<sigs, locals>>
  BY DEF I!Stop, I!input
<1>2. \A f, next : I!Call(f, next) => UNCHANGED <<sigs, locals>>
  BY <1>1 DEF I!Call, I!input
<1>3. \A stack : I!OnMain(stack) => UNCHANGED <<sigs, locals>>
  BY DEF I!OnMain, I!input
<1>4. \A main, stack, level, jumps :
        I!OnLoops(main, stack, level, jumps) => UNCHANGED <<sigs, locals>>
  BY <1>1 DEF I!OnLoops, I!input
<1> HIDE DEF I!Stop, I!Call, I!OnMain, I!OnLoops
<1>5. I!RunStart => UNCHANGED <<sigs, locals>>
  BY <1>1, <1>2, <1>3, <1>4 DEF I!RunStart, I!input
<1>6. I!RunEnd => UNCHANGED <<sigs, locals>>
  BY <1>1, <1>2, <1>3, <1>4 DEF I!RunEnd, I!input
<1>7. I!RunPush => UNCHANGED <<sigs, locals>>
  BY <1>1, <1>2, <1>3, <1>4 DEF I!RunPush, I!input
<1>8. I!RunPop => UNCHANGED <<sigs, locals>>
  BY <1>1, <1>2, <1>3, <1>4 DEF I!RunPop, I!input
<1>9. I!RunDupe => UNCHANGED <<sigs, locals>>
  BY <1>1, <1>2, <1>3, <1>4 DEF I!RunDupe, I!input
<1>10. I!RunExit => UNCHANGED <<sigs, locals>>
  BY <1>1, <1>2, <1>3, <1>4 DEF I!RunExit, I!input
<1>11. I!RunJump => UNCHANGED <<sigs, locals>>
  BY <1>1, <1>2, <1>3, <1>4 DEF I!RunJump, I!input
<1>12. I!RunConditionalJump => UNCHANGED <<sigs, locals>>
  BY <1>1, <1>2, <1>3, <1>4 DEF I!RunConditionalJump, I!input
<1>13. I!RunForStart => UNCHANGED <<sigs, locals>>
  BY <1>1, <1>2, <1>3, <1>4 DEF I!RunForStart, I!input
<1>14. I!RunForDec => UNCHANGED <<sigs, locals>>
  BY <1>1, <1>2, <1>3, <1>4 DEF I!RunForDec, I!input
<1>15. I!RunForInc => UNCHANGED <<sigs, locals>>
  BY <1>1, <1>2, <1>3, <1>4 DEF I!RunForInc, I!input
<1>16. I!RunGetLoopVar => UNCHANGED <<sigs, locals>>
  BY <1>1, <1>2, <1>3, <1>4 DEF I!RunGetLoopVar, I!input
<1>17. I!RunLocalGet => UNCHANGED <<sigs, locals>>
  BY <1>1, <1>2, <1>3, <1>4 DEF I!RunLocalGet, I!input
<1>18. I!RunLocalSet => UNCHANGED <<sigs, locals>>
  BY <1>1, <1>2, <1>3, <1>4 DEF I!RunLocalSet, I!input
<1>19. I!RunCall => UNCHANGED <<sigs, locals>>
  BY <1>1, <1>2, <1>3, <1>4 DEF I!RunCall, I!input
<1>20. I!RunRet => UNCHANGED <<sigs, locals>>
  BY <1>1, <1>2, <1>3, <1>4 DEF I!RunRet, I!input
<1>21. QED
  BY <1>5, <1>6, <1>7, <1>8, <1>9, <1>10, <1>11, <1>12, <1>13, <1>14, <1>15, <1>16, <1>17,
     <1>18, <1>19, <1>20 DEF I!RunStep

\* A step of the compiler is one before it has returned.
LEMMA CompilerRuns == CP!Step => status # "compiled"
BY DEF CP!Step, CP!Reading, CP!CompileInteger, CP!CompileSimple, CP!CompileSymbol,
       CP!RefuseSymbol, CP!CompileVar, CP!CompileAssignment, CP!RefuseAssignment, CP!CompileIf,
       CP!ConditionalThen, CP!ConditionalElse, CP!ConditionalElif, CP!ConditionalEnd,
       CP!ReturnToElif, CP!ReturnFromConditional, CP!CompileWhile, CP!WhileDo, CP!WhileEnd,
       CP!CompileFor, CP!CompileForVar, CP!ForDo, CP!ForEnd, CP!CompileFunction, CP!FunctionEnd,
       CP!Finish, CP!Unexpected

-----------------------------------------------------------------------------
(* What the compiler promises is what the type checker needs.              *)

LEMMA SameInstructions ==
  /\ \A op : CP!t_instruction_size(op) = TP!t_instruction_size(op)
  /\ \A op : CP!is_t_jump(op) <=> TP!is_t_jump(op)
  /\ \A block : CP!TStarts(block) = TP!TStarts(block)
<1> USE DEF CP!is_t_jump, TP!is_t_jump, CP!t_instruction_size, TP!t_instruction_size,
           CP!T_OP_JUMP, TP!T_OP_JUMP, CP!T_OP_JUMP_COND, TP!T_OP_JUMP_COND, CP!T_OP_JUMP_NCOND,
           TP!T_OP_JUMP_NCOND, CP!T_OP_FOR_STARTS, TP!T_OP_FOR_STARTS, CP!T_OP_FOR_UPDATES,
           TP!T_OP_FOR_UPDATES, CP!T_OP_GET_LOOP_VAR, TP!T_OP_GET_LOOP_VAR, CP!T_OP_LOCAL_GET,
           TP!T_OP_LOCAL_GET, CP!T_OP_LOCAL_SET, TP!T_OP_LOCAL_SET, CP!T_OP_PUSH8, TP!T_OP_PUSH8,
           CP!T_OP_PUSH_INT8, TP!T_OP_PUSH_INT8, CP!T_OP_CALL8, TP!T_OP_CALL8, CP!T_OP_FOR_DEC_START,
           TP!T_OP_FOR_DEC_START, CP!T_OP_FOR_INC_START, TP!T_OP_FOR_INC_START, CP!T_OP_FOR_DEC,
           TP!T_OP_FOR_DEC, CP!T_OP_FOR_INC, TP!T_OP_FOR_INC
<1>1. \A op : CP!t_instruction_size(op) = TP!t_instruction_size(op)
  OBVIOUS
<1>2. \A op : CP!is_t_jump(op) <=> TP!is_t_jump(op)
  OBVIOUS
<1>3. \A block : CP!TStarts(block) = TP!TStarts(block)
  BY DEF CP!TStarts, TP!TStarts, CP!InstructionStarts, TP!InstructionStarts, CP!At, TP!At
<1>4. QED
  BY <1>1, <1>2, <1>3

LEMMA SameBlocks ==
  /\ \A block : CP!WholeBlock(block) <=> TP!WholeBlock(block)
  /\ \A block : CP!TJumps(block) = TP!TJumps(block)
  /\ \A block, at : CP!JumpDest(block, at) = TP!JumpDest(block, at)
  /\ \A block, at : CP!read_s16(block, at) = TP!read_s16(block, at)
  /\ \A block, at : CP!At(block, at) = TP!At(block, at)
<1>1. \A block, at : CP!At(block, at) = TP!At(block, at)
  BY DEF CP!At, TP!At
<1>2. \A block, at : CP!read_s16(block, at) = TP!read_s16(block, at)
  BY <1>1 DEF CP!read_s16, TP!read_s16, CP!read_u16, TP!read_u16, CP!Words16, TP!Words16
<1>3. \A block, at : CP!JumpDest(block, at) = TP!JumpDest(block, at)
  BY <1>2 DEF CP!JumpDest, TP!JumpDest
<1>4. \A block : CP!TJumps(block) = TP!TJumps(block)
  BY <1>1, SameInstructions DEF CP!TJumps, TP!TJumps
<1>5. \A block, at : CP!After("t", block, at) = TP!After("t", block, at)
  BY <1>1, SameInstructions DEF CP!After, TP!After, CP!SizeIn, TP!SizeIn
<1>6. \A S, block : CP!Whole(S, "t", block) <=> TP!Whole(S, "t", block)
  BY <1>5 DEF CP!Whole, TP!Whole
<1>7. \A block : CP!WholeBlock(block) <=> TP!WholeBlock(block)
  BY <1>6, SameInstructions DEF CP!WholeBlock, TP!WholeBlock
<1>8. QED
  BY <1>1, <1>2, <1>3, <1>4, <1>7

LEMMA SameFlows == \A block, dests : CP!Flows(block, dests) => TP!Flows(block, dests)
<1>1. \A v : CP!InS16(v) <=> TP!InS16(v)
  BY DEF CP!InS16, TP!InS16, CP!Words16, TP!Words16
<1>2. QED
  BY <1>1, SameBlocks, SameInstructions DEF CP!Flows, TP!Flows

LEMMA SameKnown == \A block, n : CP!Known(block, n) => TP!Known(block, n)
<1>1. \A block, at, n : CP!KnownAt(block, at, n) <=> TP!KnownAt(block, at, n)
  BY SameBlocks DEF CP!KnownAt, TP!KnownAt, CP!T_OP_NOP, TP!T_OP_NOP, CP!T_OP_CALL8, TP!T_OP_CALL8
<1>2. QED
  BY <1>1, SameBlocks, SameInstructions DEF CP!Known, TP!Known

\* What compile leaves in the module satisfies what the type checker takes it to be.
LEMMA ModuleIsOK ==
  ASSUME CP!IInv, CP!Compiled, status = "compiled"
  PROVE  TP!ModuleOK
<1>1. /\ t_code \in Seq(Seq(Nat)) /\ t_code # <<>>
      /\ DOMAIN t_code = 1..Len(t_code)
      /\ sigs \in Seq([params : Seq({"int"}), rets : Seq({"int"})])
      /\ locals \in Seq(Seq({"int"}))
      /\ Len(sigs) = Len(t_code) /\ Len(locals) = Len(t_code)
  BY DEF CP!IInv, CP!TypeOK, CP!Compiled, CP!IntType
<1>2. Seq({"int"}) \subseteq TP!Stacks
  BY DEF TP!Stacks, TP!Types, TP!IntType, TP!WordType, TP!ErrorType
<1>3. ASSUME NEW f \in 1..Len(t_code)
      PROVE  /\ TP!Flows(t_code[f], t_jumps[f])
             /\ TP!Known(t_code[f], Len(t_code))
             /\ sigs[f].params \in TP!Stacks /\ sigs[f].rets \in TP!Stacks
             /\ locals[f] \in TP!Stacks
  <2>1. CP!Flows(t_code[f], t_jumps[f]) /\ CP!Known(t_code[f], Len(t_code))
    BY <1>1 DEF CP!Compiled
  <2>2. sigs[f] \in [params : Seq({"int"}), rets : Seq({"int"})]
    BY <1>1, ElementOfSeq
  <2>3. locals[f] \in Seq({"int"})
    BY <1>1, ElementOfSeq
  <2>4. QED
    BY <1>2, <2>1, <2>2, <2>3, SameFlows, SameKnown
<1>4. QED
  BY <1>1, <1>3 DEF TP!ModuleOK

-----------------------------------------------------------------------------
(* The invariant of the program.                                           *)

CompilerInv == CP!IInv /\ CP!CodeInv /\ CP!EndsInv /\ CP!KnownInv

\* The type checker does not begin before the compiler has returned.
BudeInv ==
  /\ CompilerInv
  /\ TP!CheckInv
  /\ status # "compiled" => check_status = "idle"

LEMMA CompilerInvStep ==
  ASSUME {"empty_else", "long_while", "no_final_ret"} \cap Oddities = {},
         CompilerInv, CP!Step \/ UNCHANGED CP!vars
  PROVE  CompilerInv'
<1>1. [CP!Next]_(CP!vars)
  BY DEF CP!Next
<1>2. {"empty_else", "long_while"} \cap Oddities = {}
  OBVIOUS
<1>3. CP!IInv'
  BY <1>1, ByteBaseIsByte, CompilerConstants, CP!NextKeeps DEF CompilerInv
<1>4. CP!CodeInv'
  BY <1>1, <1>2, ByteBaseIsByte, CompilerConstants, CP!NextKeepsCode DEF CompilerInv
<1>5. CP!EndsInv'
  BY <1>1, <1>2, ByteBaseIsByte, CompilerConstants, CP!NextKeepsEnds DEF CompilerInv
<1>6. CP!KnownInv'
  BY <1>1, ByteBaseIsByte, CompilerConstants, CP!NextKeepsKnown DEF CompilerInv
<1>7. QED
  BY <1>3, <1>4, <1>5, <1>6 DEF CompilerInv

LEMMA ModuleCompiled ==
  ASSUME CompilerInv, status = "compiled"
  PROVE  TP!ModuleOK
<1>1. CP!Compiled
  BY ByteBaseIsByte, CompilerConstants, CP!CodeInvFlows DEF CompilerInv
<1>2. QED
  BY <1>1, ModuleIsOK DEF CompilerInv

LEMMA BudeStarts ==
  ASSUME Init
  PROVE  BudeInv
<1>1. CP!Init /\ TP!CheckerInit
  BY CompilerStarts, CheckerStarts DEF Init
<1>2. CP!IInv /\ CP!CodeInv /\ CP!EndsInv /\ CP!KnownInv
  BY <1>1, ByteBaseIsByte, CompilerConstants, CP!InitKeeps, CP!InitHasCode, CP!InitHasEnds,
     CP!InitKnown
<1>3. TP!CheckInv /\ check_status = "idle"
  BY <1>1 DEF TP!CheckerInit, TP!CheckInv
<1>4. QED
  BY <1>2, <1>3 DEF BudeInv, CompilerInv

LEMMA BudeKeeps ==
  ASSUME {"empty_else", "long_while", "no_final_ret"} \cap Oddities = {},
         BudeInv, [Next]_vars
  PROVE  BudeInv'
<1>1. CASE Compile
  <2>1. CP!Step /\ UNCHANGED checking
    BY <1>1, CompilerSteps DEF Compile
  <2>2. CompilerInv'
    BY <2>1, CompilerInvStep DEF BudeInv
  <2>3. check_status = "idle" /\ check_status' = "idle" /\ had_error' = had_error
    BY <2>1, CompilerRuns DEF BudeInv, checking
  <2>4. TP!CheckInv'
    BY <2>3 DEF BudeInv, TP!CheckInv
  <2>5. QED
    BY <2>2, <2>3, <2>4 DEF BudeInv
<1>2. CASE TypeCheck
  <2>1. TP!CheckStep /\ status = "compiled" /\ UNCHANGED compiling
    BY <1>2, CheckerSteps DEF TypeCheck
  <2>2. TP!ModuleOK
    BY <2>1, ModuleCompiled DEF BudeInv
  <2>3. TP!CheckInv' /\ UNCHANGED TP!input
    BY <2>1, <2>2, ByteBaseIsByte, TP!CheckStepKeeps, TP!CheckStepKeepsInput DEF BudeInv
  <2>4. UNCHANGED CP!vars
    BY <2>1, <2>3 DEF CP!vars, compiling, TP!input
  <2>5. CompilerInv'
    BY <2>4, CompilerInvStep DEF BudeInv
  <2>6. status' = "compiled"
    BY <2>1 DEF compiling
  <2>7. QED
    BY <2>3, <2>5, <2>6 DEF BudeInv
<1>3. CASE Interpret \/ Terminated \/ UNCHANGED vars
  <2>1. UNCHANGED CP!vars /\ UNCHANGED TP!vars
    BY <1>3, InterpreterLeavesModule
       DEF Interpret, Terminated, vars, compiling, checking, CP!vars, TP!vars, TP!input,
           TP!checker
  <2>2. CompilerInv'
    BY <2>1, CompilerInvStep DEF BudeInv
  <2>3. status' = status /\ check_status' = check_status /\ had_error' = had_error
    BY <2>1 DEF CP!vars, TP!vars, TP!checker
  <2>4. TP!CheckInv'
    <3>1. CASE status = "compiled"
      <4>1. TP!ModuleOK
        BY <3>1, ModuleCompiled DEF BudeInv
      <4>2. QED
        BY <2>1, <4>1, ByteBaseIsByte, TP!CheckStutter DEF BudeInv
    <3>2. CASE status # "compiled"
      <4>1. check_status' = "idle"
        BY <2>3, <3>2 DEF BudeInv
      <4>2. QED
        BY <2>3, <4>1 DEF BudeInv, TP!CheckInv
    <3>3. QED
      BY <3>1, <3>2
  <2>5. QED
    BY <2>2, <2>3, <2>4 DEF BudeInv
<1>4. QED
  BY <1>1, <1>2, <1>3 DEF Next

LEMMA BudeInductive ==
  ASSUME {"empty_else", "long_while", "no_final_ret"} \cap Oddities = {}
  PROVE  Spec => []BudeInv
<1>1. Init => BudeInv
  BY BudeStarts
<1>2. BudeInv /\ [Next]_vars => BudeInv'
  BY BudeKeeps
<1>3. QED
  BY <1>1, <1>2, PTL DEF Spec

-----------------------------------------------------------------------------
(* Theorems.                                                               *)

LEMMA SameCheckerBlocks ==
  /\ \A block : T!TStarts(block) = TP!TStarts(block)
  /\ \A block : T!WStarts(block) = TP!WStarts(block)
  /\ \A block : T!TJumps(block) = TP!TJumps(block)
  /\ \A block : T!WJumps(block) = TP!WJumps(block)
  /\ \A block, at : T!read_s16(block, at) = TP!read_s16(block, at)
  /\ \A block, at : T!JumpDest(block, at) = TP!JumpDest(block, at)
<1> USE DEF T!is_t_jump, TP!is_t_jump, T!t_instruction_size, TP!t_instruction_size,
           T!T_OP_JUMP, TP!T_OP_JUMP, T!T_OP_JUMP_COND, TP!T_OP_JUMP_COND, T!T_OP_JUMP_NCOND,
           TP!T_OP_JUMP_NCOND, T!T_OP_FOR_STARTS, TP!T_OP_FOR_STARTS, T!T_OP_FOR_UPDATES,
           TP!T_OP_FOR_UPDATES, T!T_OP_GET_LOOP_VAR, TP!T_OP_GET_LOOP_VAR, T!T_OP_LOCAL_GET,
           TP!T_OP_LOCAL_GET, T!T_OP_LOCAL_SET, TP!T_OP_LOCAL_SET, T!T_OP_PUSH8, TP!T_OP_PUSH8,
           T!T_OP_PUSH_INT8, TP!T_OP_PUSH_INT8, T!T_OP_CALL8, TP!T_OP_CALL8, T!T_OP_FOR_DEC_START,
           TP!T_OP_FOR_DEC_START, T!T_OP_FOR_INC_START, TP!T_OP_FOR_INC_START, T!T_OP_FOR_DEC,
           TP!T_OP_FOR_DEC, T!T_OP_FOR_INC, TP!T_OP_FOR_INC, T!is_w_jump, TP!is_w_jump,
           T!get_w_instruction_size, TP!get_w_instruction_size, T!W_OP_JUMP, TP!W_OP_JUMP,
           T!W_OP_JUMP_COND, TP!W_OP_JUMP_COND, T!W_OP_JUMP_NCOND, TP!W_OP_JUMP_NCOND,
           T!W_OP_FOR_STARTS, TP!W_OP_FOR_STARTS, T!W_OP_FOR_UPDATES, TP!W_OP_FOR_UPDATES,
           T!W_OP_GET_LOOP_VAR, TP!W_OP_GET_LOOP_VAR, T!W_OP_LOCAL_GET, TP!W_OP_LOCAL_GET,
           T!W_OP_LOCAL_SET, TP!W_OP_LOCAL_SET, T!W_OP_PUSH8, TP!W_OP_PUSH8, T!W_OP_PUSH_INT8,
           TP!W_OP_PUSH_INT8, T!W_OP_CALL8, TP!W_OP_CALL8, T!W_OP_FOR_DEC_START,
           TP!W_OP_FOR_DEC_START, T!W_OP_FOR_INC_START, TP!W_OP_FOR_INC_START, T!W_OP_FOR_DEC,
           TP!W_OP_FOR_DEC, T!W_OP_FOR_INC, TP!W_OP_FOR_INC
<1> USE DEF T!At, TP!At
<1>1. \A block : T!TStarts(block) = TP!TStarts(block)
  BY DEF T!TStarts, TP!TStarts, T!InstructionStarts, TP!InstructionStarts
<1>2. \A block : T!WStarts(block) = TP!WStarts(block)
  BY DEF T!WStarts, TP!WStarts, T!InstructionStarts, TP!InstructionStarts
<1>3. \A block : T!TJumps(block) = TP!TJumps(block)
  BY <1>1 DEF T!TJumps, TP!TJumps
<1>4. \A block : T!WJumps(block) = TP!WJumps(block)
  BY <1>2 DEF T!WJumps, TP!WJumps
<1>5. \A block, at : T!read_s16(block, at) = TP!read_s16(block, at)
  BY DEF T!read_s16, TP!read_s16, T!read_u16, TP!read_u16, T!Words16, TP!Words16
<1>6. \A block, at : T!JumpDest(block, at) = TP!JumpDest(block, at)
  BY <1>5 DEF T!JumpDest, TP!JumpDest
<1>7. QED
  BY <1>1, <1>2, <1>3, <1>4, <1>5, <1>6

\* The properties of the type checker, of either instance.
LEMMA SameProperties ==
  /\ TP!PatchesOwed => PatchesOwed
  /\ TP!NoAssertionFails => NoAssertionFails
  /\ TP!WordJumpsResolved => WordJumpsResolved
  /\ TP!JumpsMirrored => JumpsMirrored
<1>1. TP!PatchesOwed => PatchesOwed
  BY SameCheckerBlocks
     DEF PatchesOwed, T!PatchesOwed, TP!PatchesOwed, T!Out, TP!Out, T!Jumps, TP!Jumps
<1>2. TP!NoAssertionFails => NoAssertionFails
  BY DEF NoAssertionFails, T!NoAssertionFails, TP!NoAssertionFails
<1>3. TP!WordJumpsResolved => WordJumpsResolved
  BY SameCheckerBlocks DEF WordJumpsResolved, T!WordJumpsResolved, TP!WordJumpsResolved
<1>4. TP!JumpsMirrored => JumpsMirrored
  <2>1. \A starts, at : T!Rank(starts, at) = TP!Rank(starts, at)
    BY DEF T!Rank, TP!Rank, T!Cardinality, TP!Cardinality
  <2>2. QED
    BY <2>1, SameCheckerBlocks DEF JumpsMirrored, T!JumpsMirrored, TP!JumpsMirrored
<1>5. QED
  BY <1>1, <1>2, <1>3, <1>4

\* They hold where the type checker is at work or has returned, and before that they
\* say nothing.
LEMMA BudeInvHolds ==
  ASSUME BudeInv
  PROVE  PatchesOwed /\ NoAssertionFails /\ WordJumpsResolved /\ JumpsMirrored
<1>1. CASE status = "compiled"
  <2>1. TP!ModuleOK
    BY <1>1, ModuleCompiled DEF BudeInv
  <2>2. /\ TP!PatchesOwed /\ TP!NoAssertionFails
        /\ TP!WordJumpsResolved /\ TP!JumpsMirrored
    BY <2>1, ByteBaseIsByte, TP!InvPatches, TP!InvNoAssertion, TP!InvResolved, TP!InvMirrored
       DEF BudeInv
  <2>3. QED
    BY <2>2, SameProperties
<1>2. CASE status # "compiled"
  <2>1. check_status = "idle"
    BY <1>2 DEF BudeInv
  <2>2. /\ TP!PatchesOwed /\ TP!NoAssertionFails
        /\ TP!WordJumpsResolved /\ TP!JumpsMirrored
    BY <2>1 DEF TP!PatchesOwed, TP!NoAssertionFails, TP!WordJumpsResolved, TP!JumpsMirrored
  <2>3. QED
    BY <2>2, SameProperties
<1>3. QED
  BY <1>1, <1>2

\* save_jump and patch_jump of src/type_checker.c, on every module that compile can
\* leave: while the type checker is in a function, the jumps of its W-code that hold the
\* placeholder are those recorded for the destinations ahead, so none is forgotten or
\* patched twice, whatever was skipped as unreachable.
THEOREM PatchesOwedInBude ==
  ASSUME {"empty_else", "long_while", "no_final_ret"} \cap Oddities = {}
  PROVE  Spec => []PatchesOwed
<1>1. BudeInv => PatchesOwed
  BY BudeInvHolds
<1>2. QED
  BY <1>1, BudeInductive, PTL

\* The assertions of type_check cannot fail on what compile leaves: every jump has an
\* entry in the table of destinations, and is patched to go forward.
THEOREM NoAssertionFailsInBude ==
  ASSUME {"empty_else", "long_while", "no_final_ret"} \cap Oddities = {}
  PROVE  Spec => []NoAssertionFails
<1>1. BudeInv => NoAssertionFails
  BY BudeInvHolds
<1>2. QED
  BY <1>1, BudeInductive, PTL

\* In every program that the type checker accepts, the jumps of the W-code land on
\* instructions, and the W-code's jump tables hold just where they land.
THEOREM WordJumpsResolvedInBude ==
  ASSUME {"empty_else", "long_while", "no_final_ret"} \cap Oddities = {}
  PROVE  Spec => []WordJumpsResolved
<1>1. BudeInv => WordJumpsResolved
  BY BudeInvHolds
<1>2. QED
  BY <1>1, BudeInductive, PTL

\* In every program that the type checker accepts, the k-th instruction of the W-code
\* jumps to the n-th just when that of the T-code does: the interpreter follows the
\* control flow that was compiled.
THEOREM JumpsMirroredInBude ==
  ASSUME {"empty_else", "long_while", "no_final_ret"} \cap Oddities = {}
  PROVE  Spec => []JumpsMirrored
<1>1. BudeInv => JumpsMirrored
  BY BudeInvHolds
<1>2. QED
  BY <1>1, BudeInductive, PTL

-----------------------------------------------------------------------------
(* The steps of the interpreter.                                           *)

IP == INSTANCE InterpreterProofs WITH for_loop_level <- run_for_loop_level

LEMMA ByteBaseOfInterpreter == IP!ByteBaseAssumption
BY ByteBaseIsByte DEF CP!ByteBaseAssumption, IP!ByteBaseAssumption

LEMMA InterpreterConstants == IP!InterpreterAssumption
BY BudeAssumption DEF I!InterpreterAssumption, IP!InterpreterAssumption, I!Words, IP!Words

LEMMA InterpreterSteps == I!RunStep => IP!RunStep
<1> USE DEF I!Code, IP!Code, I!Opcode, IP!Opcode, I!LocalSize, IP!LocalSize, I!LocalsSize,
           IP!LocalsSize, I!PushFails, IP!PushFails, I!Pop1, IP!Pop1, I!Stop, IP!Stop, I!Fetch,
           IP!Fetch, I!input, IP!input, I!stacks, IP!stacks, I!registers, IP!registers, I!At, IP!At,
           I!Last, IP!Last, I!read_u16, IP!read_u16
<1>1. \A f, next : I!Call(f, next) = IP!Call(f, next)
  BY DEF I!Call, IP!Call
<1>2. \A op : I!is_w_jump(op) = IP!is_w_jump(op)
  BY DEF I!is_w_jump, IP!is_w_jump, I!W_OP_JUMP, IP!W_OP_JUMP,
           I!W_OP_JUMP_COND, IP!W_OP_JUMP_COND, I!W_OP_JUMP_NCOND, IP!W_OP_JUMP_NCOND,
           I!W_OP_FOR_STARTS, IP!W_OP_FOR_STARTS, I!W_OP_FOR_UPDATES, IP!W_OP_FOR_UPDATES,
           I!W_OP_FOR_DEC_START, IP!W_OP_FOR_DEC_START, I!W_OP_FOR_INC_START,
           IP!W_OP_FOR_INC_START, I!W_OP_FOR_DEC, IP!W_OP_FOR_DEC, I!W_OP_FOR_INC, IP!W_OP_FOR_INC
<1>3. \A op : I!get_w_instruction_size(op) = IP!get_w_instruction_size(op)
  BY <1>2 DEF I!get_w_instruction_size, IP!get_w_instruction_size,
           I!W_OP_GET_LOOP_VAR, IP!W_OP_GET_LOOP_VAR, I!W_OP_LOCAL_GET, IP!W_OP_LOCAL_GET,
           I!W_OP_LOCAL_SET, IP!W_OP_LOCAL_SET, I!W_OP_PUSH8, IP!W_OP_PUSH8, I!W_OP_PUSH_INT8,
           IP!W_OP_PUSH_INT8, I!W_OP_CALL8, IP!W_OP_CALL8
<1>4. I!Advance <=> IP!Advance
  BY <1>3 DEF I!Advance, IP!Advance
<1>5. I!Jumped = IP!Jumped
  BY DEF I!Jumped, IP!Jumped, I!JumpDest, IP!JumpDest, I!read_s16, IP!read_s16, I!Words16,
         IP!Words16
<1>6. I!JumpAllowed <=> IP!JumpAllowed
  BY <1>5 DEF I!JumpAllowed, IP!JumpAllowed
<1>7. \A stack : I!OnMain(stack) <=> IP!OnMain(stack)
  BY <1>4 DEF I!OnMain, IP!OnMain
<1>8. \A main, stack, level, jumps :
        I!OnLoops(main, stack, level, jumps) <=> IP!OnLoops(main, stack, level, jumps)
  BY <1>4, <1>5, <1>6 DEF I!OnLoops, IP!OnLoops
<1>9. I!RunStart => IP!RunStart
  BY <1>1 DEF I!RunStart, IP!RunStart
<1>10. I!RunEnd => IP!RunEnd
  BY DEF I!RunEnd, IP!RunEnd
<1>11. I!RunPush => IP!RunPush
  BY <1>7 DEF I!RunPush, IP!RunPush, I!W_OP_PUSH8, IP!W_OP_PUSH8, I!W_OP_PUSH_INT8,
     IP!W_OP_PUSH_INT8, I!SignExtend, IP!SignExtend
<1>12. I!RunPop => IP!RunPop
  BY <1>7 DEF I!RunPop, IP!RunPop, I!W_OP_POP, IP!W_OP_POP
<1>13. I!RunDupe => IP!RunDupe
  BY <1>7 DEF I!RunDupe, IP!RunDupe, I!W_OP_DUPE, IP!W_OP_DUPE
<1>14. I!RunExit => IP!RunExit
  BY DEF I!RunExit, IP!RunExit, I!W_OP_EXIT, IP!W_OP_EXIT
<1>15. I!RunJump => IP!RunJump
  BY <1>5, <1>6 DEF I!RunJump, IP!RunJump, I!W_OP_JUMP, IP!W_OP_JUMP
<1>16. I!RunConditionalJump => IP!RunConditionalJump
  BY <1>5, <1>6, <1>7 DEF I!RunConditionalJump, IP!RunConditionalJump, I!W_OP_JUMP_COND,
     IP!W_OP_JUMP_COND, I!W_OP_JUMP_NCOND, IP!W_OP_JUMP_NCOND
<1>17. I!RunForStart => IP!RunForStart
  BY <1>8 DEF I!RunForStart, IP!RunForStart, I!W_OP_FOR_STARTS, IP!W_OP_FOR_STARTS,
     I!W_OP_FOR_DEC_START, IP!W_OP_FOR_DEC_START, I!W_OP_FOR_INC_START, IP!W_OP_FOR_INC_START
<1>18. I!RunForDec => IP!RunForDec
  BY <1>8 DEF I!RunForDec, IP!RunForDec, I!W_OP_FOR_DEC, IP!W_OP_FOR_DEC
<1>19. I!RunForInc => IP!RunForInc
  BY <1>8 DEF I!RunForInc, IP!RunForInc, I!W_OP_FOR_INC, IP!W_OP_FOR_INC
<1>20. I!RunGetLoopVar => IP!RunGetLoopVar
  BY <1>7 DEF I!RunGetLoopVar, IP!RunGetLoopVar, I!W_OP_GET_LOOP_VAR, IP!W_OP_GET_LOOP_VAR
<1>21. I!RunLocalGet => IP!RunLocalGet
  BY <1>7 DEF I!RunLocalGet, IP!RunLocalGet, I!W_OP_LOCAL_GET, IP!W_OP_LOCAL_GET
<1>22. I!RunLocalSet => IP!RunLocalSet
  BY <1>4 DEF I!RunLocalSet, IP!RunLocalSet, I!W_OP_LOCAL_SET, IP!W_OP_LOCAL_SET
<1>23. I!RunCall => IP!RunCall
  BY <1>1 DEF I!RunCall, IP!RunCall, I!W_OP_CALL8, IP!W_OP_CALL8
<1>24. I!RunRet => IP!RunRet
  BY DEF I!RunRet, IP!RunRet, I!W_OP_RET, IP!W_OP_RET
<1>25. QED
  BY <1>9, <1>10, <1>11, <1>12, <1>13, <1>14, <1>15, <1>16, <1>17, <1>18, <1>19, <1>20, <1>21,
     <1>22, <1>23, <1>24 DEF I!RunStep, IP!RunStep

LEMMA InterpreterStarts == I!RunInit => IP!RunInit
BY DEF I!RunInit, IP!RunInit

\* The properties of the interpreter, of either instance.
LEMMA SameRunProperties ==
  /\ IP!RunTypeOK => RunTypeOK
  /\ IP!NeverUnderflows => NeverUnderflows
  /\ IP!ReadsOwnLoops => ReadsOwnLoops
  /\ IP!ReturnsItsResults => ReturnsItsResults
  /\ IP!EndsClean => EndsClean
<1> USE DEF I!Fetch, IP!Fetch, I!Code, IP!Code, I!Opcode, IP!Opcode, I!At, IP!At,
            I!read_u16, IP!read_u16, I!Last, IP!Last
<1>1. IP!RunTypeOK => RunTypeOK
  BY DEF RunTypeOK, I!RunTypeOK, IP!RunTypeOK, I!Words, IP!Words
<1>2. IP!NeverUnderflows => NeverUnderflows
  BY DEF NeverUnderflows, I!NeverUnderflows, IP!NeverUnderflows
<1>3. IP!ReadsOwnLoops => ReadsOwnLoops
  BY DEF ReadsOwnLoops, I!ReadsOwnLoops, IP!ReadsOwnLoops, I!W_OP_GET_LOOP_VAR, IP!W_OP_GET_LOOP_VAR
<1>4. IP!ReturnsItsResults => ReturnsItsResults
  BY DEF ReturnsItsResults, I!ReturnsItsResults, IP!ReturnsItsResults, I!W_OP_RET, IP!W_OP_RET
<1>5. IP!EndsClean => EndsClean
  BY DEF EndsClean, I!EndsClean, IP!EndsClean
<1>6. QED
  BY <1>1, <1>2, <1>3, <1>4, <1>5

-----------------------------------------------------------------------------
(* The function the program begins with.                                  *)

\* Function 0 takes nothing and returns nothing.
MainSignature == sigs[1] = [params |-> <<>>, rets |-> <<>>]

\* compile_function alone adds a signature, behind those that are there.
LEMMA SignaturesStay == CP!Step => sigs' = sigs \/ \E sig : sigs' = Append(sigs, sig)
<1> USE DEF CP!tables
<1>1. CP!Fail => sigs' = sigs
  BY DEF CP!Fail
<1>2. \A start, else_start, end : CP!CloseConditional(start, else_start, end) => sigs' = sigs
  BY DEF CP!CloseConditional
<1> HIDE DEF CP!Fail, CP!CloseConditional
<1>3. \A op, v : CP!CompileInteger(op, v) => sigs' = sigs
  BY DEF CP!CompileInteger
<1>4. \A op : CP!CompileSimple(op) => sigs' = sigs
  BY DEF CP!CompileSimple
<1>5. \A n : CP!CompileSymbol(n) \/ CP!RefuseSymbol(n) => sigs' = sigs
  BY <1>1 DEF CP!CompileSymbol, CP!RefuseSymbol
<1>6. \A n : CP!CompileVar(n) \/ CP!CompileAssignment(n) \/ CP!RefuseAssignment(n) => sigs' = sigs
  BY <1>1 DEF CP!CompileVar, CP!CompileAssignment, CP!RefuseAssignment
<1>7. CP!CompileIf \/ CP!ConditionalThen \/ CP!ConditionalElse \/ CP!ConditionalElif => sigs' = sigs
  BY DEF CP!CompileIf, CP!ConditionalThen, CP!ConditionalElse, CP!ConditionalElif
<1>8. CP!ConditionalEnd \/ CP!ReturnToElif \/ CP!ReturnFromConditional => sigs' = sigs
  BY <1>2 DEF CP!ConditionalEnd, CP!ReturnToElif, CP!ReturnFromConditional
<1>9. CP!CompileWhile \/ CP!WhileDo \/ CP!WhileEnd => sigs' = sigs
  BY <1>1 DEF CP!CompileWhile, CP!WhileDo, CP!WhileEnd
<1>10. CP!CompileFor \/ CP!ForDo \/ CP!ForEnd => sigs' = sigs
  BY <1>1 DEF CP!CompileFor, CP!ForDo, CP!ForEnd
<1>11. \A n, slots : CP!CompileForVar(n, slots) => sigs' = sigs
  BY DEF CP!CompileForVar
<1>12. \A n, sig : CP!CompileFunction(n, sig) => sigs' = Append(sigs, sig)
  BY DEF CP!CompileFunction
<1>13. CP!FunctionEnd \/ CP!Finish \/ CP!Unexpected => sigs' = sigs
  BY <1>1 DEF CP!FunctionEnd, CP!Finish, CP!Unexpected
<1>14. QED
  BY <1>3, <1>4, <1>5, <1>6, <1>7, <1>8, <1>9, <1>10, <1>11, <1>12, <1>13 DEF CP!Step

LEMMA MainSignatureStays ==
  ASSUME CP!IInv, MainSignature, CP!Step
  PROVE  MainSignature'
<1>1. sigs \in Seq([params : Seq({"int"}), rets : Seq({"int"})]) /\ Len(sigs) = Len(t_code)
  BY DEF CP!IInv, CP!TypeOK, CP!IntType
<1>2. Len(sigs) \in Nat /\ Len(sigs) > 0
  BY <1>1, LenProperties DEF CP!IInv, CP!TypeOK
<1>3. ASSUME NEW sig, sigs' = Append(sigs, sig) PROVE sigs'[1] = sigs[1]
  BY <1>1, <1>2, <1>3
<1>4. QED
  BY <1>3, SignaturesStay DEF MainSignature

-----------------------------------------------------------------------------
(* The instructions of the W-code and of the T-code.                       *)

\* An instruction and its translation are the same in all that matters of them.
LEMMA SameInstruction ==
  ASSUME NEW op \in TP!Translatable, NEW w, w = TP!Translation(op)
  PROVE  /\ w = IP!W_OP_PUSH8 <=> op = TP!T_OP_PUSH8
         /\ w = IP!W_OP_PUSH_INT8 <=> op = TP!T_OP_PUSH_INT8
         /\ w = IP!W_OP_POP <=> op = TP!T_OP_POP
         /\ w = IP!W_OP_DUPE <=> op = TP!T_OP_DUPE
         /\ w = IP!W_OP_EXIT <=> op = TP!T_OP_EXIT
         /\ w = IP!W_OP_FOR_DEC_START <=> op = TP!T_OP_FOR_DEC_START
         /\ w = IP!W_OP_FOR_DEC <=> op = TP!T_OP_FOR_DEC
         /\ w = IP!W_OP_FOR_INC_START <=> op = TP!T_OP_FOR_INC_START
         /\ w = IP!W_OP_FOR_INC <=> op = TP!T_OP_FOR_INC
         /\ w = IP!W_OP_GET_LOOP_VAR <=> op = TP!T_OP_GET_LOOP_VAR
         /\ w = IP!W_OP_JUMP <=> op = TP!T_OP_JUMP
         /\ w = IP!W_OP_JUMP_COND <=> op = TP!T_OP_JUMP_COND
         /\ w = IP!W_OP_JUMP_NCOND <=> op = TP!T_OP_JUMP_NCOND
         /\ w = IP!W_OP_LOCAL_GET <=> op = TP!T_OP_LOCAL_GET
         /\ w = IP!W_OP_LOCAL_SET <=> op = TP!T_OP_LOCAL_SET
         /\ w = IP!W_OP_CALL8 <=> op = TP!T_OP_CALL8
         /\ w = IP!W_OP_RET <=> op = TP!T_OP_RET
         /\ w \in IP!Instructions
<1> USE DEF IP!W_OP_PUSH8, TP!W_OP_PUSH8, IP!W_OP_PUSH_INT8, TP!W_OP_PUSH_INT8, IP!W_OP_POP,
            TP!W_OP_POP, IP!W_OP_DUPE, TP!W_OP_DUPE, IP!W_OP_EXIT, TP!W_OP_EXIT,
            IP!W_OP_FOR_DEC_START, TP!W_OP_FOR_DEC_START, IP!W_OP_FOR_DEC, TP!W_OP_FOR_DEC,
            IP!W_OP_FOR_INC_START, TP!W_OP_FOR_INC_START, IP!W_OP_FOR_INC, TP!W_OP_FOR_INC,
            IP!W_OP_GET_LOOP_VAR, TP!W_OP_GET_LOOP_VAR, IP!W_OP_JUMP, TP!W_OP_JUMP,
            IP!W_OP_JUMP_COND, TP!W_OP_JUMP_COND, IP!W_OP_JUMP_NCOND, TP!W_OP_JUMP_NCOND,
            IP!W_OP_LOCAL_GET, TP!W_OP_LOCAL_GET, IP!W_OP_LOCAL_SET, TP!W_OP_LOCAL_SET,
            IP!W_OP_CALL8, TP!W_OP_CALL8, IP!W_OP_RET, TP!W_OP_RET, IP!W_OP_FOR_STARTS,
            TP!W_OP_FOR_STARTS, IP!W_OP_FOR_UPDATES, TP!W_OP_FOR_UPDATES, TP!T_OP_PUSH8,
            TP!T_OP_PUSH_INT8, TP!T_OP_POP, TP!T_OP_DUPE, TP!T_OP_EXIT, TP!T_OP_FOR_DEC_START,
            TP!T_OP_FOR_DEC, TP!T_OP_FOR_INC_START, TP!T_OP_FOR_INC, TP!T_OP_GET_LOOP_VAR,
            TP!T_OP_JUMP, TP!T_OP_JUMP_COND, TP!T_OP_JUMP_NCOND, TP!T_OP_LOCAL_GET,
            TP!T_OP_LOCAL_SET, TP!T_OP_CALL8, TP!T_OP_RET, TP!T_OP_FOR_STARTS,
            TP!T_OP_FOR_UPDATES
<1>1. <<op, w>> \in {<<1, 1>>, <<5, 5>>, <<17, 17>>, <<25, 31>>, <<27, 38>>, <<28, 39>>,
                     <<29, 40>>, <<30, 41>>, <<31, 42>>, <<32, 43>>, <<35, 52>>,
                     <<36, 53>>, <<37, 54>>, <<40, 61>>, <<41, 62>>, <<111, 154>>,
                     <<117, 160>>}
  BY DEF TP!Translatable, TP!Translation
<1>2. /\ w = IP!W_OP_PUSH8 <=> op = TP!T_OP_PUSH8
      /\ w = IP!W_OP_PUSH_INT8 <=> op = TP!T_OP_PUSH_INT8
      /\ w = IP!W_OP_POP <=> op = TP!T_OP_POP
      /\ w = IP!W_OP_DUPE <=> op = TP!T_OP_DUPE
      /\ w = IP!W_OP_EXIT <=> op = TP!T_OP_EXIT
      /\ w = IP!W_OP_FOR_DEC_START <=> op = TP!T_OP_FOR_DEC_START
      /\ w = IP!W_OP_FOR_DEC <=> op = TP!T_OP_FOR_DEC
      /\ w = IP!W_OP_FOR_INC_START <=> op = TP!T_OP_FOR_INC_START
      /\ w = IP!W_OP_FOR_INC <=> op = TP!T_OP_FOR_INC
      /\ w = IP!W_OP_GET_LOOP_VAR <=> op = TP!T_OP_GET_LOOP_VAR
      /\ w = IP!W_OP_JUMP <=> op = TP!T_OP_JUMP
      /\ w = IP!W_OP_JUMP_COND <=> op = TP!T_OP_JUMP_COND
      /\ w = IP!W_OP_JUMP_NCOND <=> op = TP!T_OP_JUMP_NCOND
      /\ w = IP!W_OP_LOCAL_GET <=> op = TP!T_OP_LOCAL_GET
      /\ w = IP!W_OP_LOCAL_SET <=> op = TP!T_OP_LOCAL_SET
      /\ w = IP!W_OP_CALL8 <=> op = TP!T_OP_CALL8
      /\ w = IP!W_OP_RET <=> op = TP!T_OP_RET
  BY <1>1
<1>3. w \in IP!Instructions
  BY <1>1 DEF IP!Instructions
<1>4. QED
  BY <1>2, <1>3

LEMMA Translations ==
  ASSUME NEW op \in TP!Translatable, NEW w, w = TP!Translation(op)
  PROVE  /\ IP!is_w_jump(w) <=> TP!is_t_jump(op)
         /\ IP!get_w_instruction_size(w) = TP!t_instruction_size(op)
         /\ IP!Opens(w) = CP!SlotsOpened(op)
         /\ w \in {IP!W_OP_JUMP, IP!W_OP_RET, IP!W_OP_EXIT} <=> op \in TP!Final
<1>1. IP!is_w_jump(w) <=> TP!is_t_jump(op)
  BY SameInstruction
     DEF IP!is_w_jump, TP!is_t_jump, IP!W_OP_FOR_STARTS, IP!W_OP_FOR_UPDATES,
         TP!T_OP_FOR_STARTS, TP!T_OP_FOR_UPDATES
<1>2. IP!get_w_instruction_size(w) = TP!t_instruction_size(op)
  BY <1>1, SameInstruction DEF IP!get_w_instruction_size, TP!t_instruction_size
<1>3. IP!Opens(w) = CP!SlotsOpened(op)
  <2>1. /\ CP!T_OP_FOR_DEC_START = TP!T_OP_FOR_DEC_START /\ CP!T_OP_FOR_DEC = TP!T_OP_FOR_DEC
        /\ CP!T_OP_FOR_INC_START = TP!T_OP_FOR_INC_START /\ CP!T_OP_FOR_INC = TP!T_OP_FOR_INC
    BY DEF CP!T_OP_FOR_DEC_START, TP!T_OP_FOR_DEC_START, CP!T_OP_FOR_DEC, TP!T_OP_FOR_DEC,
           CP!T_OP_FOR_INC_START, TP!T_OP_FOR_INC_START, CP!T_OP_FOR_INC, TP!T_OP_FOR_INC
  <2>2. QED
    BY <2>1, SameInstruction DEF IP!Opens, CP!SlotsOpened
<1>4. w \in {IP!W_OP_JUMP, IP!W_OP_RET, IP!W_OP_EXIT} <=> op \in TP!Final
  BY SameInstruction DEF TP!Final
<1>5. QED
  BY <1>1, <1>2, <1>3, <1>4

\* Blocks read the same in the interpreter as in the type checker.
LEMMA SameWordBlocks ==
  /\ \A block : IP!WStarts(block) = TP!WStarts(block)
  /\ \A block, at : IP!JumpDest(block, at) = TP!JumpDest(block, at)
  /\ \A block, at : IP!read_u16(block, at) = TP!read_u16(block, at)
  /\ \A block, at : IP!At(block, at) = TP!At(block, at)
<1>1. \A block, at : IP!At(block, at) = TP!At(block, at)
  BY DEF IP!At, TP!At
<1>2. \A block, at : IP!read_u16(block, at) = TP!read_u16(block, at)
  BY <1>1 DEF IP!read_u16, TP!read_u16
<1>3. \A block, at : IP!JumpDest(block, at) = TP!JumpDest(block, at)
  BY <1>2 DEF IP!JumpDest, TP!JumpDest, IP!read_s16, TP!read_s16, IP!Words16, TP!Words16
<1>4. \A block : IP!WStarts(block) = TP!WStarts(block)
  BY DEF IP!WStarts, TP!WStarts, IP!InstructionStarts, TP!InstructionStarts, IP!At, TP!At,
         IP!get_w_instruction_size, TP!get_w_instruction_size, IP!is_w_jump, TP!is_w_jump,
         IP!W_OP_JUMP, TP!W_OP_JUMP, IP!W_OP_JUMP_COND, TP!W_OP_JUMP_COND, IP!W_OP_JUMP_NCOND,
         TP!W_OP_JUMP_NCOND, IP!W_OP_FOR_STARTS, TP!W_OP_FOR_STARTS, IP!W_OP_FOR_UPDATES,
         TP!W_OP_FOR_UPDATES, IP!W_OP_FOR_DEC_START, TP!W_OP_FOR_DEC_START,
         IP!W_OP_FOR_INC_START, TP!W_OP_FOR_INC_START, IP!W_OP_FOR_DEC, TP!W_OP_FOR_DEC,
         IP!W_OP_FOR_INC, TP!W_OP_FOR_INC, IP!W_OP_GET_LOOP_VAR, TP!W_OP_GET_LOOP_VAR,
         IP!W_OP_LOCAL_GET, TP!W_OP_LOCAL_GET, IP!W_OP_LOCAL_SET, TP!W_OP_LOCAL_SET,
         IP!W_OP_PUSH8, TP!W_OP_PUSH8, IP!W_OP_PUSH_INT8, TP!W_OP_PUSH_INT8, IP!W_OP_CALL8,
         TP!W_OP_CALL8
<1>5. QED
  BY <1>1, <1>2, <1>3, <1>4

\* What CompiledLoopsBalance says of the instruction at `at', in the type checker's words:
\* L[at] loop slots are open there, and its operand is in range.
BalancedAt(block, L, size, at) ==
  LET op == TP!At(block, at)
      wide == TP!read_u16(block, at + 1)
  IN  /\ L[TP!After("t", block, at)] = L[at] + CP!SlotsOpened(op)
      /\ TP!is_t_jump(op) => L[TP!JumpDest(block, at)] = L[at]
      /\ op \in {TP!T_OP_PUSH8, TP!T_OP_PUSH_INT8} => TP!At(block, at + 1) \in 0..(ByteBase - 1)
      /\ op = TP!T_OP_GET_LOOP_VAR => wide \in 0..(L[at] - 1)
      /\ op = TP!T_OP_LOCAL_GET => wide \in 0..(size - 1)

BalancedBlock(block, L, most, size) ==
  /\ L \in [Nat -> Nat]
  /\ L[0] = 0
  /\ \A at \in TP!TStarts(block) : L[at] <= most /\ BalancedAt(block, L, size, at)

LEMMA LevelsFound ==
  ASSUME NEW block, NEW dests, TP!Flows(block, dests), NEW most, NEW size,
         CP!HasLevels(block, {}, 0, most, size)
  PROVE  \E L : BalancedBlock(block, L, most, size)
<1>1. PICK L : CP!Levelled(block, L, 0, most, size)
  BY DEF CP!HasLevels
<1>2. /\ L \in [Nat -> Nat] /\ L[0] = 0
      /\ \A x \in CP!Places(block) : L[x] <= most
      /\ \A at \in CP!TStarts(block) : CP!LevelledAt(block, L, size, at)
  BY <1>1 DEF CP!Levelled
<1>3. \A at : CP!After("t", block, at) = TP!After("t", block, at)
  BY SameInstructions, SameBlocks DEF CP!After, TP!After, CP!SizeIn, TP!SizeIn
<1>4. \A at : CP!read_u16(block, at) = TP!read_u16(block, at)
  BY SameBlocks DEF CP!read_u16, TP!read_u16
<1>5. ASSUME NEW at \in TP!TStarts(block)
      PROVE  L[at] <= most /\ BalancedAt(block, L, size, at)
  <2>1. at \in CP!TStarts(block) /\ at \in CP!Places(block)
    BY SameInstructions DEF CP!Places
  <2>2. L[at] <= most /\ CP!LevelledAt(block, L, size, at)
    BY <1>2, <2>1
  <2>3. TP!is_t_jump(TP!At(block, at)) => TP!read_s16(block, at + 1) # 0
    <3>1. SUFFICES ASSUME at \in TP!TJumps(block) PROVE TP!read_s16(block, at + 1) # 0
      BY DEF TP!TJumps
    <3>2. QED
      BY <3>1, ByteBaseIsByte, TP!FlowFacts
  <2>4. BalancedAt(block, L, size, at)
    BY <1>3, <1>4, <2>2, <2>3, SameInstructions, SameBlocks
       DEF BalancedAt, CP!LevelledAt, CP!OperandIn, CP!T_OP_PUSH8, TP!T_OP_PUSH8,
           CP!T_OP_PUSH_INT8, TP!T_OP_PUSH_INT8, CP!T_OP_GET_LOOP_VAR, TP!T_OP_GET_LOOP_VAR,
           CP!T_OP_LOCAL_GET, TP!T_OP_LOCAL_GET
  <2>5. QED
    BY <2>2, <2>4
<1>6. QED
  BY <1>2, <1>5 DEF BalancedBlock

-----------------------------------------------------------------------------
(* From the checked T-code to a typing of the W-code.                      *)

\* A function of the module as the type checker leaves it: the T-code `block' ends with
\* a RET, is balanced, and is translated into the W-code of function f with the heights H.
Accepted(f, block, dests, targets, H, L, most) ==
  /\ TP!Flows(block, dests)
  /\ TP!Known(block, Len(w_code))
  /\ Len(block) - 1 \in TP!TStarts(block) /\ TP!At(block, Len(block) - 1) = TP!T_OP_RET
  /\ TP!Mirrored(block, dests, w_code[f + 1], targets)
  /\ TP!Translated(block, w_code[f + 1], Len(locals[f + 1]))
  /\ H \in [Nat -> Nat]
  /\ \A at \in TP!TStarts(block) : at < Len(w_code[f + 1]) =>
       TP!SoundAt(block, Len(w_code[f + 1]), sigs, f + 1, H, at)
  /\ BalancedBlock(block, L, most, Len(locals[f + 1]))

\* What that says of one instruction of the W-code.
LEMMA AcceptedFacts ==
  ASSUME NEW f \in Nat, NEW block, NEW dests, NEW targets, NEW H, NEW L, NEW most,
         Accepted(f, block, dests, targets, H, L, most),
         NEW at \in IP!WStarts(w_code[f + 1])
  PROVE  LET op == TP!At(block, at)
             out == w_code[f + 1]
             next == TP!After("t", block, at)
         IN  /\ block \in Seq(Nat) /\ Len(block) \in Nat
             /\ at \in TP!TStarts(block) /\ at \in Nat /\ at < Len(out)
             /\ next = at + TP!t_instruction_size(op)
             /\ next \in Nat /\ next > at /\ next <= Len(block)
             /\ op \notin TP!Final => next \in IP!WStarts(out)
             /\ TP!is_t_jump(op) => /\ TP!JumpDest(block, at) \in IP!WStarts(out)
                                    /\ TP!JumpDest(out, at) = TP!JumpDest(block, at)
             /\ TP!Translates(block, at, out, at, Len(locals[f + 1]))
             /\ TP!SoundAt(block, Len(out), sigs, f + 1, H, at)
             /\ BalancedAt(block, L, Len(locals[f + 1]), at)
             /\ L[at] <= most
<1> DEFINE out == w_code[f + 1]
           op == TP!At(block, at)
           next == TP!After("t", block, at)
<1>1. /\ TP!Flows(block, dests) /\ TP!Mirrored(block, dests, out, targets)
      /\ TP!Translated(block, out, Len(locals[f + 1]))
      /\ BalancedBlock(block, L, most, Len(locals[f + 1]))
  BY DEF Accepted
<1>2. TP!WholeBlock(block)
  BY <1>1 DEF TP!Flows
<1>3. block \in Seq(Nat) /\ Len(block) \in Nat /\ TP!Whole(TP!TStarts(block), "t", block)
  BY <1>2, LenProperties DEF TP!WholeBlock
<1>4. at \in TP!TStarts(block) /\ at < Len(out)
  BY <1>1, SameWordBlocks DEF TP!Mirrored
<1>5. at \in Nat
  BY <1>3, <1>4 DEF TP!Whole
<1>6. next = at + TP!t_instruction_size(op)
  BY DEF TP!After, TP!SizeIn
<1>7. TP!t_instruction_size(op) \in {1, 2, 3}
  BY DEF TP!t_instruction_size
<1>8. next \in Nat /\ next > at /\ next \in TP!TStarts(block) \cup {Len(block)}
  BY <1>3, <1>4, <1>5, <1>6, <1>7, SMTT(40) DEF TP!Whole
<1>9. next <= Len(block)
  BY <1>3, <1>8 DEF TP!Whole
<1>10. TP!SoundAt(block, Len(out), sigs, f + 1, H, at)
  BY <1>4, SMTT(40) DEF Accepted
<1>11. ASSUME op \notin TP!Final PROVE next \in IP!WStarts(out)
  <2>1. next < Len(out)
    BY <1>10, <1>11 DEF TP!SoundAt
  <2>2. next # Len(block)
    <3>1. Len(block) - 1 \in TP!TStarts(block) /\ TP!At(block, Len(block) - 1) = TP!T_OP_RET
      BY DEF Accepted
    <3>2. Len(block) - 1 <= at \/ Len(block) - 1 >= next
      BY <1>3, <1>4, <3>1 DEF TP!Whole
    <3>3. next = Len(block) => at = Len(block) - 1
      BY <1>3, <1>5, <1>8, <3>2
    <3>4. TP!T_OP_RET \in TP!Final
      BY DEF TP!Final
    <3>5. QED
      BY <1>11, <3>1, <3>3, <3>4
  <2>3. QED
    BY <1>1, <1>8, <2>1, <2>2, SameWordBlocks DEF TP!Mirrored
<1>12. ASSUME TP!is_t_jump(op)
       PROVE  /\ TP!JumpDest(block, at) \in IP!WStarts(out)
              /\ TP!JumpDest(out, at) = TP!JumpDest(block, at)
  <2>1. at \in TP!TJumps(block)
    BY <1>4, <1>12 DEF TP!TJumps
  <2>2. TP!JumpDest(block, at) \in dests /\ dests \subseteq TP!TStarts(block)
    BY <1>1, <2>1 DEF TP!Flows
  <2>3. QED
    BY <1>1, <2>1, <2>2, SameWordBlocks DEF TP!Mirrored
<1>13. TP!Translates(block, at, out, at, Len(locals[f + 1]))
  BY <1>1, <1>4 DEF TP!Translated
<1>14. BalancedAt(block, L, Len(locals[f + 1]), at) /\ L[at] <= most
  BY <1>1, <1>4 DEF BalancedBlock
<1>15. QED
  BY <1>3, <1>4, <1>5, <1>6, <1>8, <1>9, <1>10, <1>11, <1>12, <1>13, <1>14

\* The operand of an instruction of the W-code is that of the T-code.
LEMMA OperandsKept ==
  ASSUME NEW f \in Nat, NEW block, NEW dests, NEW targets, NEW H, NEW L, NEW most,
         Accepted(f, block, dests, targets, H, L, most),
         NEW at \in IP!WStarts(w_code[f + 1])
  PROVE  /\ TP!At(block, at) \in TP!Narrow \cup TP!Wide =>
              IP!At(w_code[f + 1], at + 1) = TP!At(block, at + 1)
         /\ TP!At(block, at) \in TP!Wide =>
              /\ IP!read_u16(w_code[f + 1], at + 1) = TP!read_u16(block, at + 1)
              /\ TP!read_u16(block, at + 1) \in Nat
<1> DEFINE out == w_code[f + 1]
           op == TP!At(block, at)
<1>1. /\ block \in Seq(Nat) /\ Len(block) \in Nat /\ at \in Nat
      /\ TP!After("t", block, at) = at + TP!t_instruction_size(op)
      /\ TP!After("t", block, at) <= Len(block)
      /\ TP!Translates(block, at, out, at, Len(locals[f + 1]))
  BY AcceptedFacts
<1>2. ASSUME op \in TP!Wide
      PROVE  /\ IP!read_u16(out, at + 1) = TP!read_u16(block, at + 1)
             /\ TP!read_u16(block, at + 1) \in Nat
  <2>1. TP!t_instruction_size(op) = 3
    BY <1>2 DEF TP!t_instruction_size, TP!Wide, TP!T_OP_GET_LOOP_VAR, TP!T_OP_LOCAL_GET,
       TP!T_OP_LOCAL_SET, TP!T_OP_PUSH8, TP!T_OP_PUSH_INT8, TP!T_OP_CALL8
  <2>2. at + 2 \in 1..Len(block) /\ at + 3 \in 1..Len(block)
    BY <1>1, <2>1
  <2>3. block[at + 2] \in Nat /\ block[at + 3] \in Nat
    BY <1>1, <2>2, ElementOfSeq, SMTT(40)
  <2>4. at + 1 + 1 = at + 2 /\ at + 1 + 1 + 1 = at + 3 /\ at + 2 + 1 = at + 3
    BY <1>1
  <2>5. TP!At(out, at + 1) = TP!At(block, at + 1) /\ TP!At(out, at + 2) = TP!At(block, at + 2)
    BY <1>1, <1>2 DEF TP!Translates
  <2>6. IP!read_u16(out, at + 1) = TP!read_u16(block, at + 1)
    BY <2>4, <2>5, SameWordBlocks DEF TP!read_u16
  <2>7. TP!read_u16(block, at + 1) = block[at + 2] + ByteBase * block[at + 3]
    BY <2>4 DEF TP!read_u16, TP!At
  <2>8. ByteBase \in Nat
    BY ByteBaseIsByte DEF CP!ByteBaseAssumption
  <2>9. \A a, b, c \in Nat : a + b * c \in Nat
    OBVIOUS
  <2>10. QED
    BY <2>3, <2>6, <2>7, <2>8, <2>9
<1>3. op \in TP!Narrow \cup TP!Wide => IP!At(out, at + 1) = TP!At(block, at + 1)
  BY <1>1, SameWordBlocks DEF TP!Translates
<1>4. QED
  BY <1>2, <1>3

\* Each instruction of the W-code is typed by the heights and the levels.
LEMMA InstructionTyped ==
  ASSUME NEW f \in Nat, NEW block, NEW dests, NEW targets, NEW H, NEW L, NEW most,
         Accepted(f, block, dests, targets, H, L, most), Len(locals[f + 1]) \in Nat,
         NEW at \in IP!WStarts(w_code[f + 1])
  PROVE  IP!TypedAt(f, at, H, L)
<1> DEFINE out == w_code[f + 1]
           op == TP!At(block, at)
           w == IP!At(out, at)
           next == TP!After("t", block, at)
           size == Len(locals[f + 1])
<1>1. /\ at \in Nat /\ at \in TP!TStarts(block)
      /\ next = at + TP!t_instruction_size(op) /\ next \in Nat
      /\ op \notin TP!Final => next \in IP!WStarts(out)
      /\ TP!is_t_jump(op) => /\ TP!JumpDest(block, at) \in IP!WStarts(out)
                             /\ TP!JumpDest(out, at) = TP!JumpDest(block, at)
      /\ TP!Translates(block, at, out, at, size)
      /\ TP!SoundAt(block, Len(out), sigs, f + 1, H, at)
      /\ BalancedAt(block, L, size, at)
  BY AcceptedFacts
<1>2. op \in TP!Translatable /\ w = TP!Translation(op) /\ IP!Body(f) = out
  BY <1>1, SameWordBlocks DEF TP!Translates, IP!Body
<1>3. H \in [Nat -> Nat] /\ L \in [Nat -> Nat] /\ TP!Known(block, Len(w_code))
  BY DEF Accepted, BalancedBlock
<1>4. /\ op \in TP!Narrow \cup TP!Wide => IP!At(out, at + 1) = TP!At(block, at + 1)
      /\ op \in TP!Wide => /\ IP!read_u16(out, at + 1) = TP!read_u16(block, at + 1)
                           /\ TP!read_u16(block, at + 1) \in Nat
  BY OperandsKept
<1> HIDE DEF op, w, out, next, size
<1>5. IP!Takes(f, at) = TP!Taken(block, at, sigs) /\ IP!Leaves(f, at) = TP!Left(block, at, sigs)
  <2>1. op = TP!T_OP_CALL8 => IP!At(out, at + 1) = TP!At(block, at + 1)
    BY <1>4 DEF TP!Narrow
  <2>2. IP!Takes(f, at) = TP!Taken(block, at, sigs)
    BY <1>2, <2>1, SameInstruction
       DEF IP!Takes, TP!Taken, w, op, IP!W_OP_FOR_STARTS, TP!T_OP_FOR_STARTS
  <2>3. IP!Leaves(f, at) = TP!Left(block, at, sigs)
    BY <1>2, <2>1, SameInstruction DEF IP!Leaves, TP!Left, w, op
  <2>4. QED
    BY <2>2, <2>3
<1>6. /\ w \in IP!Instructions
      /\ IP!is_w_jump(w) <=> TP!is_t_jump(op)
      /\ next = at + IP!get_w_instruction_size(w)
      /\ IP!Opens(w) = CP!SlotsOpened(op)
      /\ w \in {IP!W_OP_JUMP, IP!W_OP_RET, IP!W_OP_EXIT} <=> op \in TP!Final
      /\ w = IP!W_OP_RET <=> op = TP!T_OP_RET
  BY <1>1, <1>2, Translations, SameInstruction
<1>7. H[at] >= IP!Takes(f, at)
  BY <1>1, <1>5 DEF TP!SoundAt
<1>8. L[next] = L[at] + IP!Opens(w)
  BY <1>1, <1>6 DEF BalancedAt, op, next
<1>9. L[at] + IP!Opens(w) >= 0
  <2>1. L[next] \in Nat
    BY <1>1, <1>3
  <2>2. QED
    BY <1>8, <2>1
<1>10. IP!OperandOK(f, at, L[at])
  <2>1. ASSUME w \in {IP!W_OP_PUSH8, IP!W_OP_PUSH_INT8}
        PROVE  IP!At(out, at + 1) \in 0..(ByteBase - 1)
    <3>1. op \in {TP!T_OP_PUSH8, TP!T_OP_PUSH_INT8}
      BY <1>2, <2>1, SameInstruction
    <3>2. QED
      BY <1>1, <1>4, <3>1 DEF BalancedAt, op, TP!Narrow
  <2>2. ASSUME w = IP!W_OP_GET_LOOP_VAR
        PROVE  IP!read_u16(out, at + 1) \in 0..(L[at] - 1)
    <3>1. op = TP!T_OP_GET_LOOP_VAR
      BY <1>2, <2>2, SameInstruction
    <3>2. QED
      BY <1>1, <1>4, <3>1 DEF BalancedAt, op, TP!Wide
  <2>3. ASSUME w = IP!W_OP_LOCAL_GET
        PROVE  IP!read_u16(out, at + 1) \in 0..(size - 1)
    <3>1. op = TP!T_OP_LOCAL_GET
      BY <1>2, <2>3, SameInstruction
    <3>2. QED
      BY <1>1, <1>4, <3>1 DEF BalancedAt, op, TP!Wide
  <2>4. ASSUME w = IP!W_OP_LOCAL_SET
        PROVE  IP!read_u16(out, at + 1) \in 0..(size - 1)
    <3>1. op = TP!T_OP_LOCAL_SET
      BY <1>2, <2>4, SameInstruction
    <3>2. TP!read_u16(block, at + 1) < size
      BY <1>1, <3>1 DEF TP!Translates, op
    <3>3. QED
      BY <1>4, <3>1, <3>2 DEF TP!Wide, size
  <2>5. ASSUME w = IP!W_OP_CALL8
        PROVE  IP!At(out, at + 1) \in 0..(Len(w_code) - 1)
    <3>1. op = TP!T_OP_CALL8
      BY <1>2, <2>5, SameInstruction
    <3>2. TP!At(block, at + 1) \in Nat /\ TP!At(block, at + 1) < Len(w_code)
      BY <1>1, <1>3, <3>1 DEF TP!Known, TP!KnownAt, op
    <3>3. QED
      BY <1>4, <3>1, <3>2 DEF TP!Narrow
  <2>6. QED
    BY <1>2, <2>1, <2>2, <2>3, <2>4, <2>5 DEF IP!OperandOK, w, size, IP!LocalsSize
<1>11. ASSUME w \notin {IP!W_OP_JUMP, IP!W_OP_RET, IP!W_OP_EXIT}
       PROVE  /\ next \in IP!WStarts(out)
              /\ H[next] = H[at] - IP!Takes(f, at) + IP!Leaves(f, at)
  BY <1>1, <1>5, <1>6, <1>11 DEF TP!SoundAt, op, next
<1>12. ASSUME IP!is_w_jump(w)
       PROVE  /\ IP!JumpDest(out, at) \in IP!WStarts(out)
              /\ H[IP!JumpDest(out, at)] = H[at] - IP!Takes(f, at)
              /\ L[IP!JumpDest(out, at)] = L[at]
  BY <1>1, <1>5, <1>6, <1>12, SameWordBlocks DEF TP!SoundAt, BalancedAt, op
<1>13. w = IP!W_OP_RET => H[at] = Len(sigs[f + 1].rets)
  BY <1>1, <1>6 DEF TP!SoundAt, op
<1>14. QED
  BY <1>2, <1>6, <1>7, <1>8, <1>9, <1>10, <1>11, <1>12, <1>13 DEF IP!TypedAt, w

\* Never more loop slots than the compiler has counted.
Fits(Ls) ==
  \A f \in IP!Functions : \A at \in IP!WStarts(IP!Body(f)) :
    Ls[f][at] <= max_for_loop_level[f + 1]

\* The module is what the compiler leaves and its W-code what the checker has accepted.
Checked ==
  /\ CP!IInv /\ CP!Compiled /\ CP!Balanced
  /\ MainSignature
  /\ TP!ModuleOK
  /\ TP!CheckInv /\ TP!HeightsInv
  /\ status = "compiled" /\ check_status = "ok"

LEMMA FunctionAccepted ==
  ASSUME Checked, NEW f \in 0..(Len(t_code) - 1), Len(w_code) = Len(t_code)
  PROVE  \E H, L : /\ Accepted(f, t_code[f + 1], t_jumps[f + 1], w_jumps[f + 1], H, L,
                               max_for_loop_level[f + 1])
                   /\ H[0] = Len(sigs[f + 1].params)
<1>1. /\ t_code \in Seq(Seq(Nat)) /\ Len(t_code) \in Nat /\ f \in Nat /\ f + 1 \in 1..Len(t_code)
      /\ DOMAIN t_code = 1..Len(t_code)
  BY LenProperties DEF Checked, CP!IInv, CP!TypeOK
<1>2. TP!Flows(t_code[f + 1], t_jumps[f + 1]) /\ TP!Known(t_code[f + 1], Len(t_code))
  BY <1>1 DEF Checked, TP!ModuleOK
<1>3. /\ CP!RetLast(t_code[f + 1])
      /\ CP!HasLevels(t_code[f + 1], {}, 0, max_for_loop_level[f + 1], Len(locals[f + 1]))
  BY <1>1, SMTT(40) DEF Checked, CP!Balanced
<1>4. /\ Len(t_code[f + 1]) - 1 \in TP!TStarts(t_code[f + 1])
      /\ TP!At(t_code[f + 1], Len(t_code[f + 1]) - 1) = TP!T_OP_RET
  BY <1>3, SameInstructions, SameBlocks DEF CP!RetLast, CP!T_OP_RET, TP!T_OP_RET
<1>5. PICK L : BalancedBlock(t_code[f + 1], L, max_for_loop_level[f + 1], Len(locals[f + 1]))
  BY <1>2, <1>3, LevelsFound
<1>6. TP!Mirrored(t_code[f + 1], t_jumps[f + 1], w_code[f + 1], w_jumps[f + 1])
  BY <1>1 DEF Checked, TP!CheckInv, TP!Checked
<1>7. TP!Sound(t_code[f + 1], w_code[f + 1], Len(locals[f + 1]), sigs, f + 1)
  BY <1>1 DEF Checked, TP!HeightsInv, TP!AllSound
<1>8. PICK H : /\ H \in [Nat -> Nat]
               /\ H[0] = Len(sigs[f + 1].params)
               /\ \A at \in TP!TStarts(t_code[f + 1]) : at < Len(w_code[f + 1]) =>
                    TP!SoundAt(t_code[f + 1], Len(w_code[f + 1]), sigs, f + 1, H, at)
  BY <1>7 DEF TP!Sound
<1>9. TP!Translated(t_code[f + 1], w_code[f + 1], Len(locals[f + 1]))
  BY <1>7 DEF TP!Sound
<1>10. TP!Known(t_code[f + 1], Len(w_code))
  BY <1>2
<1>11. Accepted(f, t_code[f + 1], t_jumps[f + 1], w_jumps[f + 1], H, L, max_for_loop_level[f + 1])
  BY <1>2, <1>4, <1>5, <1>6, <1>8, <1>9, <1>10 DEF Accepted
<1>12. QED
  BY <1>8, <1>11

LEMMA FunctionIsSeq ==
  ASSUME NEW S, NEW n \in Nat, NEW f \in [1..n -> S]
  PROVE  f \in Seq(S)
<1>1. [1..n -> S] \in {[1..m -> S] : m \in Nat}
  OBVIOUS
<1>2. f \in UNION {[1..m -> S] : m \in Nat}
  BY <1>1, Zenon
<1>3. QED
  BY <1>2, SeqDef, Zenon

\* They type the module.
LEMMA TypingFound ==
  ASSUME Checked
  PROVE  \E Hs, Ls : IP!Typing(Hs, Ls) /\ Fits(Ls)
<1>1. /\ t_code \in Seq(Seq(Nat)) /\ Len(t_code) \in Nat /\ Len(t_code) > 0
      /\ sigs \in Seq([params : Seq({"int"}), rets : Seq({"int"})]) /\ Len(sigs) = Len(t_code)
      /\ locals \in Seq(Seq({"int"})) /\ Len(locals) = Len(t_code)
  BY LenProperties, SMTT(40) DEF Checked, CP!IInv, CP!TypeOK, CP!IntType
<1>2. w_code \in Seq(Seq(Nat)) /\ Len(w_code) = Len(t_code) /\ w_code # <<>>
  <2>1. w_code \in [1..Len(t_code) -> Seq(Nat)]
    BY DEF Checked, TP!CheckInv
  <2>2. w_code \in Seq(Seq(Nat))
    BY <1>1, <2>1, FunctionIsSeq
  <2>3. Len(w_code) \in Nat /\ DOMAIN w_code = 1..Len(w_code) /\ DOMAIN w_code = 1..Len(t_code)
    BY <2>1, <2>2, LenProperties
  <2>4. Len(w_code) = Len(t_code)
    BY <1>1, <2>3
  <2>5. QED
    BY <1>1, <2>2, <2>4
<1>3. IP!Functions = 0..(Len(t_code) - 1)
  BY <1>2 DEF IP!Functions
<1> DEFINE Has(f, HL) ==
      /\ Accepted(f, t_code[f + 1], t_jumps[f + 1], w_jumps[f + 1], HL.H, HL.L,
                  max_for_loop_level[f + 1])
      /\ HL.H[0] = Len(sigs[f + 1].params)
    Hs == [f \in IP!Functions |-> (CHOOSE HL : Has(f, HL)).H]
    Ls == [f \in IP!Functions |-> (CHOOSE HL : Has(f, HL)).L]
<1>4. ASSUME NEW f \in IP!Functions PROVE Has(f, [H |-> Hs[f], L |-> Ls[f]])
  <2>1. PICK H, L : /\ Accepted(f, t_code[f + 1], t_jumps[f + 1], w_jumps[f + 1], H, L,
                                max_for_loop_level[f + 1])
                    /\ H[0] = Len(sigs[f + 1].params)
    BY <1>2, <1>3, FunctionAccepted
  <2>2. Has(f, [H |-> H, L |-> L])
    BY <2>1
  <2>3. Has(f, CHOOSE HL : Has(f, HL))
    <3> HIDE DEF Has
    <3>1. QED
      BY <2>2
  <2>4. QED
    BY <2>3
<1>5. ASSUME NEW f \in IP!Functions
      PROVE  /\ f \in Nat /\ f + 1 \in 1..Len(t_code)
             /\ Accepted(f, t_code[f + 1], t_jumps[f + 1], w_jumps[f + 1], Hs[f], Ls[f],
                         max_for_loop_level[f + 1])
             /\ Hs[f][0] = Len(sigs[f + 1].params)
  BY <1>3, <1>4
<1>6. DOMAIN Hs = IP!Functions /\ DOMAIN Ls = IP!Functions
  OBVIOUS
<1>7. Hs = [f \in IP!Functions |-> Hs[f]] /\ Ls = [f \in IP!Functions |-> Ls[f]]
  OBVIOUS
<1> HIDE DEF Hs, Ls, Has
<1>8. ASSUME NEW f \in IP!Functions
      PROVE  /\ Hs[f] \in [Nat -> Nat] /\ Ls[f] \in [Nat -> Nat] /\ Ls[f][0] = 0
             /\ Len(sigs[f + 1].params) \in Nat /\ Len(sigs[f + 1].rets) \in Nat
             /\ Len(locals[f + 1]) \in Nat
             /\ w_code[f + 1] # <<>>
  <2>1. /\ f + 1 \in 1..Len(sigs) /\ f + 1 \in 1..Len(locals) /\ f + 1 \in 1..Len(t_code)
    BY <1>1, <1>5
  <2>2. sigs[f + 1] \in [params : Seq({"int"}), rets : Seq({"int"})] /\ locals[f + 1] \in Seq({"int"})
    BY <1>1, <2>1, ElementOfSeq
  <2>3. /\ Len(sigs[f + 1].params) \in Nat /\ Len(sigs[f + 1].rets) \in Nat
        /\ Len(locals[f + 1]) \in Nat
    BY <2>2, LenProperties
  <2>4. /\ Hs[f] \in [Nat -> Nat] /\ Ls[f] \in [Nat -> Nat] /\ Ls[f][0] = 0
    BY <1>5 DEF Accepted, BalancedBlock
  <2>5. Len(w_code[f + 1]) > 0
    BY <2>1 DEF Checked, TP!HeightsInv, TP!AllSound, TP!Sound
  <2>6. w_code[f + 1] # <<>>
    BY <2>5
  <2>7. QED
    BY <2>3, <2>4, <2>6
<1>9. ASSUME NEW f \in IP!Functions, NEW at \in IP!WStarts(IP!Body(f))
      PROVE  IP!TypedAt(f, at, Hs[f], Ls[f]) /\ Ls[f][at] <= max_for_loop_level[f + 1]
  <2>1. at \in IP!WStarts(w_code[f + 1])
    BY DEF IP!Body
  <2>2. QED
    BY <1>5, <1>8, <2>1, InstructionTyped, AcceptedFacts
<1>10. Hs \in [IP!Functions -> [Nat -> Nat]] /\ Ls \in [IP!Functions -> [Nat -> Nat]]
  BY <1>7, <1>8
<1>11. sigs[1].params = <<>> /\ sigs[1].rets = <<>>
  BY DEF Checked, MainSignature
<1>12. IP!Typing(Hs, Ls)
  BY <1>1, <1>2, <1>5, <1>8, <1>9, <1>10, <1>11 DEF IP!Typing, IP!Body
<1>13. Fits(Ls)
  BY <1>9 DEF Fits
<1>14. QED
  BY <1>12, <1>13

-----------------------------------------------------------------------------
(* The invariant of the program, up to the interpreter.                    *)

\* The odd shapes of code for which what follows does not hold.
OddShapes == {"empty_else", "long_while", "func_in_loop", "no_final_ret"}

\* BudeInv, and besides what the interpreter relies on.
AcceptedInv ==
  /\ BudeInv
  /\ CP!LevelsInv /\ CP!LastInv
  /\ MainSignature
  /\ TP!HeightsInv

LEMMA ModuleIsComplete ==
  ASSUME AcceptedInv, status = "compiled"
  PROVE  TP!ModuleComplete
<1>1. CP!IInv /\ CP!Balanced
  BY ByteBaseIsByte, CompilerConstants, CP!LevelsBalance DEF AcceptedInv, BudeInv, CompilerInv
<1>2. /\ t_code \in Seq(Seq(Nat)) /\ DOMAIN t_code = 1..Len(t_code)
      /\ sigs \in Seq([params : Seq({"int"}), rets : Seq({"int"})]) /\ Len(sigs) = Len(t_code)
      /\ locals \in Seq(Seq({"int"})) /\ Len(locals) = Len(t_code)
  BY <1>1, LenProperties DEF CP!IInv, CP!TypeOK, CP!IntType
<1>3. TP!ModuleOK
  BY ModuleCompiled DEF AcceptedInv, BudeInv
<1>4. Seq({"int"}) \subseteq TP!ValueStacks
  BY DEF TP!ValueStacks, TP!IntType, TP!WordType
<1>5. ASSUME NEW f \in 1..Len(t_code)
      PROVE  /\ sigs[f].params \in TP!ValueStacks /\ sigs[f].rets \in TP!ValueStacks
             /\ locals[f] \in TP!ValueStacks
             /\ Len(t_code[f]) - 1 \in TP!TStarts(t_code[f])
             /\ TP!At(t_code[f], Len(t_code[f]) - 1) = TP!T_OP_RET
             /\ \A at \in TP!TStarts(t_code[f]) :
                  TP!At(t_code[f], at) = TP!T_OP_LOCAL_GET =>
                    TP!read_u16(t_code[f], at + 1) < Len(locals[f])
  <2>1. sigs[f] \in [params : Seq({"int"}), rets : Seq({"int"})] /\ locals[f] \in Seq({"int"})
    BY <1>2, ElementOfSeq
  <2>2. /\ CP!RetLast(t_code[f])
        /\ CP!HasLevels(t_code[f], {}, 0, max_for_loop_level[f], Len(locals[f]))
    BY <1>1, <1>2 DEF CP!Balanced
  <2>3. /\ Len(t_code[f]) - 1 \in TP!TStarts(t_code[f])
        /\ TP!At(t_code[f], Len(t_code[f]) - 1) = TP!T_OP_RET
    BY <2>2, SameInstructions, SameBlocks DEF CP!RetLast, CP!T_OP_RET, TP!T_OP_RET
  <2>4. TP!Flows(t_code[f], t_jumps[f])
    BY <1>3 DEF TP!ModuleOK
  <2>5. PICK L : BalancedBlock(t_code[f], L, max_for_loop_level[f], Len(locals[f]))
    BY <2>2, <2>4, LevelsFound
  <2>6. Len(locals[f]) \in Nat
    BY <2>1, LenProperties
  <2>7. ASSUME NEW at \in TP!TStarts(t_code[f]), TP!At(t_code[f], at) = TP!T_OP_LOCAL_GET
        PROVE  TP!read_u16(t_code[f], at + 1) < Len(locals[f])
    <3>1. BalancedAt(t_code[f], L, Len(locals[f]), at)
      BY <2>5, <2>7 DEF BalancedBlock
    <3>2. TP!read_u16(t_code[f], at + 1) \in 0..(Len(locals[f]) - 1)
      BY <2>7, <3>1 DEF BalancedAt
    <3>3. QED
      BY <2>6, <3>2
  <2>8. QED
    BY <1>4, <2>1, <2>3, <2>7
<1>6. QED
  BY <1>5 DEF TP!ModuleComplete

LEMMA AcceptedStarts ==
  ASSUME Init
  PROVE  AcceptedInv
<1>1. CP!Init /\ TP!CheckerInit
  BY CompilerStarts, CheckerStarts DEF Init
<1>2. CP!LevelsInv /\ CP!LastInv
  BY <1>1, ByteBaseIsByte, CompilerConstants, CP!InitHasLevels, CP!InitHasLast, SMTT(40)
<1>3. MainSignature
  BY <1>1 DEF CP!Init, MainSignature
<1>4. TP!HeightsInv
  BY <1>1 DEF TP!CheckerInit, TP!HeightsInv
<1>5. QED
  BY <1>2, <1>3, <1>4, BudeStarts DEF AcceptedInv

LEMMA LevelsStep ==
  ASSUME OddShapes \cap Oddities = {}, AcceptedInv, CP!Step \/ UNCHANGED CP!vars
  PROVE  CP!LevelsInv' /\ CP!LastInv' /\ MainSignature'
<1>1. [CP!Next]_(CP!vars)
  BY DEF CP!Next
<1>2. {"empty_else", "long_while", "func_in_loop"} \cap Oddities = {} /\ "no_final_ret" \notin Oddities
  BY DEF OddShapes
<1>3. CP!IInv /\ CP!CodeInv /\ CP!LevelsInv /\ CP!LastInv /\ MainSignature
  BY DEF AcceptedInv, BudeInv, CompilerInv
<1>4. CP!LevelsInv' /\ CP!LastInv'
  BY <1>1, <1>2, <1>3, ByteBaseIsByte, CompilerConstants, CP!NextKeepsLevels, CP!NextKeepsLast
<1>5. MainSignature'
  BY <1>3, MainSignatureStays DEF MainSignature, CP!vars
<1>6. QED
  BY <1>4, <1>5

LEMMA AcceptedKeeps ==
  ASSUME OddShapes \cap Oddities = {}, AcceptedInv, [Next]_vars
  PROVE  AcceptedInv'
<1>1. BudeInv'
  BY BudeKeeps DEF AcceptedInv, OddShapes
<1>2. CASE Compile
  <2>1. CP!Step /\ UNCHANGED checking
    BY <1>2, CompilerSteps DEF Compile
  <2>2. check_status' = "idle"
    BY <2>1, CompilerRuns DEF AcceptedInv, BudeInv, checking
  <2>3. TP!HeightsInv'
    BY <2>2 DEF TP!HeightsInv
  <2>4. QED
    BY <1>1, <2>1, <2>3, LevelsStep DEF AcceptedInv
<1>3. CASE TypeCheck
  <2>1. TP!CheckStep /\ status = "compiled" /\ UNCHANGED compiling
    BY <1>3, CheckerSteps DEF TypeCheck
  <2>2. TP!ModuleOK /\ TP!ModuleComplete
    BY <2>1, ModuleCompiled, ModuleIsComplete DEF AcceptedInv, BudeInv
  <2>3. TP!HeightsInv' /\ UNCHANGED TP!input
    BY <2>1, <2>2, ByteBaseIsByte, TP!HeightsStepKeeps, TP!CheckStepKeepsInput
       DEF AcceptedInv, BudeInv
  <2>4. UNCHANGED CP!vars
    BY <2>1, <2>3 DEF CP!vars, compiling, TP!input
  <2>5. QED
    BY <1>1, <2>3, <2>4, LevelsStep DEF AcceptedInv
<1>4. CASE Interpret \/ Terminated \/ UNCHANGED vars
  <2>1. UNCHANGED CP!vars /\ UNCHANGED TP!vars
    BY <1>4, InterpreterLeavesModule
       DEF Interpret, Terminated, vars, compiling, checking, CP!vars, TP!vars, TP!input,
           TP!checker
  <2>2. TP!HeightsInv'
    <3>1. CASE status = "compiled"
      BY <2>1, <3>1, ModuleIsComplete, ByteBaseIsByte, TP!HeightsStutter DEF AcceptedInv
    <3>2. CASE status # "compiled"
      <4>1. check_status' = "idle"
        BY <2>1, <3>2 DEF AcceptedInv, BudeInv, TP!vars, TP!checker
      <4>2. QED
        BY <4>1 DEF TP!HeightsInv
    <3>3. QED
      BY <3>1, <3>2
  <2>3. QED
    BY <1>1, <2>1, <2>2, LevelsStep DEF AcceptedInv
<1>5. QED
  BY <1>2, <1>3, <1>4 DEF Next

\* A step of the type checker is one before it has returned.
LEMMA CheckerRuns == TP!CheckStep => check_status # "ok"
BY DEF TP!CheckStep, TP!Start, TP!NextFunction, TP!Arrive, TP!CheckPush, TP!CheckPop,
       TP!CheckDupe, TP!CheckGetLoopVar, TP!CheckLocalGet, TP!CheckLocalSet, TP!CheckCall,
       TP!CheckConditionalJump, TP!CheckForUpdate, TP!CheckJump, TP!CheckExit, TP!CheckRet,
       TP!Fetch

\* What the type checker has accepted has a typing.
LEMMA AcceptedIsTyped ==
  ASSUME AcceptedInv, check_status = "ok"
  PROVE  \E Hs, Ls : IP!Typing(Hs, Ls) /\ Fits(Ls)
<1>1. status = "compiled"
  BY DEF AcceptedInv, BudeInv
<1>2. TP!ModuleOK
  BY <1>1, ModuleCompiled DEF AcceptedInv, BudeInv
<1>3. CP!IInv /\ CP!Compiled /\ CP!Balanced
  BY ByteBaseIsByte, CompilerConstants, CP!CodeInvFlows, CP!LevelsBalance
     DEF AcceptedInv, BudeInv, CompilerInv
<1>4. Checked
  BY <1>1, <1>2, <1>3 DEF Checked, AcceptedInv, BudeInv
<1>5. QED
  BY <1>4, TypingFound

-----------------------------------------------------------------------------
(* The interpreter.                                                        *)

\* The interpreter has not begun, and does not before the type checker has accepted the
\* program; then it keeps the invariant of a typed program.
RunningInv ==
  /\ check_status # "ok" => IP!RunInit
  /\ IP!RunInit \/ \E Hs, Ls : IP!RunInv(Hs, Ls) /\ Fits(Ls)

TypedInv == AcceptedInv /\ RunningInv

LEMMA RunningTyped ==
  ASSUME TypedInv, check_status = "ok"
  PROVE  \E Hs, Ls : IP!RunInv(Hs, Ls) /\ Fits(Ls)
<1>1. CASE IP!RunInit
  <2>1. PICK Hs, Ls : IP!Typing(Hs, Ls) /\ Fits(Ls)
    BY AcceptedIsTyped DEF TypedInv
  <2>2. IP!RunInv(Hs, Ls)
    BY <1>1, <2>1, ByteBaseOfInterpreter, InterpreterConstants, IP!InitTyped
  <2>3. QED
    BY <2>1, <2>2
<1>2. QED
  BY <1>1 DEF TypedInv, RunningInv

LEMMA TypedKeeps ==
  ASSUME OddShapes \cap Oddities = {}, TypedInv, [Next]_vars
  PROVE  TypedInv'
<1>1. AcceptedInv'
  BY AcceptedKeeps DEF TypedInv
<1>2. CASE Compile \/ TypeCheck
  <2>1. check_status # "ok" /\ UNCHANGED running
    BY <1>2, CompilerSteps, CompilerRuns, CheckerSteps, CheckerRuns
       DEF Compile, TypeCheck, TypedInv, AcceptedInv, BudeInv
  <2>2. IP!RunInit'
    BY <2>1 DEF TypedInv, RunningInv, running, IP!RunInit
  <2>3. QED
    BY <1>1, <2>2 DEF TypedInv, RunningInv
<1>3. CASE Interpret
  <2>1. check_status = "ok" /\ check_status' = "ok" /\ IP!RunStep /\ UNCHANGED max_for_loop_level
    BY <1>3, InterpreterSteps DEF Interpret, checking, compiling
  <2>2. PICK Hs, Ls : IP!RunInv(Hs, Ls) /\ Fits(Ls)
    BY <2>1, RunningTyped
  <2>3. IP!RunInv(Hs, Ls)'
    BY <2>1, <2>2, ByteBaseOfInterpreter, InterpreterConstants, IP!StepTyped
  <2>4. Fits(Ls)'
    BY <1>3, <2>1, <2>2 DEF Fits, IP!Functions, IP!Body, Interpret, checking
  <2>5. QED
    BY <1>1, <2>1, <2>3, <2>4 DEF TypedInv, RunningInv
<1>4. CASE Terminated \/ UNCHANGED vars
  <2>1. UNCHANGED IP!vars /\ check_status' = check_status /\ UNCHANGED max_for_loop_level
        /\ UNCHANGED w_code /\ UNCHANGED running
    BY <1>4 DEF Terminated, vars, IP!vars, IP!input, IP!stacks, IP!registers, compiling, checking,
                running
  <2>2. IP!RunInit => IP!RunInit'
    BY <2>1 DEF running, IP!RunInit
  <2>3. ASSUME NEW Hs, NEW Ls, IP!RunInv(Hs, Ls), Fits(Ls)
        PROVE  IP!RunInv(Hs, Ls)' /\ Fits(Ls)'
    <3>1. IP!RunInv(Hs, Ls)'
      BY <2>1, <2>3, ByteBaseOfInterpreter, IP!StutterTyped
    <3>2. Fits(Ls)'
      BY <2>1, <2>3 DEF Fits, IP!Functions, IP!Body
    <3>3. QED
      BY <3>1, <3>2
  <2>4. RunningInv'
    BY <2>1, <2>2, <2>3 DEF TypedInv, RunningInv
  <2>5. QED
    BY <1>1, <2>4 DEF TypedInv
<1>5. QED
  BY <1>2, <1>3, <1>4 DEF Next

LEMMA TypedInductive ==
  ASSUME OddShapes \cap Oddities = {}
  PROVE  Spec => []TypedInv
<1>1. Init => TypedInv
  <2>1. SUFFICES ASSUME Init PROVE TypedInv
    OBVIOUS
  <2>2. IP!RunInit
    BY <2>1, InterpreterStarts DEF Init
  <2>3. QED
    BY <2>1, <2>2, AcceptedStarts DEF TypedInv, RunningInv
<1>2. TypedInv /\ [Next]_vars => TypedInv'
  BY TypedKeeps
<1>3. QED
  BY <1>1, <1>2, PTL DEF Spec

LEMMA TypedInvHolds ==
  ASSUME TypedInv
  PROVE  /\ RunTypeOK /\ NeverUnderflows /\ ReadsOwnLoops /\ ReturnsItsResults
         /\ EndsClean /\ LoopSlotsReserved
<1>1. CASE IP!RunInit
  <2>1. run_status = "idle"
    BY <1>1 DEF IP!RunInit
  <2>2. IP!NeverUnderflows /\ IP!ReadsOwnLoops /\ IP!ReturnsItsResults /\ IP!EndsClean
    BY <2>1 DEF IP!NeverUnderflows, IP!ReadsOwnLoops, IP!ReturnsItsResults, IP!EndsClean, IP!Fetch
  <2>3. IP!RunTypeOK
    BY <1>1, InterpreterConstants DEF IP!RunInit, IP!RunTypeOK, IP!InterpreterAssumption
  <2>4. LoopSlotsReserved
    BY <2>1 DEF LoopSlotsReserved
  <2>5. QED
    BY <2>2, <2>3, <2>4, SameRunProperties
<1>2. CASE ~IP!RunInit
  <2>1. PICK Hs, Ls : IP!RunInv(Hs, Ls) /\ Fits(Ls)
    BY <1>2 DEF TypedInv, RunningInv
  <2>2. /\ IP!RunTypeOK /\ IP!NeverUnderflows /\ IP!ReadsOwnLoops /\ IP!ReturnsItsResults
        /\ IP!EndsClean
    BY <2>1, ByteBaseOfInterpreter, InterpreterConstants, IP!TypedTypeOK, IP!TypedNeverUnderflows,
       IP!TypedReadsOwnLoops, IP!TypedReturnsItsResults, IP!TypedEndsClean
  <2>3. LoopSlotsReserved
    <3>1. CASE IP!Idle
      <4>1. run_for_loop_level = 0 /\ current_function = 0
        BY <3>1 DEF IP!Idle
      <4>2. max_for_loop_level[1] \in Nat
        <5>1. max_for_loop_level \in Seq(Nat) /\ 1 \in 1..Len(max_for_loop_level)
          BY LenProperties DEF TypedInv, AcceptedInv, BudeInv, CompilerInv, CP!IInv, CP!TypeOK
        <5>2. QED
          BY <5>1, ElementOfSeq
      <4>3. QED
        BY <4>1, <4>2 DEF LoopSlotsReserved
    <3>2. CASE \E loops, frames : IP!Active(Hs, Ls, loops, frames)
      <4>1. PICK loops, frames : IP!Active(Hs, Ls, loops, frames)
        BY <3>2
      <4>2. IP!Running(Hs, Ls, loops, frames)
        BY <2>1, <4>1, ByteBaseOfInterpreter, IP!RunningFacts
      <4>3. QED
        BY <2>1, <4>2 DEF IP!Running, Fits, LoopSlotsReserved
    <3>3. QED
      BY <2>1, <3>1, <3>2 DEF IP!RunInv
  <2>4. QED
    BY <2>2, <2>3, SameRunProperties
<1>3. QED
  BY <1>1, <1>2

-----------------------------------------------------------------------------
(* Theorems about what the interpreter does with a program that was        *)
(* accepted.                                                               *)

\* type_check is enough for the interpreter: a program it has accepted never takes from
\* an empty stack, reads below the part of a stack that is its own or jumps out of its
\* block, whatever its loops count, its calls return and the size of the stacks.
THEOREM NeverUnderflowsInBude ==
  ASSUME OddShapes \cap Oddities = {}
  PROVE  Spec => []NeverUnderflows
<1>1. TypedInv => NeverUnderflows
  BY TypedInvHolds
<1>2. QED
  BY <1>1, TypedInductive, PTL

\* Every function of a program that was accepted returns, on every path to a RET, with
\* exactly its results where its parameters were.
THEOREM ReturnsItsResultsInBude ==
  ASSUME OddShapes \cap Oddities = {}
  PROVE  Spec => []ReturnsItsResults
<1>1. TypedInv => ReturnsItsResults
  BY TypedInvHolds
<1>2. QED
  BY <1>1, TypedInductive, PTL

\* The offset that compile_loop_var_symbol computes for a loop variable finds a counter
\* of the activation that runs, never what a call has saved or a counter of the caller.
THEOREM ReadsOwnLoopsInBude ==
  ASSUME OddShapes \cap Oddities = {}
  PROVE  Spec => []ReadsOwnLoops
<1>1. TypedInv => ReadsOwnLoops
  BY TypedInvHolds
<1>2. QED
  BY <1>1, TypedInductive, PTL

\* max_for_loop_level of a function is enough: no activation ever has more slots of the
\* loop stack open, so the frame of the generated code has room for them.
THEOREM LoopSlotsReservedInBude ==
  ASSUME OddShapes \cap Oddities = {}
  PROVE  Spec => []LoopSlotsReserved
<1>1. TypedInv => LoopSlotsReserved
  BY TypedInvHolds
<1>2. QED
  BY <1>1, TypedInductive, PTL

\* A program that was accepted and runs to its end has returned from every call and
\* leaves nothing on any of the four stacks.
THEOREM EndsCleanInBude ==
  ASSUME OddShapes \cap Oddities = {}
  PROVE  Spec => []EndsClean
<1>1. TypedInv => EndsClean
  BY TypedInvHolds
<1>2. QED
  BY <1>1, TypedInductive, PTL

\* The fields of the interpreter hold what they can hold: for_loop_level is never
\* negative, `locals' stays inside the auxiliary stack and no stack outgrows its size.
THEOREM RunTypeOKInBude ==
  ASSUME OddShapes \cap Oddities = {}
  PROVE  Spec => []RunTypeOK
<1>1. TypedInv => RunTypeOK
  BY TypedInvHolds
<1>2. QED
  BY <1>1, TypedInductive, PTL

-----------------------------------------------------------------------------
(* The activations.                                                        *)

\* Activations is the same, seen from Bude and from the proofs about the interpreter.
LEMMA SamePromise ==
  /\ IP!Promised!Init => I!Promised!Init
  /\ [IP!Promised!Next]_(IP!Promised!vars) => [I!Promised!Next]_(I!Promised!vars)
<1> USE DEF I!LoopBase, IP!LoopBase, I!LocalsBase, IP!LocalsBase, I!Activation, IP!Activation,
            I!Promised!Last, IP!Promised!Last, I!Promised!Active, IP!Promised!Active,
            I!Promised!Older, IP!Promised!Older, I!Promised!Enter, IP!Promised!Enter,
            I!Promised!Proceed, IP!Promised!Proceed, I!Promised!CallSize, IP!Promised!CallSize
<1>1. I!Promised!Begin <=> IP!Promised!Begin
  BY Zenon DEF I!Promised!Begin, IP!Promised!Begin
<1>2. I!Promised!CallFrom <=> IP!Promised!CallFrom
  BY Zenon DEF I!Promised!CallFrom, IP!Promised!CallFrom
<1>3. I!Promised!Return <=> IP!Promised!Return
  BY Zenon DEF I!Promised!Return, IP!Promised!Return
<1>4. I!Promised!Within <=> IP!Promised!Within
  BY Zenon DEF I!Promised!Within, IP!Promised!Within
<1>5. I!Promised!Assign <=> IP!Promised!Assign
  BY Zenon DEF I!Promised!Assign, IP!Promised!Assign
<1>6. I!Promised!OpenLoop <=> IP!Promised!OpenLoop
  BY Zenon DEF I!Promised!OpenLoop, IP!Promised!OpenLoop
<1>7. I!Promised!CountOn <=> IP!Promised!CountOn
  BY Zenon DEF I!Promised!CountOn, IP!Promised!CountOn
<1>8. I!Promised!CloseLoop <=> IP!Promised!CloseLoop
  BY Zenon DEF I!Promised!CloseLoop, IP!Promised!CloseLoop
<1>9. UNCHANGED IP!Promised!vars => UNCHANGED I!Promised!vars
  BY Zenon DEF I!Promised!vars, IP!Promised!vars
<1>10. IP!Promised!Init => I!Promised!Init
  BY Zenon DEF I!Promised!Init, IP!Promised!Init
<1> QED
  BY <1>1, <1>2, <1>3, <1>4, <1>5, <1>6, <1>7, <1>8, <1>9, <1>10, Zenon
     DEF I!Promised!Next, IP!Promised!Next

\* Before the program runs, and when it has stopped, nothing is seen of what happens.
LEMMA KeepsApart ==
  ASSUME TypedInv, [Next]_vars
  PROVE  [IP!Promised!Next]_(IP!Promised!vars)
<1>1. CASE Compile \/ TypeCheck \/ Terminated \/ UNCHANGED vars
  <2>1. UNCHANGED running
    BY <1>1 DEF Compile, TypeCheck, Terminated, vars
  <2>2. UNCHANGED <<IP!stacks, IP!registers>>
    BY <2>1 DEF running, IP!stacks, IP!registers
  <2>3. QED
    BY <2>2, ByteBaseOfInterpreter, IP!SeenStays
<1>2. CASE Interpret
  <2>1. check_status = "ok" /\ IP!RunStep
    BY <1>2, InterpreterSteps DEF Interpret
  <2>2. PICK Hs, Ls : IP!RunInv(Hs, Ls)
    BY <2>1, RunningTyped
  <2>3. QED
    BY <2>1, <2>2, ByteBaseOfInterpreter, InterpreterConstants, IP!StepSeen
<1>3. QED
  BY <1>1, <1>2 DEF Next

\* In a program that was accepted the loop stack, the auxiliary stack and the call stack
\* implement activations that cannot touch each other's loop counters and local
\* variables, and a caller goes on after its call with everything it had.
THEOREM KeepsActivationsApartInBude ==
  ASSUME OddShapes \cap Oddities = {}
  PROVE  Spec => KeepsActivationsApart
<1>1. Init => I!Promised!Init
  <2>1. SUFFICES ASSUME Init PROVE I!Promised!Init
    OBVIOUS
  <2>2. IP!RunInit
    BY <2>1, InterpreterStarts DEF Init
  <2>3. QED
    BY <2>2, ByteBaseOfInterpreter, IP!InitSeen, SamePromise
<1>2. TypedInv /\ [Next]_vars => [I!Promised!Next]_(I!Promised!vars)
  BY KeepsApart, SamePromise
<1>3. QED
  BY <1>1, <1>2, TypedInductive, PTL DEF Spec, KeepsActivationsApart, I!KeepsActivationsApart,
     I!Promised!Spec

-----------------------------------------------------------------------------
(* The types of the checker's fields.                                      *)

\* A byte is enough for every opcode of the two codes and for every function's number.
BytesSuffice == T!W_OP_RET < ByteBase /\ MaxPhrases < ByteBase

\* What the compiler leaves is bytes, and so is what the checker makes of it.
FieldsKept == BudeInv /\ CP!BytesInv /\ TP!FieldsInv

LEMMA BytesForBoth ==
  ASSUME BytesSuffice
  PROVE  CP!BytesSuffice /\ TP!WordBytesSuffice
<1>1. T!W_OP_RET = 160 /\ TP!W_OP_RET = 160 /\ CP!T_OP_RET = 117
  BY DEF T!W_OP_RET, TP!W_OP_RET, CP!T_OP_RET
<1>2. ByteBase \in Nat
  BY ByteBaseIsByte DEF CP!ByteBaseAssumption
<1>3. QED
  BY <1>1, <1>2 DEF BytesSuffice, CP!BytesSuffice, TP!WordBytesSuffice

LEMMA FieldsStart ==
  ASSUME Init
  PROVE  FieldsKept
<1>1. CP!Init /\ TP!CheckerInit
  BY CompilerStarts, CheckerStarts DEF Init
<1>2. CP!BytesInv
  BY <1>1, ByteBaseIsByte, CompilerConstants, CP!InitInBytes
<1>3. TP!FieldsInv
  BY <1>1, ByteBaseIsByte, TP!InitHasFields
<1>4. QED
  BY <1>2, <1>3, BudeStarts DEF FieldsKept

LEMMA BytesKept ==
  ASSUME BytesSuffice, BudeInv, CP!BytesInv, CP!Step \/ UNCHANGED CP!vars
  PROVE  CP!BytesInv'
<1>1. [CP!Next]_(CP!vars)
  BY DEF CP!Next
<1>2. CP!BytesSuffice /\ CP!IInv
  BY BytesForBoth DEF BudeInv, CompilerInv
<1>3. QED
  BY <1>1, <1>2, ByteBaseIsByte, CompilerConstants, CP!NextKeepsBytes

\* The checker's fields are left alone, by a step that does not find it at work or that
\* leaves the module alone.
LEMMA FieldsStay ==
  ASSUME TP!FieldsInv, UNCHANGED <<TP!checker, w_code, w_jumps>>,
         check_status # "checking" \/ UNCHANGED t_code
  PROVE  TP!FieldsInv'
<1>1. UNCHANGED <<current, t_ip, tstack, arrived, w_code, w_jumps, check_status>>
  BY DEF TP!checker
<1>2. CASE check_status # "checking"
  BY <1>1, <1>2 DEF TP!FieldsInv
<1>3. CASE UNCHANGED t_code
  BY <1>1, <1>3 DEF TP!FieldsInv
<1>4. QED
  BY <1>2, <1>3

LEMMA FieldsKeep ==
  ASSUME {"empty_else", "long_while", "no_final_ret"} \cap Oddities = {}, BytesSuffice,
         FieldsKept, [Next]_vars
  PROVE  FieldsKept'
<1>1. BudeInv /\ BudeInv'
  BY BudeKeeps DEF FieldsKept
<1>2. CASE Compile
  <2>1. CP!Step /\ UNCHANGED checking
    BY <1>2, CompilerSteps DEF Compile
  <2>2. check_status = "idle" /\ UNCHANGED <<TP!checker, w_code, w_jumps>>
    BY <1>1, <2>1, CompilerRuns DEF BudeInv, checking, TP!checker
  <2>3. QED
    BY <1>1, <2>1, <2>2, BytesKept, FieldsStay DEF FieldsKept
<1>3. CASE TypeCheck
  <2>1. TP!CheckStep /\ status = "compiled" /\ UNCHANGED compiling
    BY <1>3, CheckerSteps DEF TypeCheck
  <2>2. TP!ModuleOK
    BY <1>1, <2>1, ModuleCompiled DEF BudeInv
  <2>3. UNCHANGED TP!input
    BY <1>1, <2>1, <2>2, ByteBaseIsByte, TP!CheckStepKeepsInput DEF BudeInv
  <2>4. UNCHANGED CP!vars
    BY <2>1, <2>3 DEF CP!vars, compiling, TP!input
  <2>5. TP!ModuleInBytes
    BY DEF FieldsKept, CP!BytesInv, TP!ModuleInBytes, CP!ByteValues, TP!ByteValues
  <2>6. TP!FieldsInv'
    BY <1>1, <2>1, <2>2, <2>5, BytesForBoth, ByteBaseIsByte, TP!CheckStepKeepsFields
       DEF FieldsKept, BudeInv
  <2>7. QED
    BY <1>1, <2>4, <2>6, BytesKept DEF FieldsKept
<1>4. CASE Interpret \/ Terminated \/ UNCHANGED vars
  <2>1. UNCHANGED CP!vars /\ UNCHANGED TP!vars
    BY <1>4, InterpreterLeavesModule
       DEF Interpret, Terminated, vars, compiling, checking, CP!vars, TP!vars, TP!input,
           TP!checker
  <2>2. UNCHANGED <<TP!checker, w_code, w_jumps>> /\ UNCHANGED t_code
    BY <2>1 DEF TP!vars, TP!input, TP!checker
  <2>3. QED
    BY <1>1, <2>1, <2>2, BytesKept, FieldsStay DEF FieldsKept
<1>5. QED
  BY <1>2, <1>3, <1>4 DEF Next

\* Before the checker begins its tables say nothing.
LEMMA FieldsTyped ==
  ASSUME FieldsKept
  PROVE  CheckerTypeOK
<1>1. TP!CheckerTypeOK
  <2>1. CASE status = "compiled"
    BY <2>1, ModuleCompiled, ByteBaseIsByte, TP!InvFields DEF FieldsKept, BudeInv
  <2>2. CASE status # "compiled"
    <3>1. check_status = "idle" /\ had_error \in BOOLEAN
      BY <2>2 DEF FieldsKept, BudeInv, TP!CheckInv
    <3>2. QED
      BY <3>1 DEF FieldsKept, TP!FieldsInv, TP!Stacks, TP!CheckerTypeOK
  <2>3. QED
    BY <2>1, <2>2
<1>2. T!Types = TP!Types /\ T!Jumps = TP!Jumps /\ T!NotSaved = TP!NotSaved
  BY DEF T!Types, TP!Types, T!IntType, TP!IntType, T!WordType, TP!WordType, T!ErrorType,
         TP!ErrorType, T!Jumps, TP!Jumps, T!NotSaved, TP!NotSaved
<1>3. QED
  BY <1>1, <1>2, Zenon DEF CheckerTypeOK, T!CheckerTypeOK, TP!CheckerTypeOK

\* The fields of the type checker hold what they can hold, in every program that compile
\* leaves: the function at hand is one of the module, the tables of start_function have
\* an entry for each of its destinations, and what emit_simple, emit_immediate_u8,
\* save_jump and patch_jump write is a string of bytes with a jump table to each.
THEOREM CheckerTypeOKInBude ==
  ASSUME {"empty_else", "long_while", "no_final_ret"} \cap Oddities = {}, BytesSuffice
  PROVE  Spec => []CheckerTypeOK
<1>1. Init => FieldsKept
  BY FieldsStart
<1>2. FieldsKept /\ [Next]_vars => FieldsKept'
  BY FieldsKeep
<1>3. FieldsKept => CheckerTypeOK
  BY FieldsTyped
<1>4. QED
  BY <1>1, <1>2, <1>3, PTL DEF Spec
===============================================================================
