----------------------------- MODULE Interpreter ------------------------------
(***************************************************************************)
(* The interpreter of src/interpreter.c on the stacks of src/stack.c: it    *)
(* executes the W-code of function 0 and of the functions it calls.        *)
(*                                                                         *)
(* What a function activation owns is spread over three stacks: its return *)
(* address on the call stack; its loop counters on the loop stack, above   *)
(* the caller's for_loop_level; and its local variables on the auxiliary   *)
(* stack, above the caller's `locals' pointer.                             *)
(*                                                                         *)
(* The C program leaves ip on the last byte of an instruction, or on the   *)
(* byte before a jump's destination, and increments it in the loop; a step *)
(* here does both.  The first error of a stack operation calls exit(1).    *)
(***************************************************************************)
EXTENDS Ir, SequencesExt

CONSTANTS
  StackSize,  \* STACK_SIZE, the number of elements of each stack.
  WordBase,   \* Number of values of a stack word.
  Junk        \* What an element of a stack no one has written yet may hold.

Words == 0..(WordBase - 1)

\* What is assumed of the constants.  Assumed where they get their values: Bude.
InterpreterAssumption ==
  /\ StackSize \in Nat /\ StackSize >= 2
  /\ WordBase \in Nat /\ WordBase >= ByteBase /\ WordBase > StackSize
  /\ Junk \subseteq Words /\ Junk # {}

VARIABLES
  w_code, sigs, locals,  \* The module: see Compiler and TypeChecker.
  run_status,       \* "idle", "running", "done", "exited", or how it failed.
  main_stack,       \* interpreter->main_stack, bottom first,
  auxiliary_stack,  \* ->auxiliary_stack,
  loop_stack,       \* ->loop_stack
  call_stack,       \* and ->call_stack.
  locals_base,      \* ->locals, as an index into the auxiliary stack
  current_function, \* ->current_function
  ip,               \* ->ip
  for_loop_level    \* ->for_loop_level

input == <<w_code, sigs, locals>>
stacks == <<main_stack, auxiliary_stack, loop_stack, call_stack>>
registers == <<locals_base, current_function, ip, for_loop_level>>
vars == <<input, run_status, stacks, registers>>

-----------------------------------------------------------------------------

Code == w_code[current_function + 1]
Opcode == At(Code, ip)

\* locals.items[index].size and get_locals_size: a variable is one word, and an
\* item of the table that no variable has is all zero.
LocalSize(index) == IF index < Len(locals[current_function + 1]) THEN 1 ELSE 0
LocalsSize(f) == Len(locals[f + 1])

\* One of n pushes finds the last element but one taken.  push compares for
\* equality: on a stack that reserve has filled it does not notice.
PushFails(stack, n) == \E i \in 0..(n - 1) : Len(stack) + i = StackSize - 1

Pop1(stack) == SubSeq(stack, 1, Len(stack) - 1)

Stop(how) == run_status' = how /\ UNCHANGED <<input, stacks, registers>>

Fetch(ops) == run_status = "running" /\ ip < Len(Code) /\ Opcode \in ops

RunInit ==
  /\ run_status = "idle"
  /\ main_stack = <<>>
  /\ auxiliary_stack = <<>>
  /\ loop_stack = <<>>
  /\ call_stack = <<>>
  /\ locals_base = 0
  /\ current_function = 0
  /\ ip = 0
  /\ for_loop_level = 0

\* call, with `next' the value of ip that is saved, which is incremented when it
\* is restored.  `height' is not in the code: the properties look at it.
Call(f, next) ==
  CASE \/ PushFails(call_stack, 1)
       \/ PushFails(loop_stack, 1)
       \/ PushFails(auxiliary_stack, 1) -> Stop("overflow")
    [] Len(auxiliary_stack) = StackSize -> Stop("out_of_bounds")
    [] Len(auxiliary_stack) + 1 + LocalsSize(f) > StackSize -> Stop("overflow")
    [] OTHER ->
         /\ run_status' = "running"
         /\ call_stack' = Append(call_stack, [func |-> current_function, ip |-> next,
                                              height |-> Len(main_stack)])
         /\ loop_stack' = Append(loop_stack, for_loop_level)
         /\ for_loop_level' = 0
         /\ current_function' = f
         /\ \E reserved \in [1..LocalsSize(f) -> Junk] :
              auxiliary_stack' = Append(auxiliary_stack, locals_base) \o reserved
         /\ locals_base' = Len(auxiliary_stack) + 1
         /\ ip' = 0
         /\ UNCHANGED <<input, main_stack>>

\* interpret, up to its loop, and the end of the loop.
RunStart ==
  /\ run_status = "idle"
  /\ Call(0, Len(w_code[1]))

RunEnd ==
  /\ run_status = "running"
  /\ ip >= Len(Code)
  /\ Stop("done")

-----------------------------------------------------------------------------
(* The instructions.                                                       *)

Advance == ip' = ip + get_w_instruction_size(Opcode)

\* jump.
Jumped == JumpDest(Code, ip)
JumpAllowed == 0 <= Jumped /\ Jumped <= Len(Code)

\* The instruction leaves the main stack `stack' and touches nothing else.
OnMain(stack) ==
  /\ main_stack' = stack
  /\ Advance
  /\ UNCHANGED <<input, run_status, auxiliary_stack, loop_stack, call_stack, locals_base,
                 current_function, for_loop_level>>

\* Mutant: the byte is not converted to a stack word.
SignExtend_Narrow(byte) == IF byte < ByteBase \div 2 THEN byte ELSE byte - ByteBase

SignExtend(byte) == IF byte < ByteBase \div 2 THEN byte ELSE WordBase - ByteBase + byte

RunPush ==
  /\ Fetch({W_OP_PUSH8, W_OP_PUSH_INT8})
  /\ IF PushFails(main_stack, 1) THEN Stop("overflow")
     ELSE LET byte == At(Code, ip + 1)
          IN  OnMain(Append(main_stack, IF Opcode = W_OP_PUSH8 THEN byte ELSE SignExtend(byte)))

RunPop ==
  /\ Fetch({W_OP_POP})
  /\ IF main_stack = <<>> THEN Stop("underflow") ELSE OnMain(Pop1(main_stack))

RunDupe ==
  /\ Fetch({W_OP_DUPE})
  /\ CASE main_stack = <<>> -> Stop("underflow")
       [] PushFails(Pop1(main_stack), 2) -> Stop("overflow")
       [] OTHER -> OnMain(Append(main_stack, Last(main_stack)))

RunExit ==
  /\ Fetch({W_OP_EXIT})
  /\ Stop(IF main_stack = <<>> THEN "underflow" ELSE "exited")

RunJump ==
  /\ Fetch({W_OP_JUMP})
  /\ IF JumpAllowed
     THEN ip' = Jumped /\ UNCHANGED <<input, run_status, stacks, locals_base,
                                      current_function, for_loop_level>>
     ELSE Stop("assert")

RunConditionalJump ==
  /\ Fetch({W_OP_JUMP_COND, W_OP_JUMP_NCOND})
  /\ IF main_stack = <<>> THEN Stop("underflow")
     ELSE IF (Last(main_stack) # 0) # (Opcode = W_OP_JUMP_COND)
     THEN OnMain(Pop1(main_stack))
     ELSE IF JumpAllowed
     THEN /\ main_stack' = Pop1(main_stack)
          /\ ip' = Jumped
          /\ UNCHANGED <<input, run_status, auxiliary_stack, loop_stack, call_stack,
                         locals_base, current_function, for_loop_level>>
     ELSE Stop("assert")

\* The instruction leaves the loop stack `stack' and the level `level', and jumps
\* or goes on.
OnLoops(main, stack, level, jumps) ==
  IF jumps /\ ~JumpAllowed THEN Stop("assert")
  ELSE /\ main_stack' = main
       /\ loop_stack' = stack
       /\ for_loop_level' = level
       /\ IF jumps THEN ip' = Jumped ELSE Advance
       /\ UNCHANGED <<input, run_status, auxiliary_stack, call_stack, locals_base,
                      current_function>>

\* A counting-down loop keeps its counter on the loop stack, a counting-up loop
\* its target and then its counter.
RunForStart ==
  LET count == Last(main_stack)
      slots == IF Opcode = W_OP_FOR_DEC_START THEN <<count>> ELSE <<count, 0>>
  IN  /\ Fetch(W_OP_FOR_STARTS)
      /\ CASE main_stack = <<>> -> Stop("underflow")
           [] main_stack # <<>> /\ count = 0 ->
                OnLoops(Pop1(main_stack), loop_stack, for_loop_level, TRUE)
           [] main_stack # <<>> /\ count > 0 /\ PushFails(loop_stack, Len(slots)) ->
                Stop("overflow")
           [] OTHER -> OnLoops(Pop1(main_stack), loop_stack \o slots,
                               for_loop_level + Len(slots), FALSE)

RunForDec ==
  LET counter == (Last(loop_stack) - 1) % WordBase
  IN  /\ Fetch({W_OP_FOR_DEC})
      /\ CASE loop_stack = <<>> -> Stop("underflow")
           [] loop_stack # <<>> /\ counter > 0 ->
                OnLoops(main_stack, Append(Pop1(loop_stack), counter), for_loop_level, TRUE)
           [] OTHER -> OnLoops(main_stack, Pop1(loop_stack), for_loop_level - 1, FALSE)

\* Mutant: the counter is not incremented.
RunForInc_Stuck ==
  LET target == loop_stack[Len(loop_stack) - 1]
  IN  /\ Fetch({W_OP_FOR_INC})
      /\ CASE Len(loop_stack) < 2 -> Stop("underflow")
           [] Len(loop_stack) >= 2 /\ Last(loop_stack) < target ->
                OnLoops(main_stack, loop_stack, for_loop_level, TRUE)
           [] OTHER ->
                OnLoops(main_stack, Pop1(Pop1(loop_stack)), for_loop_level - 2, FALSE)

RunForInc ==
  LET counter == (Last(loop_stack) + 1) % WordBase
      target  == loop_stack[Len(loop_stack) - 1]
  IN  /\ Fetch({W_OP_FOR_INC})
      /\ CASE Len(loop_stack) < 2 -> Stop("underflow")
           [] Len(loop_stack) >= 2 /\ counter < target ->
                OnLoops(main_stack, Append(Pop1(loop_stack), counter), for_loop_level, TRUE)
           [] OTHER ->
                OnLoops(main_stack, Pop1(Pop1(loop_stack)), for_loop_level - 2, FALSE)

RunGetLoopVar ==
  LET offset == read_u16(Code, ip + 1)
  IN  /\ Fetch({W_OP_GET_LOOP_VAR})
      /\ CASE Len(loop_stack) <= offset -> Stop("underflow")
           [] Len(loop_stack) > offset /\ PushFails(main_stack, 1) -> Stop("overflow")
           [] OTHER -> OnMain(Append(main_stack, loop_stack[Len(loop_stack) - offset]))

\* push_all and pop_all of the words of the variable.
RunLocalGet ==
  LET index == read_u16(Code, ip + 1)
      first == locals_base + index + 1
  IN  /\ Fetch({W_OP_LOCAL_GET})
      /\ IF StackSize - Len(main_stack) <= LocalSize(index) THEN Stop("overflow")
         ELSE OnMain(main_stack \o
                       SubSeq(auxiliary_stack, first, first + LocalSize(index) - 1))

\* Mutant: the variables are counted from the word below the first.
RunLocalSet_OneBelow ==
  LET index == read_u16(Code, ip + 1)
  IN  /\ Fetch({W_OP_LOCAL_SET})
      /\ IF Len(main_stack) < LocalSize(index) THEN Stop("underflow")
         ELSE /\ auxiliary_stack' = IF LocalSize(index) = 0 THEN auxiliary_stack
                                    ELSE [auxiliary_stack EXCEPT
                                            ![locals_base + index] = Last(main_stack)]
              /\ main_stack' = SubSeq(main_stack, 1, Len(main_stack) - LocalSize(index))
              /\ Advance
              /\ UNCHANGED <<input, run_status, loop_stack, call_stack, locals_base,
                             current_function, for_loop_level>>

RunLocalSet ==
  LET index == read_u16(Code, ip + 1)
  IN  /\ Fetch({W_OP_LOCAL_SET})
      /\ IF Len(main_stack) < LocalSize(index) THEN Stop("underflow")
         ELSE /\ auxiliary_stack' = IF LocalSize(index) = 0 THEN auxiliary_stack
                                    ELSE [auxiliary_stack EXCEPT
                                            ![locals_base + index + 1] = Last(main_stack)]
              /\ main_stack' = SubSeq(main_stack, 1, Len(main_stack) - LocalSize(index))
              /\ Advance
              /\ UNCHANGED <<input, run_status, loop_stack, call_stack, locals_base,
                             current_function, for_loop_level>>

RunCall ==
  /\ Fetch({W_OP_CALL8})
  /\ Call(At(Code, ip + 1), ip + 1)

\* Mutant: the loops that are open are not popped.
RunRet_LeavesLoops ==
  LET caller == Last(call_stack)
  IN  /\ Fetch({W_OP_RET})
      /\ IF locals_base = 0 \/ loop_stack = <<>> \/ call_stack = <<>> THEN Stop("underflow")
         ELSE /\ auxiliary_stack' = SubSeq(auxiliary_stack, 1, locals_base - 1)
              /\ locals_base' = auxiliary_stack[locals_base]
              /\ loop_stack' = Pop1(loop_stack)
              /\ for_loop_level' = Last(loop_stack)
              /\ call_stack' = Pop1(call_stack)
              /\ current_function' = caller.func
              /\ ip' = caller.ip + 1
              /\ UNCHANGED <<input, run_status, main_stack>>

\* ret: restore, popn and the pops of the three stacks.
RunRet ==
  LET caller == Last(call_stack)
  IN  /\ Fetch({W_OP_RET})
      /\ CASE locals_base > Len(auxiliary_stack) \/ for_loop_level < 0 -> Stop("assert")
           [] locals_base <= Len(auxiliary_stack) /\ for_loop_level >= 0 /\
              (locals_base = 0 \/ Len(loop_stack) <= for_loop_level \/ call_stack = <<>>) ->
                Stop("underflow")
           [] OTHER ->
                /\ auxiliary_stack' = SubSeq(auxiliary_stack, 1, locals_base - 1)
                /\ locals_base' = auxiliary_stack[locals_base]
                /\ loop_stack' = SubSeq(loop_stack, 1, Len(loop_stack) - for_loop_level - 1)
                /\ for_loop_level' = loop_stack[Len(loop_stack) - for_loop_level]
                /\ call_stack' = Pop1(call_stack)
                /\ current_function' = caller.func
                /\ ip' = caller.ip + 1
                /\ UNCHANGED <<input, run_status, main_stack>>

RunStep ==
  \/ RunStart
  \/ RunEnd
  \/ RunPush
  \/ RunPop
  \/ RunDupe
  \/ RunExit
  \/ RunJump
  \/ RunConditionalJump
  \/ RunForStart
  \/ RunForDec
  \/ RunForInc
  \/ RunGetLoopVar
  \/ RunLocalGet
  \/ RunLocalSet
  \/ RunCall
  \/ RunRet

-----------------------------------------------------------------------------
(* The activations the four stacks hold.                                   *)

\* Where the part of activation n begins on the loop stack, and on the auxiliary
\* stack: the index of the word the caller saved there.  Each is found from the
\* part above it, from for_loop_level and locals down.
LoopBase ==
  LET depth == Len(call_stack)
      base[k \in 0..(depth - 1)] ==
        IF k = 0 THEN Len(loop_stack) - for_loop_level
        ELSE base[k - 1] - 1 - loop_stack[base[k - 1]]
  IN  [n \in 1..depth |-> base[depth - n]]

LocalsBase ==
  LET depth == Len(call_stack)
      base[k \in 0..(depth - 1)] ==
        IF k = 0 THEN locals_base ELSE auxiliary_stack[base[k - 1]]
  IN  [n \in 1..depth |-> base[depth - n]]

Activation(n) ==
  LET top     == n = Len(call_stack)
      loops   == SubSeq(loop_stack, LoopBase[n] + 1,
                        IF top THEN Len(loop_stack) ELSE LoopBase[n + 1] - 1)
      its_own == SubSeq(auxiliary_stack, LocalsBase[n] + 1,
                        IF top THEN Len(auxiliary_stack) ELSE LocalsBase[n + 1] - 1)
  IN  [func   |-> IF top THEN current_function ELSE call_stack[n + 1].func,
       back   |-> [func |-> call_stack[n].func, ip |-> call_stack[n].ip + 1],
       loops  |-> loops,
       locals |-> its_own]

Promised == INSTANCE Activations
  WITH frames <- [n \in 1..Len(call_stack) |-> Activation(n)],
       here   <- [func |-> current_function, ip |-> ip]

-----------------------------------------------------------------------------
(* Properties.                                                             *)

\* The fields of the interpreter hold what they can hold.
RunTypeOK ==
  /\ run_status \in {"idle", "running", "done", "exited", "overflow", "underflow",
                     "assert", "out_of_bounds"}
  /\ main_stack \in Seq(Words)
  /\ auxiliary_stack \in Seq(Words)
  /\ loop_stack \in Seq(Words)
  /\ call_stack \in Seq([func : Nat, ip : Nat, height : Nat])
  /\ locals_base \in 0..Len(auxiliary_stack)
  /\ current_function \in Nat
  /\ ip \in Nat
  /\ for_loop_level \in Nat
  /\ \A height \in {Len(main_stack), Len(auxiliary_stack), Len(loop_stack), Len(call_stack)} :
       height <= StackSize

\* An accepted program never pops or reads below the bottom of a stack, and never
\* jumps out of its block: the type checker has counted what each path leaves.
NeverUnderflows == run_status \notin {"underflow", "assert"}

\* A loop variable is read from the counters of the activation that runs: the
\* offset the compiler worked out from its own nesting never reaches the level
\* the caller saved, or the counters of the caller.
ReadsOwnLoops ==
  Fetch({W_OP_GET_LOOP_VAR}) => read_u16(Code, ip + 1) < for_loop_level

\* Where a function returns, the main stack is as high as the caller was told:
\* its parameters have been taken and its results left, on every path to the RET,
\* whatever the function called and however often its loops went round.
ReturnsItsResults ==
  Fetch({W_OP_RET}) =>
    LET sig == sigs[current_function + 1]
    IN  Len(main_stack) = Last(call_stack).height - Len(sig.params) + Len(sig.rets)

\* A program that runs to its end has returned from every call, and has left
\* nothing on any stack.
EndsClean ==
  run_status = "done" =>
    call_stack = <<>> /\ loop_stack = <<>> /\ auxiliary_stack = <<>> /\ main_stack = <<>>

\* The interpreter's three side stacks implement activations that cannot touch
\* each other's loop counters and local variables.
KeepsActivationsApart == Promised!Spec

===============================================================================
