----------------------------- MODULE TypeChecker ------------------------------
(***************************************************************************)
(* The type checker of src/type_checker.c.  It makes one pass over the     *)
(* T-code of each function, keeping a stack of types, and translates it to *)
(* W-code as it goes.  Where control flow joins, at the destinations in    *)
(* the function's jump table, it saves the type stack the first time and   *)
(* compares it afterwards; jumps whose destination is still ahead are      *)
(* emitted with a zero operand and patched on arrival.                     *)
(*                                                                         *)
(* An iteration of the loop of type_check_function is one or two steps:    *)
(* Arrive, if the instruction is a jump destination, and then the          *)
(* instruction.  type_error reports and goes on; only the errors that      *)
(* call exit(1), and failed assertions, stop the checker.                  *)
(*                                                                         *)
(* Values have the types int and word; all occupy one stack word.          *)
(***************************************************************************)
EXTENDS Ir, FiniteSetsExt

CONSTANTS
  BlockInitSize,  \* BLOCK_INIT_SIZE, the first capacity of an ir_block.
  HeapBytes       \* What a byte just past a full code array may hold.

IntType   == "int"
WordType  == "word"
ErrorType == "error"

Types == {IntType, WordType, ErrorType}

\* What is assumed of the constants.  Assumed where they get their values: Bude.
TypeCheckerAssumption ==
  /\ BlockInitSize \in Nat /\ BlockInitSize >= 2
  /\ HeapBytes \subseteq 0..(ByteBase - 1) /\ HeapBytes # {}

VARIABLES
  t_code, t_jumps, sigs, locals,  \* The compiled module: see Compiler.
  check_status,  \* "idle", "checking", "ok", "type_error", "exit" or "assert".
  current,       \* checker->current_function
  t_ip,          \* checker->ip
  tstack,        \* checker->tstack
  had_error,     \* checker->had_error
  arrived,       \* This iteration has dealt with the jump destination.
  saved,         \* states.states: the stacks saved at the destinations,
  wir_dests,     \* where each destination is in the W-code,
  wir_srcs,      \* and the W-code jumps that wait for it to be known.
  w_code,        \* The W-code blocks of the functions ...
  w_jumps        \* ... and their jump tables.

input == <<t_code, t_jumps, sigs, locals>>
checker == <<check_status, current, t_ip, tstack, had_error, arrived,
             saved, wir_dests, wir_srcs>>
vars == <<input, checker, w_code, w_jumps>>

-----------------------------------------------------------------------------

In == t_code[current + 1]
Out == w_code[current + 1]
Jumps == t_jumps[current + 1]
Opcode == At(In, t_ip)

\* A destination no stack has been saved at yet.
NotSaved == <<"none">>
IsSaved(dest) == saved[dest] # NotSaved

\* get_locals_size: every variable is one word.
LocalsSize(f) == Len(locals[f + 1])

\* function->locals.items[index].type.  The table is allocated zeroed, and the
\* type with index zero is TYPE_ERROR.
LocalType(index) ==
  IF index < Len(locals[current + 1]) THEN locals[current + 1][index + 1] ELSE ErrorType

CheckerInit ==
  /\ check_status = "idle"
  /\ current = 0
  /\ t_ip = 0
  /\ tstack = <<>>
  /\ had_error = FALSE
  /\ arrived = FALSE
  /\ saved = <<>>
  /\ wir_dests = <<>>
  /\ wir_srcs = <<>>
  /\ w_code = <<>>
  /\ w_jumps = <<>>

\* Mutant: reset_type_checker_states is not called.
StartFunction_KeepsStates(f) ==
  /\ current' = f
  /\ t_ip' = 0
  /\ tstack' = sigs[f + 1].params
  /\ arrived' = FALSE
  /\ UNCHANGED <<saved, wir_dests, wir_srcs>>

\* start_function and reset_type_checker_states.
StartFunction(f) ==
  /\ current' = f
  /\ t_ip' = 0
  /\ tstack' = sigs[f + 1].params
  /\ arrived' = FALSE
  /\ saved' = [dest \in t_jumps[f + 1] |-> NotSaved]
  /\ wir_dests' = [dest \in t_jumps[f + 1] |-> 0]
  /\ wir_srcs' = [dest \in t_jumps[f + 1] |-> {}]

Start ==
  /\ check_status = "idle"
  /\ check_status' = "checking"
  /\ StartFunction(0)
  /\ w_code' = [f \in DOMAIN t_code |-> <<>>]
  /\ w_jumps' = [f \in DOMAIN t_code |-> {}]
  /\ UNCHANGED <<input, had_error>>

\* Mutant: the counter of type_check is not incremented, and the function is
\* checked again, into an empty block.
NextFunction_SameAgain ==
  /\ check_status = "checking"
  /\ t_ip >= Len(In)
  /\ StartFunction(current)
  /\ w_code' = [w_code EXCEPT ![current + 1] = <<>>]
  /\ w_jumps' = [w_jumps EXCEPT ![current + 1] = {}]
  /\ UNCHANGED <<input, check_status, had_error>>

NextFunction ==
  /\ check_status = "checking"
  /\ t_ip >= Len(In)
  /\ IF current + 1 < Len(t_code)
     THEN StartFunction(current + 1) /\ UNCHANGED check_status
     ELSE /\ check_status' = IF had_error THEN "type_error" ELSE "ok"
          /\ UNCHANGED <<current, t_ip, tstack, arrived, saved, wir_dests, wir_srcs>>
  /\ UNCHANGED <<input, had_error, w_code, w_jumps>>

Abort(how) ==
  /\ check_status' = how
  /\ UNCHANGED <<input, current, t_ip, tstack, had_error, arrived, saved, wir_dests,
                 wir_srcs, w_code, w_jumps>>

-----------------------------------------------------------------------------
(* Jump destinations.                                                      *)

\* Mutant: only the jump recorded last is patched, not the list behind it.
PatchAll_First(block, srcs, dest) ==
  [i \in DOMAIN block |->
     LET src == Max(srcs)
     IN  IF i \in {src + 2, src + 3} THEN U16(dest - src - 1)[i - src - 1] ELSE block[i]]

\* Mutant: the jump is measured from its opcode, not from the byte after it.
PatchAll_FromOpcode(block, srcs, dest) ==
  [i \in DOMAIN block |->
     LET owners == {s \in srcs : i \in {s + 2, s + 3}}
     IN  IF owners = {} THEN block[i]
         ELSE LET src == CHOOSE s \in owners : TRUE
              IN  U16(dest - src)[i - src - 1]]

\* Every jump in `srcs' made to land on `dest'.
PatchAll(block, srcs, dest) ==
  [i \in DOMAIN block |->
     LET owners == {s \in srcs : i \in {s + 2, s + 3}}
     IN  IF owners = {} THEN block[i]
         ELSE LET src == CHOOSE s \in owners : TRUE
              IN  U16(dest - src - 1)[i - src - 1]]

\* The first part of an iteration, at a jump destination.  A destination whose
\* stack is already saved was jumped to from above, and those jumps are patched.
Arrive ==
  LET forward == IsSaved(t_ip)
      srcs    == wir_srcs[t_ip]
  IN  /\ check_status = "checking"
      /\ t_ip < Len(In)
      /\ t_ip \in Jumps
      /\ ~arrived
      /\ IF forward /\ (srcs = {} \/ \E s \in srcs : Len(Out) - s - 1 <= 0)
         THEN Abort("assert")
         ELSE /\ arrived' = TRUE
              /\ wir_dests' = [wir_dests EXCEPT ![t_ip] = Len(Out)]
              /\ w_jumps' = [w_jumps EXCEPT ![current + 1] = @ \cup {Len(Out)}]
              /\ saved' = IF forward THEN saved ELSE [saved EXCEPT ![t_ip] = tstack]
              /\ had_error' = (had_error \/ (forward /\ saved[t_ip] # tstack))
              /\ w_code' = IF forward
                           THEN [w_code EXCEPT ![current + 1] =
                                   PatchAll(@, srcs, Len(@))]
                           ELSE w_code
              /\ UNCHANGED <<input, check_status, current, t_ip, tstack, wir_srcs>>

\* save_jump, called with the stack `stack' left by the instruction: its source
\* is recorded and the stack saved, or compared with the one saved before.
SaveJump(dest, stack) ==
  /\ wir_srcs' = [wir_srcs EXCEPT ![dest] = @ \cup {Len(Out)}]
  /\ saved' = IF IsSaved(dest) THEN saved ELSE [saved EXCEPT ![dest] = stack]

\* Mutant: the stack at the source of a jump is not compared.
Inconsistent_Never(dest, stack) == FALSE

Inconsistent(dest, stack) == IsSaved(dest) /\ saved[dest] # stack

\* Mutant: a jump back is measured from its opcode.
CopiedJump_FromOpcode(op, dest) ==
  <<op>> \o U16(IF read_s16(In, t_ip + 1) < 0 THEN wir_dests[dest] - Len(Out) ELSE 0)

\* copy_jump_instruction: a jump back is emitted complete, a jump forward with a
\* zero operand.
CopiedJump(op, dest) ==
  <<op>> \o U16(IF read_s16(In, t_ip + 1) < 0 THEN wir_dests[dest] - Len(Out) - 1 ELSE 0)

-----------------------------------------------------------------------------
(* Unreachable code.                                                       *)

\* The capacities a block goes through: grow_block adds half.  No program of the
\* runs outgrows the last of these.
Growths == 24

Capacities ==
  LET grown[n \in 0..Growths] == IF n = 0 THEN BlockInitSize ELSE (3 * grown[n - 1]) \div 2
  IN  {grown[n] : n \in 0..Growths}

\* check_unreachable looks at the byte after the last one.  Inside the array that
\* is zero; when the code fills its array the read is out of bounds.
PastBytes == IF Len(In) \in Capacities THEN HeapBytes ELSE {T_OP_NOP}

\* check_unreachable, entered at the last byte `ip' of an instruction that does
\* not fall through, with the stacks `stacks' saved so far.  The offset it leaves
\* in checker->ip, the destination it loads the stack of, or -1, and whether it
\* reports an error.
Unreachable(ip, past, stacks) ==
  LET count == Len(In)
      code(i) == IF i < count THEN At(In, i) ELSE past
      forward_dest(i) == i \in Jumps /\ stacks[i] # NotSaved
      skip == Min({i \in ip..count :
                     i = count \/ code(i + 1) # T_OP_NOP \/ i + 1 \in Jumps})
      last == Min({i \in (skip + 1)..(count + 1) : i + 1 >= count \/ forward_dest(i + 1)})
  IN  CASE skip = count -> [ip |-> count, load |-> -1, error |-> FALSE]
        [] skip < count /\ forward_dest(skip + 1) ->
             [ip |-> skip, load |-> skip + 1, error |-> FALSE]
        [] OTHER ->
             IF At(In, ip) # T_OP_RET /\ code(skip + 1) = T_OP_RET /\ skip + 2 >= count
             THEN [ip |-> skip + 1, load |-> -1, error |-> FALSE]
             ELSE [ip |-> last, load |-> IF last + 1 >= count THEN -1 ELSE last + 1,
                   error |-> TRUE]

\* The rest of an iteration that calls check_unreachable at `ip', with the stack
\* `stack': `stacks' are the saved stacks and `error' what it reported before.
GoOnAfter(ip, stack, stacks, error) ==
  \E past \in PastBytes :
    LET next == Unreachable(ip, past, stacks)
    IN  /\ t_ip' = next.ip + 1
        /\ tstack' = IF next.load = -1 THEN stack ELSE stacks[next.load]
        /\ had_error' = (had_error \/ error \/ next.error)
        /\ arrived' = FALSE

-----------------------------------------------------------------------------
(* The instructions.                                                       *)

Fetch(ops) ==
  /\ check_status = "checking"
  /\ t_ip < Len(In)
  /\ t_ip \in Jumps => arrived
  /\ Opcode \in ops

Emit(bytes) == w_code' = [w_code EXCEPT ![current + 1] = @ \o bytes]

\* The instruction falls through to the next, leaving the stack `stack'.
FallThrough(stack, error) ==
  /\ t_ip' = t_ip + t_instruction_size(Opcode)
  /\ tstack' = stack
  /\ had_error' = (had_error \/ error)
  /\ arrived' = FALSE

\* ts_pop reports an empty stack, and returns TYPE_ERROR.
Underflow == tstack = <<>>

\* Mutant: the type is looked at and left on the stack.
Popped_Kept == tstack

Popped == IF Underflow THEN <<>> ELSE SubSeq(tstack, 1, Len(tstack) - 1)
PoppedType == IF Underflow THEN ErrorType ELSE tstack[Len(tstack)]

Operand8 == At(In, t_ip + 1)

Plain == UNCHANGED <<input, check_status, current, saved, wir_dests, wir_srcs, w_jumps>>

CheckPush ==
  /\ Fetch({T_OP_PUSH8, T_OP_PUSH_INT8})
  /\ FallThrough(Append(tstack, IF Opcode = T_OP_PUSH8 THEN WordType ELSE IntType), FALSE)
  /\ Emit(<<IF Opcode = T_OP_PUSH8 THEN W_OP_PUSH8 ELSE W_OP_PUSH_INT8, Operand8>>)
  /\ Plain

CheckPop ==
  /\ Fetch({T_OP_POP})
  /\ FallThrough(Popped, Underflow)
  /\ Emit(<<W_OP_POP>>)
  /\ Plain

CheckDupe ==
  /\ Fetch({T_OP_DUPE})
  /\ FallThrough(Popped \o <<PoppedType, PoppedType>>, Underflow)
  /\ Emit(<<W_OP_DUPE>>)
  /\ Plain

CheckGetLoopVar ==
  /\ Fetch({T_OP_GET_LOOP_VAR})
  /\ FallThrough(Append(tstack, IntType), FALSE)
  /\ Emit(<<W_OP_GET_LOOP_VAR, Operand8, At(In, t_ip + 2)>>)
  /\ Plain

CheckLocalGet ==
  /\ Fetch({T_OP_LOCAL_GET})
  /\ FallThrough(Append(tstack, LocalType(read_u16(In, t_ip + 1))), FALSE)
  /\ Emit(<<W_OP_LOCAL_GET, Operand8, At(In, t_ip + 2)>>)
  /\ Plain

\* A value of the wrong type ends the program here and now.
CheckLocalSet ==
  /\ Fetch({T_OP_LOCAL_SET})
  /\ IF PoppedType = LocalType(read_u16(In, t_ip + 1))
     THEN /\ FallThrough(Popped, Underflow)
          /\ Emit(<<W_OP_LOCAL_SET, Operand8, At(In, t_ip + 2)>>)
          /\ Plain
     ELSE Abort("exit")

\* check_signature: expect_types empties the stack when it holds too few values.
CheckCall ==
  LET sig    == sigs[Operand8 + 1]
      height == Len(tstack) - Len(sig.params)
      kept   == IF height < 0 THEN <<>> ELSE SubSeq(tstack, 1, height)
  IN  /\ Fetch({T_OP_CALL8})
      /\ FallThrough(kept \o sig.rets, tstack # kept \o sig.params)
      /\ Emit(<<W_OP_CALL8, Operand8>>)
      /\ Plain

\* A jump whose destination is not in the table fails an assertion.
CheckConditionalJump ==
  LET dest == JumpDest(In, t_ip)
      w_op == CASE Opcode = T_OP_JUMP_COND     -> W_OP_JUMP_COND
                [] Opcode = T_OP_JUMP_NCOND    -> W_OP_JUMP_NCOND
                [] Opcode = T_OP_FOR_DEC_START -> W_OP_FOR_DEC_START
                [] Opcode = T_OP_FOR_INC_START -> W_OP_FOR_INC_START
  IN  /\ Fetch({T_OP_JUMP_COND, T_OP_JUMP_NCOND} \cup T_OP_FOR_STARTS)
      /\ IF dest \in Jumps
         THEN /\ SaveJump(dest, Popped)
              /\ FallThrough(Popped, Underflow \/ Inconsistent(dest, Popped))
              /\ Emit(CopiedJump(w_op, dest))
              /\ UNCHANGED <<input, check_status, current, wir_dests, w_jumps>>
         ELSE Abort("assert")

CheckForUpdate ==
  LET dest == JumpDest(In, t_ip)
      w_op == IF Opcode = T_OP_FOR_DEC THEN W_OP_FOR_DEC ELSE W_OP_FOR_INC
  IN  /\ Fetch(T_OP_FOR_UPDATES)
      /\ IF dest \in Jumps
         THEN /\ SaveJump(dest, tstack)
              /\ FallThrough(tstack, Inconsistent(dest, tstack))
              /\ Emit(CopiedJump(w_op, dest))
              /\ UNCHANGED <<input, check_status, current, wir_dests, w_jumps>>
         ELSE Abort("assert")

CheckJump ==
  LET dest == JumpDest(In, t_ip)
  IN  /\ Fetch({T_OP_JUMP})
      /\ IF dest \in Jumps
         THEN /\ SaveJump(dest, tstack)
              /\ GoOnAfter(t_ip + 2, tstack, saved', Inconsistent(dest, tstack))
              /\ Emit(CopiedJump(W_OP_JUMP, dest))
              /\ UNCHANGED <<input, check_status, current, wir_dests, w_jumps>>
         ELSE Abort("assert")

CheckExit ==
  /\ Fetch({T_OP_EXIT})
  /\ GoOnAfter(t_ip, Popped, saved, Underflow \/ PoppedType = ErrorType)
  /\ Emit(<<W_OP_EXIT>>)
  /\ Plain

\* Mutant: check_function_return is not called.
CheckRet_AnyStack ==
  /\ Fetch({T_OP_RET})
  /\ GoOnAfter(t_ip, tstack, saved, FALSE)
  /\ Emit(<<W_OP_RET>>)
  /\ Plain

\* check_function_return: the stack must be the results and nothing else.
CheckRet ==
  /\ Fetch({T_OP_RET})
  /\ GoOnAfter(t_ip, tstack, saved, tstack # sigs[current + 1].rets)
  /\ Emit(<<W_OP_RET>>)
  /\ Plain

CheckStep ==
  \/ Start
  \/ NextFunction
  \/ Arrive
  \/ CheckPush
  \/ CheckPop
  \/ CheckDupe
  \/ CheckGetLoopVar
  \/ CheckLocalGet
  \/ CheckLocalSet
  \/ CheckCall
  \/ CheckConditionalJump
  \/ CheckForUpdate
  \/ CheckJump
  \/ CheckExit
  \/ CheckRet

-----------------------------------------------------------------------------
(* Properties.                                                             *)

\* The checker's fields hold what they can hold: the tables kept per destination
\* have an entry for each destination of the current function.
CheckerTypeOK ==
  /\ check_status \in {"idle", "checking", "ok", "type_error", "exit", "assert"}
  /\ current \in Nat
  /\ t_ip \in Nat
  /\ tstack \in Seq(Types)
  /\ had_error \in BOOLEAN
  /\ arrived \in BOOLEAN
  /\ check_status = "checking" =>
       /\ current < Len(t_code)
       /\ saved \in [Jumps -> Seq(Types) \cup {NotSaved}]
       /\ wir_dests \in [Jumps -> Nat]
       /\ wir_srcs \in [Jumps -> SUBSET Nat]
       /\ Len(w_code) = Len(t_code)
       /\ w_code[current + 1] \in Seq(0..(ByteBase - 1))
  /\ Len(w_jumps) = Len(w_code)

\* No assertion of the type checker fails on code the compiler produced: every
\* jump goes to a destination in the table, and a jump that is patched goes
\* forward.
NoAssertionFails == check_status # "assert"

\* In a program that is accepted, no jump of the W-code is left with the
\* placeholder operand: each lands on the first byte of an instruction of its
\* function, and the jump table that is written for it holds those bytes and no
\* other: what was skipped as unreachable leaves no destination behind.
WordJumpsResolved ==
  check_status = "ok" =>
    \A f \in DOMAIN w_code :
      LET dests == {JumpDest(w_code[f], ip) : ip \in WJumps(w_code[f])}
      IN  /\ dests \subseteq WStarts(w_code[f])
          /\ w_jumps[f] = dests

\* The position of an instruction among those of its block.
Rank(starts, ip) == Cardinality({s \in starts : s < ip})

\* Type checking an accepted program changes the instructions and their lengths
\* but not its control flow: the n-th instruction of the T-code jumps to the m-th
\* exactly if the n-th of the W-code jumps to the m-th.
JumpsMirrored ==
  check_status = "ok" =>
    \A f \in DOMAIN w_code :
      LET t_starts == TStarts(t_code[f])
          w_starts == WStarts(w_code[f])
      IN  {<<Rank(t_starts, ip), Rank(t_starts, JumpDest(t_code[f], ip))>> :
             ip \in TJumps(t_code[f])}
          = {<<Rank(w_starts, ip), Rank(w_starts, JumpDest(w_code[f], ip))>> :
               ip \in WJumps(w_code[f])}

\* Whenever a destination lies ahead of the checker, the jumps recorded for it
\* are exactly the jumps of the W-code so far that still hold the placeholder:
\* skipping unreachable code never leaves a jump without the patch it waits for.
PatchesOwed ==
  check_status = "checking" =>
    LET pending == {dest \in Jumps : dest > t_ip \/ (dest = t_ip /\ ~arrived)}
    IN  {ip \in WJumps(Out) : read_s16(Out, ip + 1) = 0}
          = UNION {wir_srcs[dest] : dest \in pending}
===============================================================================
