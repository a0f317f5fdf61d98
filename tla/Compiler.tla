------------------------------- MODULE Compiler -------------------------------
(***************************************************************************)
(* The single-pass compiler of src/compiler.c: it reads tokens and appends  *)
(* T-code to the function being compiled, leaving placeholder operands for *)
(* forward jumps and patching them when the construct closes.              *)
(*                                                                         *)
(* The recursive descent of the C code is a stack of frames: `ctx' has one *)
(* frame per active call of compile_conditional, compile_for_loop,         *)
(* compile_loop and compile_function, each in the place of its body it has *)
(* reached and holding its local variables.  The token stream is not a     *)
(* variable: every step reads the tokens the action is about (a phrase, one*)
(* token for most actions), so one model holds every program of up to      *)
(* MaxPhrases phrases over the given literals and names.                   *)
(*                                                                         *)
(* Integer literals are the ones that fit one byte, parameters, results    *)
(* and local variables have type int, and the tables (functions, jumps,    *)
(* symbols) are unbounded.                                                 *)
(***************************************************************************)
EXTENDS Ir

CONSTANTS
  Literals,     \* Integer literals a program may contain ...
  LiteralOps,   \* ... and the instructions that push them.
  SimpleOps,    \* Instructions of the simple tokens it may contain.
  LoopNames,    \* Symbols it may use as loop variables, ...
  VarNames,     \* ... as local variables ...
  FuncNames,    \* ... and as functions.  The three may overlap.
  Signatures,   \* Signatures of its functions.
  Constructs,   \* Control constructs it may contain.
  Oddities,     \* Unusual shapes it may contain, see the definitions below.
  MaxPhrases     \* Bound on the length of a program, in phrases.

IntType == "int"

ASSUME CompilerAssumption ==
  /\ Literals \subseteq 0..(ByteBase - 1)
  /\ LiteralOps \subseteq {T_OP_PUSH8, T_OP_PUSH_INT8}
  /\ SimpleOps \subseteq {T_OP_POP, T_OP_DUPE, T_OP_EXIT, T_OP_RET}
  /\ \A sig \in Signatures : sig \in [params : Seq({IntType}), rets : Seq({IntType})]
  /\ Constructs \subseteq {"if", "elif", "else", "while", "for", "func"}
  /\ Oddities \subseteq {"empty_else", "long_while", "func_in_loop", "no_final_ret"}
  /\ MaxPhrases \in Nat

Names == LoopNames \cup VarNames \cup FuncNames

NoName == ""

VARIABLES
  status,          \* "compiling", "returning", "compiled" or "error".
  ctx,             \* The active compile_* calls, outermost first.
  end_addr,        \* What compile_conditional returns, while "returning".
  func_index,      \* compiler->func_index
  for_loop_level,  \* compiler->for_loop_level
  symbols,         \* compiler->symbols, the one flat dictionary.
  t_code,          \* t_code.code of each function, function 0 first,
  t_jumps,         \* its table of jump destinations,
  sigs,            \* its signature
  locals,          \* its local table: the types of its variables,
  max_for_loop_level, \* and the most loop-stack slots it has open at once.
  phrases          \* Number of phrases read so far.

vars == <<status, ctx, end_addr, func_index, for_loop_level, symbols,
          t_code, t_jumps, sigs, locals, max_for_loop_level, phrases>>

tables == <<sigs, locals, max_for_loop_level>>

-----------------------------------------------------------------------------
(* Frames, symbols and blocks.                                             *)

\* A frame holds the local variables of a C call:
\*   func   the function whose block the call took as `block' on entry, and for
\*          compile_function the caller to go back to,
\*   start  the offset of its placeholder jump, or of a `while' condition,
\*   body   the offset its body starts at, or the index of the function defined,
\*   slots  the loop-stack slots of a `for' (loop_level_offset),
\*   name   and its loop variable;
\* and, for the properties, the value of for_loop_level when the call began.
Frame(kind, start, body) ==
  [kind |-> kind, func |-> func_index, start |-> start, body |-> body,
   slots |-> 0, name |-> NoName, level |-> for_loop_level]

ForFrame(name, slots) ==
  [Frame("for_count", 0, 0) EXCEPT !.slots = slots, !.name = name]

Top == ctx[Len(ctx)]
In(kinds) == Len(ctx) > 0 /\ Top.kind \in kinds
Enter(frame) == ctx' = Append(ctx, frame)
Become(kind, start, body) ==
  ctx' = [ctx EXCEPT ![Len(ctx)].kind = kind, ![Len(ctx)].start = start,
                     ![Len(ctx)].body = body]
Leave == ctx' = SubSeq(ctx, 1, Len(ctx) - 1)

None == [kind |-> "none", arg |-> 0, owner |-> 0]
Symbol(kind, arg, owner) == [kind |-> kind, arg |-> arg, owner |-> owner]

Block == t_code[func_index + 1]
Count == Len(Block)

Reading == status = "compiling" /\ phrases < MaxPhrases
NextPhrase == phrases' = phrases + 1

\* emit_*: append an instruction to the block of the current function.
Emit(bytes) == t_code' = [t_code EXCEPT ![func_index + 1] = @ \o bytes]

\* patch_jump writes to the block of the current function, add_jump to the one
\* the open call took on entry.
SetBlock(block) == t_code' = [t_code EXCEPT ![func_index + 1] = block]

\* Mutant: add_jump is not called.
AddJumps_Forgotten(dests) == UNCHANGED t_jumps

AddJumps(dests) == t_jumps' = [t_jumps EXCEPT ![Top.func + 1] = @ \cup dests]

Patched(block, at, jump) == overwrite_s16(block, at + 1, jump)

Fail == /\ status' = "error"
        /\ UNCHANGED <<ctx, end_addr, func_index, for_loop_level, symbols,
                       t_code, t_jumps, tables>>

Init ==
  /\ status = "compiling"
  /\ ctx = <<>>
  /\ end_addr = 0
  /\ func_index = 0
  /\ for_loop_level = 0
  /\ symbols = [n \in Names |-> None]
  /\ t_code = <<<<>>>>
  /\ t_jumps = <<{}>>
  /\ sigs = <<[params |-> <<>>, rets |-> <<>>]>>
  /\ locals = <<<<>>>>
  /\ max_for_loop_level = <<0>>
  /\ phrases = 0

-----------------------------------------------------------------------------
(* Literals, simple tokens and symbols.                                    *)

\* compile_integer: a plain literal is an int, one with the suffix `u' a word.
CompileInteger(op, v) ==
  /\ Reading
  /\ NextPhrase
  /\ Emit(<<op, v>>)
  /\ UNCHANGED <<status, ctx, end_addr, func_index, for_loop_level, symbols,
                 t_jumps, tables>>

CompileSimple(op) ==
  /\ Reading
  /\ NextPhrase
  /\ Emit(<<op>>)
  /\ UNCHANGED <<status, ctx, end_addr, func_index, for_loop_level, symbols,
                 t_jumps, tables>>

\* Mutant: the offset of a loop variable is counted from one.
SymbolCode_FromOne(s) ==
  CASE s.kind = "loop_var" -> <<T_OP_GET_LOOP_VAR>> \o U16(for_loop_level - s.arg + 1)
    [] s.kind = "func"     -> <<T_OP_CALL8, s.arg>>
    [] s.kind = "var"      -> <<T_OP_LOCAL_GET>> \o U16(s.arg)

\* What a symbol compiles to.  compile_loop_var_symbol, compile_function_symbol,
\* compile_var_symbol.
SymbolCode(s) ==
  CASE s.kind = "loop_var" -> <<T_OP_GET_LOOP_VAR>> \o U16(for_loop_level - s.arg)
    [] s.kind = "func"     -> <<T_OP_CALL8, s.arg>>
    [] s.kind = "var"      -> <<T_OP_LOCAL_GET>> \o U16(s.arg)

\* The errors the three report.  A loop variable is refused only when its level
\* is above the current one: whether its own loop is still open is not looked at.
SymbolRefused(s) ==
  \/ s.kind = "none"
  \/ s.kind = "loop_var" /\ s.arg > for_loop_level
  \/ s.kind = "var" /\ s.owner # func_index

CompileSymbol(n) ==
  /\ Reading
  /\ ~SymbolRefused(symbols[n])
  /\ NextPhrase
  /\ Emit(SymbolCode(symbols[n]))
  /\ UNCHANGED <<status, ctx, end_addr, func_index, for_loop_level, symbols,
                 t_jumps, tables>>

RefuseSymbol(n) ==
  /\ Reading
  /\ SymbolRefused(symbols[n])
  /\ NextPhrase
  /\ Fail

\* compile_assignment of a variable.  Unlike compile_var_symbol it does not ask
\* which function owns the variable.
CompileAssignment(n) ==
  /\ Reading
  /\ symbols[n].kind = "var"
  /\ NextPhrase
  /\ Emit(<<T_OP_LOCAL_SET>> \o U16(symbols[n].arg))
  /\ UNCHANGED <<status, ctx, end_addr, func_index, for_loop_level, symbols,
                 t_jumps, tables>>

RefuseAssignment(n) ==
  /\ Reading
  /\ symbols[n].kind # "var"
  /\ NextPhrase
  /\ Fail

\* compile_var with one variable in its block, and add_local.
CompileVar(n) ==
  /\ Reading
  /\ NextPhrase
  /\ locals' = [locals EXCEPT ![func_index + 1] = Append(@, IntType)]
  /\ symbols' = [symbols EXCEPT ![n] =
                   Symbol("var", Len(locals[func_index + 1]), func_index)]
  /\ UNCHANGED <<status, ctx, end_addr, func_index, for_loop_level,
                 t_code, t_jumps, sigs, max_for_loop_level>>

-----------------------------------------------------------------------------
(* compile_conditional.                                                    *)

CompileIf ==
  /\ Reading
  /\ "if" \in Constructs
  /\ NextPhrase
  /\ Enter(Frame("if_cond", 0, 0))
  /\ UNCHANGED <<status, end_addr, func_index, for_loop_level, symbols,
                 t_code, t_jumps, tables>>

ConditionalThen ==
  /\ Reading
  /\ In({"if_cond"})
  /\ NextPhrase
  /\ Emit(<<T_OP_JUMP_NCOND>> \o U16(0))
  /\ Become("then", Count, 0)
  /\ UNCHANGED <<status, end_addr, func_index, for_loop_level, symbols,
                 t_jumps, tables>>

ConditionalElse ==
  /\ Reading
  /\ "else" \in Constructs
  /\ In({"then"})
  /\ NextPhrase
  /\ Emit(<<T_OP_JUMP>> \o U16(0))
  /\ Become("else", Top.start, Count + 3)
  /\ UNCHANGED <<status, end_addr, func_index, for_loop_level, symbols,
                 t_jumps, tables>>

\* Mutant: the rest of the chain is taken to start at the jump before it.
ConditionalElif_AtJump ==
  /\ Reading
  /\ "elif" \in Constructs
  /\ In({"then"})
  /\ NextPhrase
  /\ Emit(<<T_OP_JUMP>> \o U16(0))
  /\ ctx' = Append([ctx EXCEPT ![Len(ctx)].kind = "elif", ![Len(ctx)].body = Count],
                   Frame("if_cond", 0, 0))
  /\ UNCHANGED <<status, end_addr, func_index, for_loop_level, symbols,
                 t_jumps, tables>>

\* `elif': the rest of the chain is a recursive call of compile_conditional.
ConditionalElif ==
  /\ Reading
  /\ "elif" \in Constructs
  /\ In({"then"})
  /\ NextPhrase
  /\ Emit(<<T_OP_JUMP>> \o U16(0))
  /\ ctx' = Append([ctx EXCEPT ![Len(ctx)].kind = "elif", ![Len(ctx)].body = Count + 3],
                   Frame("if_cond", 0, 0))
  /\ UNCHANGED <<status, end_addr, func_index, for_loop_level, symbols,
                 t_jumps, tables>>

\* The end of compile_conditional: patch the jump over the `then' body, and the
\* jump over the `else' body unless that body is empty.
CloseConditional(start, else_start, end) ==
  LET skip      == else_start - start - 1
      jump_addr == else_start - 3
      leap      == end - jump_addr - 1
      jumps     == IF else_start = end THEN {else_start} ELSE {else_start, end}
      skipped   == Patched(Block, start, skip)
  IN  /\ IF InS16(skip) /\ (else_start = end \/ InS16(leap))
         THEN /\ SetBlock(IF else_start = end THEN skipped
                          ELSE Patched(skipped, jump_addr, leap))
              /\ AddJumps(jumps)
              /\ end_addr' = end
              /\ status' = "returning"
              /\ Leave
         ELSE /\ status' = "error"
              /\ UNCHANGED <<ctx, end_addr, t_code, t_jumps>>
      /\ UNCHANGED <<func_index, for_loop_level, symbols, tables>>

\* "empty_else": an `else' with no code between it and `end'.
ConditionalEnd ==
  /\ Reading
  /\ In({"then", "else"})
  /\ NextPhrase
  /\ Top.kind = "else" /\ Top.body = Count => "empty_else" \in Oddities
  /\ CloseConditional(Top.start, IF Top.kind = "then" THEN Count ELSE Top.body, Count)

\* A call of compile_conditional returned to the call that read its `elif' ...
ReturnToElif ==
  /\ status = "returning"
  /\ In({"elif"})
  /\ UNCHANGED phrases
  /\ CloseConditional(Top.start, Top.body, end_addr)

\* ... or to the compile_expr that read `if'.
ReturnFromConditional ==
  /\ status = "returning"
  /\ ~In({"elif"})
  /\ status' = "compiling"
  /\ end_addr' = 0
  /\ UNCHANGED <<ctx, func_index, for_loop_level, symbols, t_code, t_jumps, tables, phrases>>

-----------------------------------------------------------------------------
(* compile_loop.                                                           *)

CompileWhile ==
  /\ Reading
  /\ "while" \in Constructs
  /\ NextPhrase
  /\ Enter(Frame("while_cond", Count, 0))
  /\ UNCHANGED <<status, end_addr, func_index, for_loop_level, symbols,
                 t_code, t_jumps, tables>>

WhileDo ==
  /\ Reading
  /\ In({"while_cond"})
  /\ NextPhrase
  /\ Emit(<<T_OP_JUMP_NCOND>> \o U16(0))
  /\ Become("while_body", Top.start, Count)
  /\ UNCHANGED <<status, end_addr, func_index, for_loop_level, symbols,
                 t_jumps, tables>>

\* Only the exit jump is checked against the width of its operand: the jump back
\* is emitted with a conversion to int16_t.  "long_while": a loop that the one
\* fits and the other does not.
WhileEnd ==
  LET loop_jump == Top.start - Count - 1
      looped    == Block \o <<T_OP_JUMP>> \o U16(loop_jump)
      exit_jump == Len(looped) - Top.body - 1
  IN  /\ Reading
      /\ In({"while_body"})
      /\ ~InS16(loop_jump) /\ InS16(exit_jump) => "long_while" \in Oddities
      /\ NextPhrase
      /\ IF InS16(exit_jump)
         THEN /\ SetBlock(Patched(looped, Top.body, exit_jump))
              /\ AddJumps({Top.start, Len(looped)})
              /\ Leave
              /\ UNCHANGED <<status, end_addr, func_index, for_loop_level, symbols,
                             tables>>
         ELSE Fail

-----------------------------------------------------------------------------
(* compile_for_loop.                                                       *)

\* `for' count `do' without a loop variable.
CompileFor ==
  /\ Reading
  /\ "for" \in Constructs
  /\ NextPhrase
  /\ Enter(ForFrame(NoName, 1))
  /\ UNCHANGED <<status, end_addr, func_index, for_loop_level, symbols,
                 t_code, t_jumps, tables>>

\* `for' n `from' or `for' n `to'.  A counting-up loop keeps its target below
\* its counter, and takes two slots.  The symbol is bound before the count is
\* compiled, and stays bound for ever.
CompileForVar(n, slots) ==
  /\ Reading
  /\ "for" \in Constructs
  /\ NextPhrase
  /\ Enter(ForFrame(n, slots))
  /\ symbols' = [symbols EXCEPT ![n] = Symbol("loop_var", for_loop_level + slots, 0)]
  /\ UNCHANGED <<status, end_addr, func_index, for_loop_level,
                 t_code, t_jumps, tables>>

\* Mutant: the level is not raised.
ForDo_SameLevel ==
  /\ Reading
  /\ In({"for_count"})
  /\ NextPhrase
  /\ Emit(<<IF Top.slots = 1 THEN T_OP_FOR_DEC_START ELSE T_OP_FOR_INC_START>> \o U16(0))
  /\ Become("for_body", Count, Count + 3)
  /\ UNCHANGED <<status, end_addr, func_index, for_loop_level, symbols, t_jumps, tables>>

\* Mutant: the loop goes back to its start instruction.
ForDo_Restarts ==
  /\ Reading
  /\ In({"for_count"})
  /\ NextPhrase
  /\ for_loop_level' = for_loop_level + Top.slots
  /\ Emit(<<IF Top.slots = 1 THEN T_OP_FOR_DEC_START ELSE T_OP_FOR_INC_START>> \o U16(0))
  /\ Become("for_body", Count, Count)
  /\ max_for_loop_level' = [max_for_loop_level EXCEPT ![func_index + 1] =
                               IF for_loop_level' > @ THEN for_loop_level' ELSE @]
  /\ UNCHANGED <<status, end_addr, func_index, symbols, t_jumps, sigs, locals>>

\* Mutant: the maximum counts the slots of one loop, not of those around it.
ForDo_OwnSlots ==
  /\ Reading
  /\ In({"for_count"})
  /\ NextPhrase
  /\ for_loop_level' = for_loop_level + Top.slots
  /\ Emit(<<IF Top.slots = 1 THEN T_OP_FOR_DEC_START ELSE T_OP_FOR_INC_START>> \o U16(0))
  /\ Become("for_body", Count, Count + 3)
  /\ max_for_loop_level' = [max_for_loop_level EXCEPT ![func_index + 1] =
                               IF Top.slots > @ THEN Top.slots ELSE @]
  /\ UNCHANGED <<status, end_addr, func_index, symbols, t_jumps, sigs, locals>>

ForDo ==
  /\ Reading
  /\ In({"for_count"})
  /\ NextPhrase
  /\ for_loop_level' = for_loop_level + Top.slots
  /\ Emit(<<IF Top.slots = 1 THEN T_OP_FOR_DEC_START ELSE T_OP_FOR_INC_START>> \o U16(0))
  /\ Become("for_body", Count, Count + 3)
  /\ max_for_loop_level' = [max_for_loop_level EXCEPT ![func_index + 1] =
                               IF for_loop_level' > @ THEN for_loop_level' ELSE @]
  /\ UNCHANGED <<status, end_addr, func_index, symbols, t_jumps, sigs, locals>>

ForEnd ==
  LET loop_jump == Top.body - Count - 1
      update    == IF Top.slots = 1 THEN T_OP_FOR_DEC ELSE T_OP_FOR_INC
      looped    == Block \o <<update>> \o U16(loop_jump)
      skip_jump == Len(looped) - Top.start - 1
  IN  /\ Reading
      /\ In({"for_body"})
      /\ NextPhrase
      /\ IF InS16(skip_jump)
         THEN /\ SetBlock(Patched(looped, Top.start, skip_jump))
              /\ AddJumps({Top.body, Len(looped)})
              /\ for_loop_level' = for_loop_level - Top.slots
              /\ Leave
              /\ UNCHANGED <<status, end_addr, func_index, symbols, tables>>
         ELSE Fail

-----------------------------------------------------------------------------
(* compile_function.                                                       *)

\* "func_in_loop": a function defined inside the body of a `for'.
\* for_loop_level is not reset for its body.
CompileFunction(n, sig) ==
  /\ Reading
  /\ "func" \in Constructs
  /\ for_loop_level > 0 => "func_in_loop" \in Oddities
  /\ NextPhrase
  /\ symbols' = [symbols EXCEPT ![n] = Symbol("func", Len(t_code), 0)]
  /\ t_code' = Append(t_code, <<>>)
  /\ t_jumps' = Append(t_jumps, {})
  /\ sigs' = Append(sigs, sig)
  /\ locals' = Append(locals, <<>>)
  /\ max_for_loop_level' = Append(max_for_loop_level, 0)
  /\ func_index' = Len(t_code)
  /\ Enter(Frame("func", 0, Len(t_code)))
  /\ UNCHANGED <<status, end_addr, for_loop_level>>

check_last_instruction == Count > 0 /\ Block[Count] = T_OP_RET

\* A RET is emitted unless the last byte is one and no jump lands after it.  The
\* jump table consulted is the enclosing function's, read before this one was
\* entered.
NeedsRet ==
  LET enclosing == Top.func + 1
  IN  ~check_last_instruction \/ Len(t_code[enclosing]) \in t_jumps[enclosing]

\* Control can reach the end of the code without a RET there: the last byte is an
\* operand, or a jump lands after it.
RunsOffEnd ==
  \/ Count \in t_jumps[func_index + 1]
  \/ Count - 1 \notin TStarts(Block)

\* Mutant: leave_function does not go back to the enclosing function.
FunctionEnd_StaysInside ==
  /\ Reading
  /\ In({"func"})
  /\ ~NeedsRet /\ RunsOffEnd => "no_final_ret" \in Oddities
  /\ NextPhrase
  /\ Emit(IF NeedsRet THEN <<T_OP_RET>> ELSE <<>>)
  /\ Leave
  /\ UNCHANGED <<status, end_addr, func_index, for_loop_level, symbols, t_jumps, tables>>

\* "no_final_ret": a function for which the RET that it needs is not emitted.
FunctionEnd ==
  /\ Reading
  /\ In({"func"})
  /\ ~NeedsRet /\ RunsOffEnd => "no_final_ret" \in Oddities
  /\ NextPhrase
  /\ Emit(IF NeedsRet THEN <<T_OP_RET>> ELSE <<>>)
  /\ func_index' = Top.func
  /\ Leave
  /\ UNCHANGED <<status, end_addr, for_loop_level, symbols, t_jumps, tables>>

-----------------------------------------------------------------------------
(* The end of a program, and of a compilation.                             *)

\* compile_expr returned to compile: at the end of the text, or at a token that
\* starts no expression.
Finish ==
  /\ status = "compiling"
  /\ ctx = <<>>
  /\ Emit(<<T_OP_RET>>)
  /\ status' = "compiled"
  /\ UNCHANGED <<ctx, end_addr, func_index, for_loop_level, symbols, t_jumps, tables, phrases>>

\* expect_consume found another token than the one the open construct needs, or
\* the end of the text.
Unexpected ==
  /\ status = "compiling"
  /\ ctx # <<>>
  /\ UNCHANGED phrases
  /\ Fail

Step ==
  \/ \E op \in LiteralOps : \E v \in Literals : CompileInteger(op, v)
  \/ \E op \in SimpleOps : CompileSimple(op)
  \/ \E n \in Names : CompileSymbol(n)
  \/ \E n \in Names : RefuseSymbol(n)
  \/ \E n \in VarNames : CompileVar(n)
  \/ \E n \in VarNames : CompileAssignment(n)
  \/ \E n \in VarNames : RefuseAssignment(n)
  \/ CompileIf
  \/ ConditionalThen
  \/ ConditionalElse
  \/ ConditionalElif
  \/ ConditionalEnd
  \/ ReturnToElif
  \/ ReturnFromConditional
  \/ CompileWhile
  \/ WhileDo
  \/ WhileEnd
  \/ CompileFor
  \/ \E n \in LoopNames : \E slots \in {1, 2} : CompileForVar(n, slots)
  \/ ForDo
  \/ ForEnd
  \/ \E n \in FuncNames : \E sig \in Signatures : CompileFunction(n, sig)
  \/ FunctionEnd
  \/ Finish
  \/ Unexpected

\* The program has compiled, or compile has called exit(1).
Stopped == /\ status \in {"compiled", "error"}
           /\ UNCHANGED vars

Next == Step \/ Stopped

Spec == Init /\ [][Next]_vars

-----------------------------------------------------------------------------
(* Properties.                                                             *)

Statuses == {"compiling", "returning", "compiled", "error"}

Kinds == {"if_cond", "then", "elif", "else", "while_cond", "while_body",
          "for_count", "for_body", "func"}

Frames == [kind : Kinds, func : Nat, start : Nat, body : Nat, slots : {0, 1, 2},
           name : Names \cup {NoName}, level : Nat]

Symbols == [kind : {"none", "loop_var", "func", "var"}, arg : Nat, owner : Nat]

\* The variables hold what the C fields they stand for can hold, the tables of
\* the functions have one entry for each, and the function being compiled is
\* one of them.
TypeOK ==
  /\ status \in Statuses
  /\ ctx \in Seq(Frames)
  /\ end_addr \in Nat
  /\ t_code \in Seq(Seq(Nat))
  /\ func_index \in 0..(Len(t_code) - 1)
  /\ for_loop_level \in Nat
  /\ symbols \in [Names -> Symbols]
  /\ t_jumps \in Seq(SUBSET Nat)
  /\ sigs \in Seq([params : Seq({IntType}), rets : Seq({IntType})])
  /\ locals \in Seq(Seq({IntType}))
  /\ max_for_loop_level \in Seq(Nat)
  /\ {Len(t_jumps), Len(sigs), Len(locals), Len(max_for_loop_level)} = {Len(t_code)}
  /\ phrases \in Nat

\* The loop-stack slots that are live while the code of a frame's inner part is
\* compiled.
SlotsOf(frame) == IF frame.kind = "for_body" THEN frame.slots ELSE 0

\* The function that the code inside a frame belongs to.
FunctionOf(frame) == IF frame.kind = "func" THEN frame.body ELSE frame.func

\* The level the compiler takes loop-variable offsets from is the sum of the
\* slots of the `for' bodies that are open: each construct was opened at the
\* level its surroundings account for, and closing one gives that level back.
LevelsNest ==
  /\ \A i \in 1..Len(ctx) :
       ctx[i].level = IF i = 1 THEN 0 ELSE ctx[i - 1].level + SlotsOf(ctx[i - 1])
  /\ for_loop_level = IF ctx = <<>> THEN 0 ELSE Top.level + SlotsOf(Top)

\* Code is appended to the function whose body is open, and the block an open
\* construct will patch and record its jumps in is the one its code went to:
\* returning from a nested function definition always reinstates the function
\* that was being compiled before.  All of them are in the table.
FunctionsNest ==
  /\ \A i \in 1..Len(ctx) :
       /\ ctx[i].func = IF i = 1 THEN 0 ELSE FunctionOf(ctx[i - 1])
       /\ {ctx[i].func, FunctionOf(ctx[i])} \subseteq 0..(Len(t_code) - 1)
  /\ func_index = IF ctx = <<>> THEN 0 ELSE FunctionOf(Top)

\* The jump instructions an open construct has yet to patch.
Owed(frame) ==
  CASE frame.kind = "then" -> {frame.start}
    [] frame.kind \in {"else", "elif"} -> {frame.start, frame.body - 3}
    [] frame.kind = "while_body" -> {frame.body}
    [] frame.kind = "for_body" -> {frame.start}
    [] OTHER -> {}

\* At every moment the jumps whose operand is still the placeholder are exactly
\* those an open construct of the same function owes: none is forgotten when a
\* construct closes, at whatever depth of `elif' and of nested definitions, and
\* none is patched before its destination is known.
PlaceholdersOwed ==
  status # "error" =>
    \A f \in DOMAIN t_code :
      {ip \in TJumps(t_code[f]) : read_s16(t_code[f], ip + 1) = 0}
        = UNION {Owed(ctx[i]) : i \in {j \in DOMAIN ctx : ctx[j].func = f - 1}}

\* In a compiled program every jump lands on the first byte of an instruction of
\* its function, and the table of jump destinations, on which the type checker
\* relies to merge control flow, holds those bytes and no other.
JumpsResolved ==
  status = "compiled" =>
    \A f \in DOMAIN t_code :
      LET dests == {JumpDest(t_code[f], ip) : ip \in TJumps(t_code[f])}
      IN  /\ dests \subseteq TStarts(t_code[f])
          /\ t_jumps[f] = dests

\* The body of a counted loop is entered only through its FOR_*_START and left
\* only through its FOR_* instruction: no other jump crosses either of them.
\* This is what keeps the interpreter's loop stack in step with the nesting the
\* compiler took the loop-variable offsets from.
LoopBodiesClosed ==
  status = "compiled" =>
    \A f \in DOMAIN t_code :
      LET block == t_code[f]
          jumps == TJumps(block)
      IN  \A s \in {ip \in jumps : At(block, ip) \in T_OP_FOR_STARTS} :
            LET exit   == JumpDest(block, s)
                update == exit - 3
            IN  /\ update \in jumps
                /\ JumpDest(block, update) = s + 3
                /\ At(block, update) = At(block, s) + 1
                /\ \A j \in jumps \ {s, update} :
                     IF j \in (s + 3)..(update - 1)
                     THEN JumpDest(block, j) \in (s + 3)..update
                     ELSE JumpDest(block, j) \notin (s + 1)..(exit - 1)

===============================================================================
