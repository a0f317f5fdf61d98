------------------------- MODULE InterpreterProofs --------------------------
(***************************************************************************)
(* Proofs about the interpreter of src/interpreter.c, for every module     *)
(* whose W-code can be typed: there are a height of the main stack and a   *)
(* number of open loop slots for each instruction of a function, on which  *)
(* all the ways to the instruction agree.  Such a program never takes from *)
(* an empty stack, returns what it promised and ends with nothing left.    *)
(*                                                                         *)
(* The invariant follows the activations on the four stacks.  Where the    *)
(* part of activation n begins on the loop stack and on the auxiliary stack*)
(* is given by two functions, loops and frames, which a call extends and   *)
(* a return cuts.                                                          *)
(*                                                                         *)
(* From the same invariant the last part shows the refinement: the bases   *)
(* that the properties find from the tops down, with LoopBase and          *)
(* LocalsBase, are loops and frames, so the activations Activations sees   *)
(* are the parts of the stacks between them, and each instruction changes  *)
(* those parts as one of its actions says.                                 *)
(***************************************************************************)
EXTENDS Interpreter, IrProofs

-----------------------------------------------------------------------------
(* Typings.                                                                *)

Body(f) == w_code[f + 1]

\* The words an instruction of function f takes from the main stack, those it
\* leaves there, and the loop slots it opens when it does not jump.
Takes(f, at) ==
  LET op == At(Body(f), at)
  IN  CASE op \in {W_OP_POP, W_OP_DUPE, W_OP_EXIT, W_OP_JUMP_COND, W_OP_JUMP_NCOND,
                   W_OP_LOCAL_SET} \cup W_OP_FOR_STARTS -> 1
        [] op = W_OP_CALL8 -> Len(sigs[At(Body(f), at + 1) + 1].params)
        [] OTHER -> 0

Leaves(f, at) ==
  LET op == At(Body(f), at)
  IN  CASE op \in {W_OP_PUSH8, W_OP_PUSH_INT8, W_OP_GET_LOOP_VAR, W_OP_LOCAL_GET} -> 1
        [] op = W_OP_DUPE -> 2
        [] op = W_OP_CALL8 -> Len(sigs[At(Body(f), at + 1) + 1].rets)
        [] OTHER -> 0

Opens(op) ==
  CASE op = W_OP_FOR_DEC_START -> 1
    [] op = W_OP_FOR_INC_START -> 2
    [] op = W_OP_FOR_DEC -> -1
    [] op = W_OP_FOR_INC -> -2
    [] OTHER -> 0

Instructions ==
  {W_OP_PUSH8, W_OP_PUSH_INT8, W_OP_POP, W_OP_DUPE, W_OP_EXIT, W_OP_GET_LOOP_VAR, W_OP_JUMP,
   W_OP_JUMP_COND, W_OP_JUMP_NCOND, W_OP_LOCAL_GET, W_OP_LOCAL_SET, W_OP_CALL8, W_OP_RET}
    \cup W_OP_FOR_STARTS \cup W_OP_FOR_UPDATES

\* The operand of the instruction is one it can have where L slots are open.
OperandOK(f, at, slots) ==
  LET op == At(Body(f), at)
      wide == read_u16(Body(f), at + 1)
      narrow == At(Body(f), at + 1)
  IN  /\ op \in {W_OP_PUSH8, W_OP_PUSH_INT8} => narrow \in 0..(ByteBase - 1)
      /\ op = W_OP_GET_LOOP_VAR => wide \in 0..(slots - 1)
      /\ op \in {W_OP_LOCAL_GET, W_OP_LOCAL_SET} => wide \in 0..(LocalsSize(f) - 1)
      /\ op = W_OP_CALL8 => narrow \in 0..(Len(w_code) - 1)

\* The instruction at `at' of function f has what it takes, and the instructions
\* that can come next agree with what it leaves: H[at] is the height of the main
\* stack, without what the callers have there, and L[at] the number of open slots.
TypedAt(f, at, H, L) ==
  LET op == At(Body(f), at)
      next == at + get_w_instruction_size(op)
      dest == JumpDest(Body(f), at)
  IN  /\ op \in Instructions
      /\ H[at] >= Takes(f, at)
      /\ L[at] + Opens(op) >= 0
      /\ OperandOK(f, at, L[at])
      /\ op \notin {W_OP_JUMP, W_OP_RET, W_OP_EXIT} =>
           /\ next \in WStarts(Body(f))
           /\ H[next] = H[at] - Takes(f, at) + Leaves(f, at)
           /\ L[next] = L[at] + Opens(op)
      /\ is_w_jump(op) =>
           /\ dest \in WStarts(Body(f))
           /\ H[dest] = H[at] - Takes(f, at)
           /\ L[dest] = L[at]
      /\ op = W_OP_RET => H[at] = Len(sigs[f + 1].rets)

Functions == 0..(Len(w_code) - 1)

\* Hs and Ls are a typing of the module: a function is entered with its parameters
\* on the stack and no loop open.
Typing(Hs, Ls) ==
  /\ w_code \in Seq(Seq(Nat)) /\ w_code # <<>>
  /\ Len(sigs) = Len(w_code) /\ Len(locals) = Len(w_code)
  /\ Hs \in [Functions -> [Nat -> Nat]] /\ Ls \in [Functions -> [Nat -> Nat]]
  /\ sigs[1].params = <<>> /\ sigs[1].rets = <<>>
  /\ \A f \in Functions :
       /\ Len(sigs[f + 1].params) \in Nat /\ Len(sigs[f + 1].rets) \in Nat
       /\ Len(locals[f + 1]) \in Nat
       /\ Body(f) # <<>>
       /\ Hs[f][0] = Len(sigs[f + 1].params)
       /\ Ls[f][0] = 0
       /\ \A at \in WStarts(Body(f)) : TypedAt(f, at, Hs[f], Ls[f])

ModuleTyped == \E Hs, Ls : Typing(Hs, Ls)

-----------------------------------------------------------------------------
(* The activations.                                                        *)

Depth == Len(call_stack)

\* The function of activation n, where it goes on, ...
FuncAt(n) == IF n = Depth THEN current_function ELSE call_stack[n + 1].func
IpAt(n) == IF n = Depth THEN ip ELSE call_stack[n + 1].ip + 1

\* ... the height of the main stack when it does, ...
HeightAt(n) ==
  IF n = Depth THEN Len(main_stack)
  ELSE call_stack[n + 1].height - Len(sigs[FuncAt(n + 1) + 1].params)
         + Len(sigs[FuncAt(n + 1) + 1].rets)

\* ... its open loop slots, and where its part of the two side stacks ends, if the
\* parts begin at `loops' and `frames'.
LevelAt(n, loops) == IF n = Depth THEN for_loop_level ELSE loop_stack[loops[n + 1]]
LoopEnd(n, loops) == IF n = Depth THEN Len(loop_stack) ELSE loops[n + 1] - 1
FrameEnd(n, frames) == IF n = Depth THEN Len(auxiliary_stack) ELSE frames[n + 1] - 1

\* Activation n is in a state its typing allows, and its parts of the side stacks
\* have the size that belongs to it.
WellAt(n, Hs, Ls, loops, frames) ==
  LET f == FuncAt(n)
  IN  /\ f \in Functions
      /\ IpAt(n) \in WStarts(Body(f))
      /\ call_stack[n].height >= Len(sigs[f + 1].params)
      /\ HeightAt(n) = call_stack[n].height - Len(sigs[f + 1].params) + Hs[f][IpAt(n)]
      /\ LevelAt(n, loops) = Ls[f][IpAt(n)]
      /\ loops[n] + LevelAt(n, loops) = LoopEnd(n, loops)
      /\ frames[n] + LocalsSize(f) = FrameEnd(n, frames)
      /\ auxiliary_stack[frames[n]] = IF n = 1 THEN 0 ELSE frames[n - 1]

Active(Hs, Ls, loops, frames) ==
  /\ Depth > 0
  /\ loops \in [1..Depth -> Nat \ {0}] /\ frames \in [1..Depth -> Nat \ {0}]
  /\ call_stack[1] = [func |-> 0, ip |-> Len(w_code[1]), height |-> 0]
  /\ FuncAt(1) = 0
  /\ loops[1] = 1 /\ frames[1] = 1 /\ loop_stack[1] = 0
  /\ locals_base = frames[Depth]
  /\ \A m, n \in 1..Depth : m < n => loops[m] < loops[n] /\ frames[m] < frames[n]
  /\ \A n \in 1..Depth : WellAt(n, Hs, Ls, loops, frames)

\* The program has not begun, or has returned from its last activation.
Idle ==
  /\ main_stack = <<>> /\ auxiliary_stack = <<>> /\ loop_stack = <<>> /\ call_stack = <<>>
  /\ locals_base = 0 /\ current_function = 0 /\ for_loop_level = 0
  /\ \/ ip = 0 /\ run_status # "running"
     \/ ip = Len(w_code[1]) + 1 /\ run_status # "idle"

\* What the stacks hold and how far they have grown: push leaves the last element
\* free, reserve does not.
StacksOK ==
  /\ run_status \in {"idle", "running", "done", "exited", "overflow", "out_of_bounds"}
  /\ main_stack \in Seq(Words)
  /\ auxiliary_stack \in Seq(Words)
  /\ loop_stack \in Seq(Words)
  /\ call_stack \in Seq([func : Nat, ip : Nat, height : Nat])
  /\ Len(main_stack) < StackSize /\ Len(loop_stack) < StackSize /\ Len(call_stack) < StackSize
  /\ Len(auxiliary_stack) <= StackSize

RunInv(Hs, Ls) ==
  /\ Typing(Hs, Ls)
  /\ StacksOK
  /\ \/ Idle
     \/ run_status \notin {"idle", "done"} /\ \E loops, frames : Active(Hs, Ls, loops, frames)

\* The typed programs, and what they keep.
TypedSpec == RunInit /\ ModuleTyped /\ [][RunStep]_vars
TypedInv == \E Hs, Ls : RunInv(Hs, Ls)

-----------------------------------------------------------------------------
(* What holds where an instruction is executed.                            *)

LEMMA TypedFacts ==
  ASSUME NEW Hs, NEW Ls, Typing(Hs, Ls), NEW f \in Functions, NEW at \in WStarts(Body(f))
  PROVE  /\ Body(f) \in Seq(Nat) /\ Len(Body(f)) \in Nat
         /\ f \in Nat /\ at \in Nat /\ at < Len(Body(f)) /\ At(Body(f), at) \in Nat
         /\ Hs[f] \in [Nat -> Nat] /\ Ls[f] \in [Nat -> Nat]
         /\ Hs[f][at] \in Nat /\ Ls[f][at] \in Nat
         /\ TypedAt(f, at, Hs[f], Ls[f])
<1>1. w_code \in Seq(Seq(Nat)) /\ Len(w_code) \in Nat /\ DOMAIN w_code = 1..Len(w_code)
  BY LenProperties DEF Typing
<1>2. f \in Nat /\ f + 1 \in 1..Len(w_code)
  BY <1>1 DEF Functions
<1>3. Body(f) \in Seq(Nat)
  BY <1>1, <1>2, ElementOfSeq DEF Body
<1>4. Len(Body(f)) \in Nat /\ DOMAIN Body(f) = 1..Len(Body(f))
  BY <1>3, LenProperties
<1>5. at \in 0..(Len(Body(f)) - 1)
  BY <1>3, WStartsDecode DEF Decodes
<1>6. at \in Nat /\ at < Len(Body(f)) /\ at + 1 \in 1..Len(Body(f))
  BY <1>4, <1>5
<1>7. At(Body(f), at) \in Nat
  BY <1>3, <1>6, ElementOfSeq DEF At
<1>8. Hs[f] \in [Nat -> Nat] /\ Ls[f] \in [Nat -> Nat] /\ TypedAt(f, at, Hs[f], Ls[f])
  BY DEF Typing
<1>9. QED
  BY <1>2, <1>3, <1>4, <1>6, <1>7, <1>8

LEMMA FirstStart ==
  ASSUME NEW Hs, NEW Ls, Typing(Hs, Ls), NEW f \in Functions
  PROVE  0 \in WStarts(Body(f))
<1>1. w_code \in Seq(Seq(Nat)) /\ Len(w_code) \in Nat
  BY LenProperties DEF Typing
<1>2. f \in Nat /\ f + 1 \in 1..Len(w_code)
  BY <1>1 DEF Functions
<1>3. Body(f) \in Seq(Nat)
  BY <1>1, <1>2, ElementOfSeq DEF Body
<1>4. Body(f) # <<>>
  BY DEF Typing
<1>5. Len(Body(f)) > 0
  BY <1>3, <1>4, EmptySeq
<1>6. QED
  BY <1>3, <1>5, WStartsDecode DEF Decodes

\* What the invariant says of the activation that runs.
Running(Hs, Ls, loops, frames) ==
  /\ Active(Hs, Ls, loops, frames)
  /\ Depth \in Nat /\ Depth > 0
  /\ loops[Depth] \in Nat \ {0} /\ frames[Depth] \in Nat \ {0}
  /\ current_function \in Functions
  /\ Code = Body(current_function)
  /\ ip \in WStarts(Body(current_function))
  /\ ip \in Nat
  /\ Opcode \in Nat
  /\ TypedAt(current_function, ip, Hs[current_function], Ls[current_function])
  /\ Hs[current_function] \in [Nat -> Nat] /\ Ls[current_function] \in [Nat -> Nat]
  /\ Hs[current_function][ip] \in Nat /\ Ls[current_function][ip] \in Nat
  /\ Len(sigs[current_function + 1].params) \in Nat
  /\ Len(locals[current_function + 1]) \in Nat
  /\ call_stack[Depth] \in [func : Nat, ip : Nat, height : Nat]
  /\ call_stack[Depth].height \in Nat
  /\ call_stack[Depth].height >= Len(sigs[current_function + 1].params)
  /\ Len(main_stack) \in Nat
  /\ Len(main_stack) = call_stack[Depth].height - Len(sigs[current_function + 1].params)
                         + Hs[current_function][ip]
  /\ for_loop_level = Ls[current_function][ip]
  /\ Len(loop_stack) \in Nat
  /\ loops[Depth] + for_loop_level = Len(loop_stack)
  /\ Len(auxiliary_stack) \in Nat
  /\ locals_base = frames[Depth]
  /\ locals_base + LocalsSize(current_function) = Len(auxiliary_stack)

LEMMA StackFacts ==
  ASSUME StacksOK
  PROVE  /\ Len(main_stack) \in Nat /\ Len(auxiliary_stack) \in Nat
         /\ Len(loop_stack) \in Nat /\ Len(call_stack) \in Nat
         /\ \A n \in 1..Len(main_stack) : main_stack[n] \in Words
         /\ \A n \in 1..Len(auxiliary_stack) : auxiliary_stack[n] \in Words
         /\ \A n \in 1..Len(loop_stack) : loop_stack[n] \in Words
         /\ \A n \in 1..Len(call_stack) : call_stack[n] \in [func : Nat, ip : Nat, height : Nat]
BY LenProperties, ElementOfSeq DEF StacksOK

LEMMA RunningFacts ==
  ASSUME NEW Hs, NEW Ls, RunInv(Hs, Ls), NEW loops, NEW frames, Active(Hs, Ls, loops, frames)
  PROVE  Running(Hs, Ls, loops, frames)
<1>1. Typing(Hs, Ls) /\ StacksOK
  BY DEF RunInv
<1>2. /\ Depth \in Nat /\ Depth > 0 /\ Depth \in 1..Depth
      /\ Len(main_stack) \in Nat /\ Len(auxiliary_stack) \in Nat /\ Len(loop_stack) \in Nat
  BY <1>1, StackFacts DEF Active, Depth
<1>3. call_stack[Depth] \in [func : Nat, ip : Nat, height : Nat]
  BY <1>1, <1>2, StackFacts DEF Depth
<1>4. WellAt(Depth, Hs, Ls, loops, frames)
  BY <1>2 DEF Active
<1>5. /\ FuncAt(Depth) = current_function /\ IpAt(Depth) = ip
      /\ HeightAt(Depth) = Len(main_stack) /\ LevelAt(Depth, loops) = for_loop_level
      /\ LoopEnd(Depth, loops) = Len(loop_stack)
      /\ FrameEnd(Depth, frames) = Len(auxiliary_stack)
  BY DEF FuncAt, IpAt, HeightAt, LevelAt, LoopEnd, FrameEnd
<1>6. current_function \in Functions /\ ip \in WStarts(Body(current_function))
  BY <1>4, <1>5 DEF WellAt
<1>7. /\ ip \in Nat /\ Opcode \in Nat /\ Code = Body(current_function)
      /\ TypedAt(current_function, ip, Hs[current_function], Ls[current_function])
      /\ Hs[current_function] \in [Nat -> Nat] /\ Ls[current_function] \in [Nat -> Nat]
      /\ Hs[current_function][ip] \in Nat /\ Ls[current_function][ip] \in Nat
  BY <1>1, <1>6, TypedFacts DEF Opcode, Code, Body
<1>8. Len(sigs[current_function + 1].params) \in Nat /\ Len(locals[current_function + 1]) \in Nat
  BY <1>1, <1>6 DEF Typing
<1>9. /\ loops[Depth] \in Nat \ {0} /\ frames[Depth] \in Nat \ {0}
      /\ locals_base = frames[Depth]
  BY <1>2 DEF Active
<1>10. /\ call_stack[Depth].height >= Len(sigs[current_function + 1].params)
       /\ Len(main_stack) = call_stack[Depth].height - Len(sigs[current_function + 1].params)
                              + Hs[current_function][ip]
       /\ for_loop_level = Ls[current_function][ip]
       /\ loops[Depth] + for_loop_level = Len(loop_stack)
       /\ frames[Depth] + LocalsSize(current_function) = Len(auxiliary_stack)
  BY <1>4, <1>5 DEF WellAt
<1>11. QED
  BY <1>2, <1>3, <1>6, <1>7, <1>8, <1>9, <1>10 DEF Running

\* An instruction is only ever executed in an activation.
LEMMA FetchFacts ==
  ASSUME NEW Hs, NEW Ls, RunInv(Hs, Ls), NEW ops, Fetch(ops)
  PROVE  \E loops, frames : Running(Hs, Ls, loops, frames)
<1>1. CASE Idle
  <2>1. ip = Len(w_code[1]) + 1 /\ Code = w_code[1] /\ ip < Len(Code)
    BY <1>1 DEF Idle, Fetch, Code
  <2>2. w_code \in Seq(Seq(Nat)) /\ w_code # <<>>
    BY DEF RunInv, Typing
  <2>3. w_code[1] \in Seq(Nat)
    BY <2>2, EmptySeq, ElementOfSeq
  <2>4. Len(w_code[1]) \in Nat
    BY <2>3, LenProperties
  <2>5. QED
    BY <2>1, <2>4
<1>2. CASE \E loops, frames : Active(Hs, Ls, loops, frames)
  BY <1>2, RunningFacts
<1>3. QED
  BY <1>1, <1>2 DEF RunInv

-----------------------------------------------------------------------------
(* Steps within an activation.                                             *)

\* The part that the activation that runs has of each stack is all that changes.
Within(Hs, Ls, loops, frames) ==
  LET f == current_function
  IN  /\ UNCHANGED <<input, call_stack, locals_base, current_function>>
      /\ Len(auxiliary_stack') = Len(auxiliary_stack)
      /\ \A i \in 1..frames[Depth] : auxiliary_stack'[i] = auxiliary_stack[i]
      /\ \A i \in 1..loops[Depth] : loop_stack'[i] = loop_stack[i]
      /\ Len(loop_stack') = loops[Depth] + for_loop_level'
      /\ ip' \in WStarts(Body(f))
      /\ for_loop_level' = Ls[f][ip']
      /\ Len(main_stack') = Len(main_stack) - Hs[f][ip] + Hs[f][ip']

LEMMA TypingStays ==
  ASSUME NEW Hs, NEW Ls, Typing(Hs, Ls), UNCHANGED input
  PROVE  Typing(Hs, Ls)'
<1>1. w_code' = w_code /\ sigs' = sigs /\ locals' = locals
  BY DEF input
<1>2. \A f, at, H, L : TypedAt(f, at, H, L)' <=> TypedAt(f, at, H, L)
  BY <1>1 DEF TypedAt, Body, Takes, Leaves, OperandOK, LocalsSize
<1>3. QED
  BY <1>1, <1>2 DEF Typing, Functions, Body

LEMMA WithinKeeps ==
  ASSUME NEW Hs, NEW Ls, NEW loops, NEW frames, Typing(Hs, Ls),
         Running(Hs, Ls, loops, frames), Within(Hs, Ls, loops, frames)
  PROVE  Active(Hs, Ls, loops, frames)'
<1>1. /\ w_code' = w_code /\ sigs' = sigs /\ locals' = locals /\ call_stack' = call_stack
      /\ locals_base' = locals_base /\ current_function' = current_function
      /\ Depth' = Depth
  BY DEF Within, input, Depth
<1>2. Active(Hs, Ls, loops, frames) /\ Depth \in Nat /\ Depth > 0 /\ 1 \in 1..Depth
      /\ Depth \in 1..Depth
  <2>1. Active(Hs, Ls, loops, frames) /\ Depth \in Nat /\ Depth > 0
    BY DEF Running
  <2>2. QED
    BY <2>1
<1>3. \A n \in 1..Depth : /\ loops[n] \in Nat \ {0} /\ frames[n] \in Nat \ {0}
                          /\ loops[n] <= loops[Depth] /\ frames[n] <= frames[Depth]
  <2>1. ASSUME NEW n \in 1..Depth
        PROVE  /\ loops[n] \in Nat \ {0} /\ frames[n] \in Nat \ {0}
               /\ loops[n] <= loops[Depth] /\ frames[n] <= frames[Depth]
    <3>1. loops[n] \in Nat \ {0} /\ frames[n] \in Nat \ {0}
          /\ loops[Depth] \in Nat \ {0} /\ frames[Depth] \in Nat \ {0}
      BY <1>2 DEF Active
    <3>2. n < Depth => loops[n] < loops[Depth] /\ frames[n] < frames[Depth]
      BY <1>2 DEF Active
    <3>3. QED
      BY <1>2, <3>1, <3>2
  <2>2. QED
    BY <2>1
<1>4. \A n \in 1..Depth : /\ loop_stack'[loops[n]] = loop_stack[loops[n]]
                          /\ auxiliary_stack'[frames[n]] = auxiliary_stack[frames[n]]
  <2>1. ASSUME NEW n \in 1..Depth
        PROVE  loops[n] \in 1..loops[Depth] /\ frames[n] \in 1..frames[Depth]
    BY <1>3, <1>2
  <2>2. QED
    BY <2>1 DEF Within
<1>5. loop_stack'[1] = loop_stack[1]
  BY <1>2, <1>4 DEF Active
<1>6. \A n \in 1..Depth : WellAt(n, Hs, Ls, loops, frames)'
  <2>1. SUFFICES ASSUME NEW n \in 1..Depth PROVE WellAt(n, Hs, Ls, loops, frames)'
    OBVIOUS
  <2>2. WellAt(n, Hs, Ls, loops, frames)
    BY <1>2 DEF Active
  <2>3. CASE n < Depth
    <3>1. n + 1 \in 1..Depth /\ n # Depth
      BY <2>3, <1>2
    <3>2. /\ FuncAt(n)' = FuncAt(n) /\ FuncAt(n + 1)' = FuncAt(n + 1) /\ IpAt(n)' = IpAt(n)
      BY <1>1, <3>1 DEF FuncAt, IpAt
    <3>3. HeightAt(n)' = HeightAt(n)
      BY <1>1, <3>1, <3>2 DEF HeightAt
    <3>4. LevelAt(n, loops)' = LevelAt(n, loops) /\ LoopEnd(n, loops)' = LoopEnd(n, loops)
          /\ FrameEnd(n, frames)' = FrameEnd(n, frames)
      BY <1>1, <1>4, <3>1 DEF LevelAt, LoopEnd, FrameEnd
    <3>5. QED
      BY <2>2, <3>2, <3>3, <3>4, <1>1, <1>4 DEF WellAt, Functions, Body, LocalsSize
  <2>4. CASE n = Depth
    <3>1. /\ FuncAt(n)' = current_function /\ IpAt(n)' = ip'
          /\ HeightAt(n)' = Len(main_stack') /\ LevelAt(n, loops)' = for_loop_level'
          /\ LoopEnd(n, loops)' = Len(loop_stack')
          /\ FrameEnd(n, frames)' = Len(auxiliary_stack')
      BY <1>1, <2>4 DEF FuncAt, IpAt, HeightAt, LevelAt, LoopEnd, FrameEnd
    <3>2. /\ current_function \in Functions /\ Body(current_function)' = Body(current_function)
          /\ LocalsSize(current_function)' = LocalsSize(current_function)
          /\ Functions' = Functions
      BY <1>1 DEF Running, Functions, Body, LocalsSize
    <3>3. /\ ip' \in WStarts(Body(current_function))
          /\ for_loop_level' = Ls[current_function][ip']
          /\ Len(loop_stack') = loops[Depth] + for_loop_level'
          /\ Len(auxiliary_stack') = Len(auxiliary_stack)
          /\ Len(main_stack') = Len(main_stack) - Hs[current_function][ip]
                                  + Hs[current_function][ip']
      BY DEF Within
    <3>4. Hs[current_function][ip'] \in Nat
      BY <3>2, <3>3, TypedFacts
    <3>5. Len(main_stack') = call_stack[Depth].height
                               - Len(sigs[current_function + 1].params)
                               + Hs[current_function][ip']
      <4>1. /\ Len(main_stack) \in Nat /\ call_stack[Depth].height \in Nat
            /\ Len(sigs[current_function + 1].params) \in Nat
            /\ Hs[current_function][ip] \in Nat
            /\ Len(main_stack) = call_stack[Depth].height
                 - Len(sigs[current_function + 1].params) + Hs[current_function][ip]
        BY DEF Running
      <4>2. \A m, c, p, h, k \in Int : m = c - p + h => m - h + k = c - p + k
        OBVIOUS
      <4>3. Len(main_stack) - Hs[current_function][ip] + Hs[current_function][ip']
              = call_stack[Depth].height - Len(sigs[current_function + 1].params)
                  + Hs[current_function][ip']
        BY <3>4, <4>1, <4>2, SMTT(40)
      <4>4. QED
        BY <3>3, <4>3
    <3>6. call_stack[Depth].height >= Len(sigs[current_function + 1].params)
      BY DEF Running
    <3>7. frames[Depth] + LocalsSize(current_function) = Len(auxiliary_stack')
      BY <3>3 DEF Running
    <3>8. auxiliary_stack'[frames[n]] = IF n = 1 THEN 0 ELSE frames[n - 1]
      BY <2>2, <1>4 DEF WellAt
    <3>9. QED
      BY <1>1, <2>4, <3>1, <3>2, <3>3, <3>5, <3>6, <3>7, <3>8 DEF WellAt
  <2>5. QED
    BY <2>3, <2>4, <1>2
<1>7. FuncAt(1)' = FuncAt(1)
  BY <1>1 DEF FuncAt
<1>8. QED
  BY <1>1, <1>2, <1>5, <1>6, <1>7 DEF Active

\* The program ends, and everything stays as it is.
LEMMA StopKeeps ==
  ASSUME NEW Hs, NEW Ls, RunInv(Hs, Ls), run_status = "running",
         NEW how \in {"exited", "overflow", "out_of_bounds"}, Stop(how)
  PROVE  RunInv(Hs, Ls)'
<1>1. /\ run_status' = how /\ UNCHANGED <<input, stacks, registers>>
  BY DEF Stop
<1>2. /\ UNCHANGED <<main_stack, auxiliary_stack, loop_stack, call_stack>>
      /\ UNCHANGED <<locals_base, current_function, ip, for_loop_level, w_code, sigs, locals>>
  BY <1>1 DEF stacks, registers, input
<1>3. Typing(Hs, Ls)'
  BY <1>1, TypingStays DEF RunInv
<1>4. StacksOK'
  BY <1>1, <1>2 DEF StacksOK, RunInv
<1>5. Idle => Idle'
  BY <1>1, <1>2 DEF Idle
<1>6. ASSUME NEW loops, NEW frames, Active(Hs, Ls, loops, frames)
      PROVE  Active(Hs, Ls, loops, frames)'
  BY <1>2, <1>6, ZenonT(60)
     DEF Active, Depth, WellAt, FuncAt, IpAt, HeightAt, LevelAt, LoopEnd, FrameEnd, Functions,
         Body, LocalsSize
<1>7. QED
  BY <1>1, <1>3, <1>4, <1>5, <1>6 DEF RunInv

\* The operations of a sequence that the stacks need.
LEMMA PushFacts ==
  ASSUME NEW S, NEW stack \in Seq(S), NEW word \in S
  PROVE  /\ Append(stack, word) \in Seq(S)
         /\ Len(Append(stack, word)) = Len(stack) + 1
         /\ \A i \in 1..Len(stack) : Append(stack, word)[i] = stack[i]
         /\ Append(stack, word)[Len(stack) + 1] = word
OBVIOUS

LEMMA CutFacts ==
  ASSUME NEW S, NEW stack \in Seq(S), NEW n \in 0..Len(stack)
  PROVE  /\ SubSeq(stack, 1, n) \in Seq(S)
         /\ Len(SubSeq(stack, 1, n)) = n
         /\ \A i \in 1..n : SubSeq(stack, 1, n)[i] = stack[i]
<1>1. Len(stack) \in Nat
  BY LenProperties
<1>2. \A i \in 1..n : stack[i] \in S
  BY <1>1, ElementOfSeq
<1>3. n \in Int /\ 1 \in Int
  OBVIOUS
<1>4. /\ SubSeq(stack, 1, n) \in Seq(S)
      /\ Len(SubSeq(stack, 1, n)) = IF 1 <= n THEN n - 1 + 1 ELSE 0
      /\ \A i \in 1 .. n - 1 + 1 : SubSeq(stack, 1, n)[i] = stack[1 + i - 1]
  BY <1>2, <1>3, SubSeqProperties
<1>5. n - 1 + 1 = n /\ \A i \in 1..n : 1 + i - 1 = i
  BY <1>3
<1>6. QED
  BY <1>4, <1>5

LEMMA TopFacts ==
  ASSUME NEW S, NEW stack \in Seq(S), stack # <<>>
  PROVE  /\ Len(stack) \in Nat \ {0}
         /\ Last(stack) \in S /\ Last(stack) = stack[Len(stack)]
         /\ Pop1(stack) \in Seq(S)
         /\ Len(Pop1(stack)) = Len(stack) - 1
         /\ \A i \in 1..(Len(stack) - 1) : Pop1(stack)[i] = stack[i]
<1>1. Len(stack) \in Nat \ {0}
  BY EmptySeq
<1>2. Last(stack) \in S /\ Last(stack) = stack[Len(stack)]
  BY <1>1, ElementOfSeq DEF Last
<1>3. Len(stack) - 1 \in 0..Len(stack)
  BY <1>1
<1>4. QED
  BY <1>1, <1>2, <1>3, CutFacts DEF Pop1

-----------------------------------------------------------------------------
(* The forms the instructions take.                                        *)

\* A step within the activation that runs that leaves the stacks as they may be.
LEMMA StepWithin ==
  ASSUME NEW Hs, NEW Ls, RunInv(Hs, Ls), run_status = "running",
         NEW loops, NEW frames, Running(Hs, Ls, loops, frames),
         Within(Hs, Ls, loops, frames), UNCHANGED run_status,
         main_stack' \in Seq(Words), auxiliary_stack' \in Seq(Words), loop_stack' \in Seq(Words),
         Len(main_stack') < StackSize, Len(loop_stack') < StackSize
  PROVE  RunInv(Hs, Ls)'
<1>1. UNCHANGED <<input, call_stack>> /\ Len(auxiliary_stack') = Len(auxiliary_stack)
  BY DEF Within
<1>2. Typing(Hs, Ls)'
  BY <1>1, TypingStays DEF RunInv
<1>3. StacksOK'
  BY <1>1 DEF StacksOK, RunInv
<1>4. Active(Hs, Ls, loops, frames)'
  BY WithinKeeps DEF RunInv
<1>5. QED
  BY <1>2, <1>3, <1>4 DEF RunInv

\* Where the instruction goes on, if it does not jump, and where it jumps.
LEMMA NextTyped ==
  ASSUME NEW Hs, NEW Ls, RunInv(Hs, Ls), NEW loops, NEW frames, Running(Hs, Ls, loops, frames)
  PROVE  LET f == current_function
             next == ip + get_w_instruction_size(Opcode)
             dest == JumpDest(Code, ip)
         IN  /\ Hs[f][ip] >= Takes(f, ip)
             /\ Ls[f][ip] + Opens(Opcode) >= 0
             /\ Opcode \notin {W_OP_JUMP, W_OP_RET, W_OP_EXIT} =>
                  /\ next \in WStarts(Body(f))
                  /\ Hs[f][next] = Hs[f][ip] - Takes(f, ip) + Leaves(f, ip)
                  /\ Ls[f][next] = Ls[f][ip] + Opens(Opcode)
             /\ is_w_jump(Opcode) =>
                  /\ dest \in WStarts(Body(f))
                  /\ Hs[f][dest] = Hs[f][ip] - Takes(f, ip)
                  /\ Ls[f][dest] = Ls[f][ip]
                  /\ JumpAllowed
<1> DEFINE f == current_function
           next == ip + get_w_instruction_size(Opcode)
           dest == JumpDest(Code, ip)
<1>1. TypedAt(f, ip, Hs[f], Ls[f]) /\ f \in Functions /\ Code = Body(f)
      /\ Opcode = At(Body(f), ip)
  BY DEF Running, Opcode
<1>2. /\ Hs[f][ip] >= Takes(f, ip)
      /\ Ls[f][ip] + Opens(Opcode) >= 0
      /\ Opcode \notin {W_OP_JUMP, W_OP_RET, W_OP_EXIT} =>
           /\ next \in WStarts(Body(f))
           /\ Hs[f][next] = Hs[f][ip] - Takes(f, ip) + Leaves(f, ip)
           /\ Ls[f][next] = Ls[f][ip] + Opens(Opcode)
      /\ is_w_jump(Opcode) =>
           /\ dest \in WStarts(Body(f))
           /\ Hs[f][dest] = Hs[f][ip] - Takes(f, ip)
           /\ Ls[f][dest] = Ls[f][ip]
  BY <1>1 DEF TypedAt
<1>3. is_w_jump(Opcode) => JumpAllowed
  <2>1. SUFFICES ASSUME is_w_jump(Opcode) PROVE JumpAllowed
    OBVIOUS
  <2>2. dest \in WStarts(Body(f))
    BY <1>2, <2>1
  <2>3. dest \in Nat /\ dest < Len(Body(f)) /\ Len(Body(f)) \in Nat
    BY <1>1, <2>2, TypedFacts DEF RunInv
  <2>4. QED
    BY <1>1, <2>3 DEF JumpAllowed, Jumped
<1>4. QED
  BY <1>2, <1>3

\* OnMain.
LEMMA MainKeeps ==
  ASSUME NEW Hs, NEW Ls, RunInv(Hs, Ls), run_status = "running",
         NEW loops, NEW frames, Running(Hs, Ls, loops, frames),
         NEW stack \in Seq(Words), OnMain(stack), Len(stack) < StackSize,
         Len(stack) = Len(main_stack) - Takes(current_function, ip)
                        + Leaves(current_function, ip),
         Opcode \notin {W_OP_JUMP, W_OP_RET, W_OP_EXIT}, Opens(Opcode) = 0
  PROVE  RunInv(Hs, Ls)'
<1> DEFINE f == current_function
           next == ip + get_w_instruction_size(Opcode)
<1>1. /\ main_stack' = stack /\ ip' = next
      /\ UNCHANGED <<input, run_status, auxiliary_stack, loop_stack, call_stack, locals_base,
                     current_function, for_loop_level>>
  BY DEF OnMain, Advance
<1>2. /\ next \in WStarts(Body(f))
      /\ Hs[f][next] = Hs[f][ip] - Takes(f, ip) + Leaves(f, ip)
      /\ Ls[f][next] = Ls[f][ip] + Opens(Opcode)
  BY NextTyped
<1>3. /\ Hs[f][ip] \in Nat /\ Ls[f][ip] \in Nat /\ Len(main_stack) \in Nat
      /\ for_loop_level = Ls[f][ip] /\ Len(loop_stack) = loops[Depth] + for_loop_level
  BY DEF Running
<1>4. Hs[f][next] \in Nat
  BY <1>2, TypedFacts DEF RunInv, Running
<1>5. StacksOK
  BY DEF RunInv
<1>6. Ls[f][next] = Ls[f][ip]
  BY <1>2, <1>3
<1>7. Takes(f, ip) \in Int /\ Leaves(f, ip) \in Int
  <2>1. Len(stack) \in Nat /\ Opcode = At(Body(f), ip)
    BY LenProperties DEF Running, Opcode
  <2>2. Opcode = W_OP_CALL8 => At(Body(f), ip + 1) \in Functions
    BY <2>1 DEF Running, TypedAt, OperandOK, Functions
  <2>3. Opcode = W_OP_CALL8 => /\ Len(sigs[At(Body(f), ip + 1) + 1].params) \in Int
                               /\ Len(sigs[At(Body(f), ip + 1) + 1].rets) \in Int
    BY <2>2 DEF RunInv, Typing
  <2>4. QED
    BY <2>1, <2>3 DEF Takes, Leaves
<1>8. Len(stack) = Len(main_stack) - Hs[f][ip] + Hs[f][next]
  <2>1. \A m, t, l, h \in Int : m - h + (h - t + l) = m - t + l
    OBVIOUS
  <2>2. Len(main_stack) - Hs[f][ip] + (Hs[f][ip] - Takes(f, ip) + Leaves(f, ip))
          = Len(main_stack) - Takes(f, ip) + Leaves(f, ip)
    BY <1>3, <1>7, <2>1, SMTT(40)
  <2>3. QED
    BY <1>2, <2>2
<1>9. Within(Hs, Ls, loops, frames)
  BY <1>1, <1>2, <1>3, <1>6, <1>8 DEF Within
<1>10. QED
  BY <1>1, <1>5, <1>9, StepWithin DEF StacksOK

\* OnLoops.
LEMMA LoopsKeep ==
  ASSUME NEW Hs, NEW Ls, RunInv(Hs, Ls), run_status = "running",
         NEW loops, NEW frames, Running(Hs, Ls, loops, frames),
         NEW main \in Seq(Words), NEW stack \in Seq(Words), NEW level, NEW jumps \in BOOLEAN,
         OnLoops(main, stack, level, jumps), Len(main) < StackSize, Len(stack) < StackSize,
         is_w_jump(Opcode), Opcode # W_OP_JUMP,
         Leaves(current_function, ip) = 0, Takes(current_function, ip) \in Nat,
         Len(main) = Len(main_stack) - Takes(current_function, ip),
         level = for_loop_level + IF jumps THEN 0 ELSE Opens(Opcode),
         Len(stack) = Len(loop_stack) + IF jumps THEN 0 ELSE Opens(Opcode),
         \A i \in 1..loops[Depth] : stack[i] = loop_stack[i]
  PROVE  RunInv(Hs, Ls)'
<1> DEFINE f == current_function
           next == IF jumps THEN JumpDest(Code, ip) ELSE ip + get_w_instruction_size(Opcode)
<1>1. JumpAllowed
  BY NextTyped
<1>2. /\ main_stack' = main /\ loop_stack' = stack /\ for_loop_level' = level
      /\ ip' = next
      /\ UNCHANGED <<input, run_status, auxiliary_stack, call_stack, locals_base,
                     current_function>>
  BY <1>1 DEF OnLoops, Advance, Jumped
<1>3. Opcode \notin {W_OP_JUMP, W_OP_RET, W_OP_EXIT}
  BY DEF is_w_jump, W_OP_JUMP, W_OP_RET, W_OP_EXIT, W_OP_JUMP_COND, W_OP_JUMP_NCOND,
         W_OP_FOR_STARTS, W_OP_FOR_UPDATES, W_OP_FOR_DEC_START, W_OP_FOR_INC_START,
         W_OP_FOR_DEC, W_OP_FOR_INC
<1>4. Opens(Opcode) \in Int
  BY DEF Opens
<1>5. /\ Hs[f][ip] \in Nat /\ Ls[f][ip] \in Nat /\ Len(main_stack) \in Nat
      /\ for_loop_level = Ls[f][ip] /\ loops[Depth] + for_loop_level = Len(loop_stack)
      /\ loops[Depth] \in Nat
  BY DEF Running
<1>6. /\ next \in WStarts(Body(f))
      /\ Hs[f][next] = Hs[f][ip] - Takes(f, ip)
      /\ Ls[f][next] = level
  <2>1. CASE jumps
    <3>1. next = JumpDest(Code, ip) /\ level = for_loop_level + 0
      BY <2>1
    <3>2. level = Ls[f][ip]
      BY <3>1, <1>5
    <3>3. QED
      BY <3>1, <3>2, NextTyped
  <2>2. CASE ~jumps
    <3>1. next = ip + get_w_instruction_size(Opcode) /\ level = Ls[f][ip] + Opens(Opcode)
      BY <2>2, <1>5
    <3>2. /\ next \in WStarts(Body(f))
          /\ Hs[f][next] = Hs[f][ip] - Takes(f, ip) + 0
          /\ Ls[f][next] = Ls[f][ip] + Opens(Opcode)
      BY <3>1, <1>3, NextTyped
    <3>3. QED
      BY <3>1, <3>2, <1>5, SMTT(40)
  <2>3. QED
    BY <2>1, <2>2
<1>7. Hs[f][next] \in Nat
  BY <1>6, TypedFacts DEF RunInv, Running
<1>8. Len(main) = Len(main_stack) - Hs[f][ip] + Hs[f][next]
  BY <1>5, <1>6, <1>7
<1>9. Len(stack) = loops[Depth] + level
  BY <1>4, <1>5
<1>10. Within(Hs, Ls, loops, frames)
  BY <1>2, <1>6, <1>8, <1>9 DEF Within
<1>11. QED
  BY <1>2, <1>10, StepWithin DEF StacksOK, RunInv

LEMMA OpcodeIs ==
  ASSUME NEW ops, Fetch(ops), NEW Hs, NEW Ls, NEW loops, NEW frames,
         Running(Hs, Ls, loops, frames)
  PROVE  Opcode = At(Body(current_function), ip) /\ Opcode \in ops /\ run_status = "running"
BY DEF Fetch, Running, Opcode

-----------------------------------------------------------------------------
(* The instructions.                                                       *)

LEMMA Effects ==
  ASSUME NEW f, NEW at, NEW op, op = At(Body(f), at)
  PROVE  /\ op \in {W_OP_PUSH8, W_OP_PUSH_INT8, W_OP_GET_LOOP_VAR, W_OP_LOCAL_GET} =>
              Takes(f, at) = 0 /\ Leaves(f, at) = 1 /\ Opens(op) = 0
         /\ op = W_OP_DUPE => Takes(f, at) = 1 /\ Leaves(f, at) = 2 /\ Opens(op) = 0
         /\ op \in {W_OP_POP, W_OP_JUMP_COND, W_OP_JUMP_NCOND, W_OP_LOCAL_SET, W_OP_EXIT} =>
              Takes(f, at) = 1 /\ Leaves(f, at) = 0 /\ Opens(op) = 0
         /\ op = W_OP_JUMP => Takes(f, at) = 0 /\ Leaves(f, at) = 0 /\ Opens(op) = 0
         /\ op \in W_OP_FOR_STARTS =>
              /\ Takes(f, at) = 1 /\ Leaves(f, at) = 0
              /\ Opens(op) = IF op = W_OP_FOR_DEC_START THEN 1 ELSE 2
         /\ op \in W_OP_FOR_UPDATES =>
              /\ Takes(f, at) = 0 /\ Leaves(f, at) = 0
              /\ Opens(op) = IF op = W_OP_FOR_DEC THEN -1 ELSE -2
         /\ op = W_OP_CALL8 =>
              /\ Takes(f, at) = Len(sigs[At(Body(f), at + 1) + 1].params)
              /\ Leaves(f, at) = Len(sigs[At(Body(f), at + 1) + 1].rets)
              /\ Opens(op) = 0
         /\ is_w_jump(op) <=> op \in {W_OP_JUMP, W_OP_JUMP_COND, W_OP_JUMP_NCOND}
                                       \cup W_OP_FOR_STARTS \cup W_OP_FOR_UPDATES
         /\ op \in W_OP_FOR_STARTS \cup W_OP_FOR_UPDATES => op # W_OP_JUMP
         /\ op \in {W_OP_PUSH8, W_OP_PUSH_INT8, W_OP_GET_LOOP_VAR, W_OP_LOCAL_GET, W_OP_DUPE,
                    W_OP_POP, W_OP_JUMP_COND, W_OP_JUMP_NCOND, W_OP_LOCAL_SET, W_OP_CALL8} =>
              op \notin {W_OP_JUMP, W_OP_RET, W_OP_EXIT}
<1> USE DEF W_OP_PUSH8, W_OP_PUSH_INT8, W_OP_POP, W_OP_DUPE, W_OP_EXIT, W_OP_FOR_DEC_START,
            W_OP_FOR_DEC, W_OP_FOR_INC_START, W_OP_FOR_INC, W_OP_GET_LOOP_VAR, W_OP_JUMP,
            W_OP_JUMP_COND, W_OP_JUMP_NCOND, W_OP_LOCAL_GET, W_OP_LOCAL_SET, W_OP_CALL8,
            W_OP_RET, W_OP_FOR_STARTS, W_OP_FOR_UPDATES
<1>1. op \in {W_OP_PUSH8, W_OP_PUSH_INT8, W_OP_GET_LOOP_VAR, W_OP_LOCAL_GET} =>
        Takes(f, at) = 0 /\ Leaves(f, at) = 1 /\ Opens(op) = 0
  BY DEF Takes, Leaves, Opens
<1>2. op = W_OP_DUPE => Takes(f, at) = 1 /\ Leaves(f, at) = 2 /\ Opens(op) = 0
  BY DEF Takes, Leaves, Opens
<1>3. op \in {W_OP_POP, W_OP_JUMP_COND, W_OP_JUMP_NCOND, W_OP_LOCAL_SET, W_OP_EXIT} =>
        Takes(f, at) = 1 /\ Leaves(f, at) = 0 /\ Opens(op) = 0
  BY DEF Takes, Leaves, Opens
<1>4. op = W_OP_JUMP => Takes(f, at) = 0 /\ Leaves(f, at) = 0 /\ Opens(op) = 0
  BY DEF Takes, Leaves, Opens
<1>5. op \in W_OP_FOR_STARTS =>
        /\ Takes(f, at) = 1 /\ Leaves(f, at) = 0
        /\ Opens(op) = IF op = W_OP_FOR_DEC_START THEN 1 ELSE 2
  BY DEF Takes, Leaves, Opens
<1>6. op \in W_OP_FOR_UPDATES =>
        /\ Takes(f, at) = 0 /\ Leaves(f, at) = 0
        /\ Opens(op) = IF op = W_OP_FOR_DEC THEN -1 ELSE -2
  BY DEF Takes, Leaves, Opens
<1>7. op = W_OP_CALL8 =>
        /\ Takes(f, at) = Len(sigs[At(Body(f), at + 1) + 1].params)
        /\ Leaves(f, at) = Len(sigs[At(Body(f), at + 1) + 1].rets)
        /\ Opens(op) = 0
  BY DEF Takes, Leaves, Opens
<1>8. is_w_jump(op) <=> op \in {W_OP_JUMP, W_OP_JUMP_COND, W_OP_JUMP_NCOND}
                                 \cup W_OP_FOR_STARTS \cup W_OP_FOR_UPDATES
  BY DEF is_w_jump
<1>9. QED
  BY <1>1, <1>2, <1>3, <1>4, <1>5, <1>6, <1>7, <1>8, SMTT(40)

\* An instruction leaves the running program in one of its states or stops it as a
\* typed program may be stopped.
LEMMA PushKeeps ==
  ASSUME NEW Hs, NEW Ls, RunInv(Hs, Ls), RunPush, InterpreterAssumption
  PROVE  RunInv(Hs, Ls)'
<1>1. PICK loops, frames : Running(Hs, Ls, loops, frames)
  BY FetchFacts DEF RunPush
<1>2. /\ Opcode \in {W_OP_PUSH8, W_OP_PUSH_INT8} /\ run_status = "running"
      /\ Opcode = At(Body(current_function), ip)
  BY <1>1, OpcodeIs DEF RunPush
<1>3. CASE PushFails(main_stack, 1)
  BY <1>2, <1>3, StopKeeps DEF RunPush
<1>4. CASE ~PushFails(main_stack, 1)
  <2> DEFINE byte == At(Code, ip + 1)
             word == IF Opcode = W_OP_PUSH8 THEN byte ELSE SignExtend(byte)
  <2>1. byte \in 0..(ByteBase - 1)
    BY <1>1, <1>2 DEF Running, TypedAt, OperandOK
  <2>2. ByteBase \in Nat /\ ByteBase % 2 = 0 /\ WordBase \in Nat /\ WordBase >= ByteBase
    BY ByteBaseAssumption DEF InterpreterAssumption
  <2>3. byte \in Words
    BY <2>1, <2>2 DEF Words
  <2>4. SignExtend(byte) \in Words
    <3>1. ByteBase \div 2 \in Nat
      BY <2>2
    <3>2. QED
      BY <2>1, <2>2, <2>3, <3>1 DEF SignExtend, Words
  <2>5. word \in Words
    BY <2>3, <2>4
  <2>6. main_stack \in Seq(Words) /\ Len(main_stack) \in Nat /\ Len(main_stack) < StackSize
    BY StackFacts DEF RunInv, StacksOK
  <2>7. Append(main_stack, word) \in Seq(Words) /\ Len(Append(main_stack, word)) = Len(main_stack) + 1
    BY <2>5, <2>6, PushFacts
  <2>8. Len(main_stack) + 1 < StackSize
    BY <1>4, <2>6 DEF PushFails, InterpreterAssumption
  <2>9. OnMain(Append(main_stack, word))
    BY <1>4 DEF RunPush
  <2>10. Takes(current_function, ip) = 0 /\ Leaves(current_function, ip) = 1
         /\ Opens(Opcode) = 0 /\ Opcode \notin {W_OP_JUMP, W_OP_RET, W_OP_EXIT}
    BY <1>2, Effects
  <2>11. /\ Len(Append(main_stack, word)) = Len(main_stack) - 0 + 1
         /\ Len(Append(main_stack, word)) < StackSize
    BY <2>6, <2>7, <2>8
  <2>12. QED
    BY <1>1, <1>2, <2>7, <2>9, <2>10, <2>11, MainKeeps
<1>5. QED
  BY <1>3, <1>4

\* There is a word to pop where the typing says one is taken.
LEMMA NotEmpty ==
  ASSUME NEW Hs, NEW Ls, RunInv(Hs, Ls), InterpreterAssumption,
         NEW loops, NEW frames, Running(Hs, Ls, loops, frames)
  PROVE  Takes(current_function, ip) = 1 =>
              /\ main_stack # <<>> /\ Len(main_stack) \in Nat \ {0}
              /\ Last(main_stack) \in Words
              /\ Pop1(main_stack) \in Seq(Words)
              /\ Len(Pop1(main_stack)) = Len(main_stack) - 1
              /\ Len(Pop1(main_stack)) < StackSize
<1>1. SUFFICES ASSUME Takes(current_function, ip) = 1
               PROVE  /\ main_stack # <<>> /\ Len(main_stack) \in Nat \ {0}
                      /\ Last(main_stack) \in Words
                      /\ Pop1(main_stack) \in Seq(Words)
                      /\ Len(Pop1(main_stack)) = Len(main_stack) - 1
                      /\ Len(Pop1(main_stack)) < StackSize
  OBVIOUS
<1>2. Hs[current_function][ip] >= 1
  BY <1>1, NextTyped
<1>3. Len(main_stack) >= 1
  <2>1. /\ call_stack[Depth].height \in Nat /\ Len(sigs[current_function + 1].params) \in Nat
        /\ Hs[current_function][ip] \in Nat
        /\ call_stack[Depth].height >= Len(sigs[current_function + 1].params)
        /\ Len(main_stack) = call_stack[Depth].height
             - Len(sigs[current_function + 1].params) + Hs[current_function][ip]
    BY DEF Running
  <2>2. \A c, p, h \in Nat : c >= p /\ h >= 1 => c - p + h >= 1
    OBVIOUS
  <2>3. QED
    BY <1>2, <2>1, <2>2
<1>4. main_stack \in Seq(Words) /\ Len(main_stack) < StackSize /\ Len(main_stack) \in Nat
  BY StackFacts DEF RunInv, StacksOK
<1>5. main_stack # <<>>
  BY <1>3, <1>4
<1>6. StackSize \in Nat
  BY DEF InterpreterAssumption
<1>7. QED
  BY <1>3, <1>4, <1>5, <1>6, TopFacts

LEMMA PopKeeps ==
  ASSUME NEW Hs, NEW Ls, RunInv(Hs, Ls), RunPop, InterpreterAssumption
  PROVE  RunInv(Hs, Ls)'
<1>1. PICK loops, frames : Running(Hs, Ls, loops, frames)
  BY FetchFacts DEF RunPop
<1>2. /\ Opcode = W_OP_POP /\ run_status = "running"
      /\ Opcode = At(Body(current_function), ip)
  BY <1>1, OpcodeIs DEF RunPop
<1>3. Takes(current_function, ip) = 1 /\ Leaves(current_function, ip) = 0
      /\ Opens(Opcode) = 0 /\ Opcode \notin {W_OP_JUMP, W_OP_RET, W_OP_EXIT}
  BY <1>2, Effects
<1>4. /\ main_stack # <<>> /\ Len(main_stack) \in Nat
      /\ Pop1(main_stack) \in Seq(Words) /\ Len(Pop1(main_stack)) = Len(main_stack) - 1
      /\ Len(Pop1(main_stack)) < StackSize
  BY <1>1, <1>3, NotEmpty
<1>5. OnMain(Pop1(main_stack))
  BY <1>4 DEF RunPop
<1>6. Len(Pop1(main_stack)) = Len(main_stack) - 1 + 0
  BY <1>4
<1>7. QED
  BY <1>1, <1>2, <1>3, <1>4, <1>5, <1>6, MainKeeps

LEMMA DupeKeeps ==
  ASSUME NEW Hs, NEW Ls, RunInv(Hs, Ls), RunDupe, InterpreterAssumption
  PROVE  RunInv(Hs, Ls)'
<1>1. PICK loops, frames : Running(Hs, Ls, loops, frames)
  BY FetchFacts DEF RunDupe
<1>2. /\ Opcode = W_OP_DUPE /\ run_status = "running"
      /\ Opcode = At(Body(current_function), ip)
  BY <1>1, OpcodeIs DEF RunDupe
<1>3. Takes(current_function, ip) = 1 /\ Leaves(current_function, ip) = 2
      /\ Opens(Opcode) = 0 /\ Opcode \notin {W_OP_JUMP, W_OP_RET, W_OP_EXIT}
  BY <1>2, Effects
<1>4. /\ main_stack # <<>> /\ Len(main_stack) \in Nat \ {0} /\ Last(main_stack) \in Words
      /\ Len(Pop1(main_stack)) = Len(main_stack) - 1
  BY <1>1, <1>3, NotEmpty
<1>5. CASE PushFails(Pop1(main_stack), 2)
  BY <1>2, <1>4, <1>5, StopKeeps DEF RunDupe
<1>6. CASE ~PushFails(Pop1(main_stack), 2)
  <2>1. OnMain(Append(main_stack, Last(main_stack)))
    BY <1>4, <1>6 DEF RunDupe
  <2>2. main_stack \in Seq(Words) /\ Len(main_stack) < StackSize
    BY DEF RunInv, StacksOK
  <2>3. /\ Append(main_stack, Last(main_stack)) \in Seq(Words)
        /\ Len(Append(main_stack, Last(main_stack))) = Len(main_stack) + 1
    BY <1>4, <2>2, PushFacts
  <2>4. Len(main_stack) - 1 + 0 # StackSize - 1 /\ Len(main_stack) - 1 + 1 # StackSize - 1
    BY <1>4, <1>6 DEF PushFails
  <2>5. Len(main_stack) + 1 < StackSize /\ Len(main_stack) + 1 = Len(main_stack) - 1 + 2
    BY <1>4, <2>2, <2>4 DEF InterpreterAssumption
  <2>6. QED
    BY <1>1, <1>2, <1>3, <2>1, <2>3, <2>5, MainKeeps
<1>7. QED
  BY <1>5, <1>6

LEMMA ExitKeeps ==
  ASSUME NEW Hs, NEW Ls, RunInv(Hs, Ls), RunExit, InterpreterAssumption
  PROVE  RunInv(Hs, Ls)'
<1>1. PICK loops, frames : Running(Hs, Ls, loops, frames)
  BY FetchFacts DEF RunExit
<1>2. /\ Opcode = W_OP_EXIT /\ run_status = "running"
      /\ Opcode = At(Body(current_function), ip)
  BY <1>1, OpcodeIs DEF RunExit
<1>3. Takes(current_function, ip) = 1
  BY <1>2, Effects
<1>4. main_stack # <<>>
  BY <1>1, <1>3, NotEmpty
<1>5. QED
  BY <1>2, <1>4, StopKeeps DEF RunExit

LEMMA JumpKeeps ==
  ASSUME NEW Hs, NEW Ls, RunInv(Hs, Ls), RunJump
  PROVE  RunInv(Hs, Ls)'
<1>1. PICK loops, frames : Running(Hs, Ls, loops, frames)
  BY FetchFacts DEF RunJump
<1> DEFINE f == current_function
<1>2. /\ Opcode = W_OP_JUMP /\ run_status = "running" /\ Opcode = At(Body(f), ip)
  BY <1>1, OpcodeIs DEF RunJump
<1>3. Takes(f, ip) = 0 /\ is_w_jump(Opcode)
  BY <1>2, Effects
<1>4. /\ Jumped \in WStarts(Body(f)) /\ Hs[f][Jumped] = Hs[f][ip] - 0
      /\ Ls[f][Jumped] = Ls[f][ip] /\ JumpAllowed
  BY <1>1, <1>3, NextTyped DEF Jumped
<1>5. ip' = Jumped /\ UNCHANGED <<input, run_status, stacks, locals_base, current_function,
                                  for_loop_level>>
  BY <1>4 DEF RunJump
<1>6. UNCHANGED <<input, run_status, main_stack, auxiliary_stack, loop_stack, call_stack,
                  locals_base, current_function, for_loop_level>>
  BY <1>5 DEF stacks
<1>7. /\ Hs[f][ip] \in Nat /\ Len(main_stack) \in Nat /\ Len(loop_stack) \in Nat
      /\ for_loop_level = Ls[f][ip] /\ loops[Depth] + for_loop_level = Len(loop_stack)
  BY <1>1 DEF Running
<1>8. Len(main_stack) = Len(main_stack) - Hs[f][ip] + Hs[f][Jumped]
  BY <1>4, <1>7
<1>9. Within(Hs, Ls, loops, frames)
  BY <1>4, <1>5, <1>6, <1>7, <1>8 DEF Within
<1>10. QED
  BY <1>1, <1>2, <1>6, <1>9, StepWithin DEF RunInv, StacksOK

LEMMA ConditionalJumpKeeps ==
  ASSUME NEW Hs, NEW Ls, RunInv(Hs, Ls), RunConditionalJump, InterpreterAssumption
  PROVE  RunInv(Hs, Ls)'
<1>1. PICK loops, frames : Running(Hs, Ls, loops, frames)
  BY FetchFacts DEF RunConditionalJump
<1> DEFINE f == current_function
<1>2. /\ Opcode \in {W_OP_JUMP_COND, W_OP_JUMP_NCOND} /\ run_status = "running"
      /\ Opcode = At(Body(f), ip)
  BY <1>1, OpcodeIs DEF RunConditionalJump
<1>3. Takes(f, ip) = 1 /\ Leaves(f, ip) = 0 /\ Opens(Opcode) = 0 /\ is_w_jump(Opcode)
      /\ Opcode \notin {W_OP_JUMP, W_OP_RET, W_OP_EXIT}
  BY <1>2, Effects
<1>4. /\ main_stack # <<>> /\ Len(main_stack) \in Nat
      /\ Pop1(main_stack) \in Seq(Words) /\ Len(Pop1(main_stack)) = Len(main_stack) - 1
      /\ Len(Pop1(main_stack)) < StackSize
  BY <1>1, <1>3, NotEmpty
<1>5. CASE (Last(main_stack) # 0) # (Opcode = W_OP_JUMP_COND)
  <2>1. OnMain(Pop1(main_stack))
    BY <1>4, <1>5 DEF RunConditionalJump
  <2>2. Len(Pop1(main_stack)) = Len(main_stack) - 1 + 0
    BY <1>4
  <2>3. QED
    BY <1>1, <1>2, <1>3, <1>4, <2>1, <2>2, MainKeeps
<1>6. CASE ~((Last(main_stack) # 0) # (Opcode = W_OP_JUMP_COND))
  <2>1. /\ Jumped \in WStarts(Body(f)) /\ Hs[f][Jumped] = Hs[f][ip] - 1
        /\ Ls[f][Jumped] = Ls[f][ip] /\ JumpAllowed
    BY <1>1, <1>3, NextTyped DEF Jumped
  <2>2. /\ main_stack' = Pop1(main_stack) /\ ip' = Jumped
        /\ UNCHANGED <<input, run_status, auxiliary_stack, loop_stack, call_stack, locals_base,
                       current_function, for_loop_level>>
    BY <1>4, <1>6, <2>1 DEF RunConditionalJump
  <2>3. /\ Hs[f][ip] \in Nat /\ Len(main_stack) \in Nat /\ Len(loop_stack) \in Nat
        /\ for_loop_level = Ls[f][ip] /\ loops[Depth] + for_loop_level = Len(loop_stack)
    BY <1>1 DEF Running
  <2>4. Len(main_stack) - 1 = Len(main_stack) - Hs[f][ip] + Hs[f][Jumped]
    BY <2>1, <2>3
  <2>5. Within(Hs, Ls, loops, frames)
    BY <1>4, <2>1, <2>2, <2>3, <2>4 DEF Within
  <2>6. QED
    BY <1>1, <1>2, <1>4, <2>2, <2>5, StepWithin DEF RunInv, StacksOK
<1>7. QED
  BY <1>5, <1>6

-----------------------------------------------------------------------------
(* The loop stack.                                                         *)

\* The instruction moves a loop on, leaving the main stack `main' and the loop stack
\* `stack', of which it has changed its own part.
Loops(loops, main, stack) ==
  /\ is_w_jump(Opcode) /\ Opcode # W_OP_JUMP
  /\ Leaves(current_function, ip) = 0 /\ Takes(current_function, ip) \in Nat
  /\ main \in Seq(Words) /\ Len(main) < StackSize
  /\ Len(main) = Len(main_stack) - Takes(current_function, ip)
  /\ stack \in Seq(Words) /\ Len(stack) < StackSize
  /\ \A i \in 1..loops[Depth] : stack[i] = loop_stack[i]

LEMMA LoopsMove ==
  ASSUME NEW Hs, NEW Ls, RunInv(Hs, Ls), run_status = "running",
         NEW loops, NEW frames, Running(Hs, Ls, loops, frames),
         NEW main, NEW stack, Loops(loops, main, stack), NEW level
  PROVE  /\ OnLoops(main, stack, for_loop_level, TRUE) /\ Len(stack) = Len(loop_stack) =>
              RunInv(Hs, Ls)'
         /\ OnLoops(main, stack, level, FALSE) /\ level = for_loop_level + Opens(Opcode)
            /\ Len(stack) = Len(loop_stack) + Opens(Opcode) => RunInv(Hs, Ls)'
<1>1. for_loop_level \in Nat /\ Len(loop_stack) \in Nat
  BY DEF Running
<1>2. ASSUME NEW to, NEW jumps \in BOOLEAN, OnLoops(main, stack, to, jumps),
             to = for_loop_level + (IF jumps THEN 0 ELSE Opens(Opcode)),
             Len(stack) = Len(loop_stack) + (IF jumps THEN 0 ELSE Opens(Opcode))
      PROVE  RunInv(Hs, Ls)'
  BY <1>2, LoopsKeep DEF Loops
<1>3. ASSUME OnLoops(main, stack, for_loop_level, TRUE), Len(stack) = Len(loop_stack)
      PROVE  RunInv(Hs, Ls)'
  <2>1. /\ for_loop_level = for_loop_level + (IF TRUE THEN 0 ELSE Opens(Opcode))
        /\ Len(stack) = Len(loop_stack) + (IF TRUE THEN 0 ELSE Opens(Opcode))
    BY <1>1, <1>3
  <2>2. QED
    BY <1>2, <1>3, <2>1
<1>4. ASSUME OnLoops(main, stack, level, FALSE), level = for_loop_level + Opens(Opcode),
             Len(stack) = Len(loop_stack) + Opens(Opcode)
      PROVE  RunInv(Hs, Ls)'
  <2>1. /\ level = for_loop_level + (IF FALSE THEN 0 ELSE Opens(Opcode))
        /\ Len(stack) = Len(loop_stack) + (IF FALSE THEN 0 ELSE Opens(Opcode))
    BY <1>4
  <2>2. QED
    BY <1>2, <1>4, <2>1
<1>5. QED
  BY <1>3, <1>4

\* What RunForStart does with a count.
LEMMA ForStartCases ==
  ASSUME RunForStart, main_stack # <<>>, NEW count \in Nat, count = Last(main_stack),
         NEW slots, slots = IF Opcode = W_OP_FOR_DEC_START THEN <<count>> ELSE <<count, 0>>
  PROVE  /\ count = 0 => OnLoops(Pop1(main_stack), loop_stack, for_loop_level, TRUE)
         /\ count > 0 /\ PushFails(loop_stack, Len(slots)) => Stop("overflow")
         /\ count > 0 /\ ~PushFails(loop_stack, Len(slots)) =>
              OnLoops(Pop1(main_stack), loop_stack \o slots, for_loop_level + Len(slots), FALSE)
<1>1. count = 0 <=> ~(count > 0)
  OBVIOUS
<1>2. QED
  BY <1>1, Zenon DEF RunForStart

LEMMA ForStartKeeps ==
  ASSUME NEW Hs, NEW Ls, RunInv(Hs, Ls), RunForStart, InterpreterAssumption
  PROVE  RunInv(Hs, Ls)'
<1>1. PICK loops, frames : Running(Hs, Ls, loops, frames)
  BY FetchFacts DEF RunForStart
<1> DEFINE f == current_function
           count == Last(main_stack)
           slots == IF Opcode = W_OP_FOR_DEC_START THEN <<count>> ELSE <<count, 0>>
<1>2. /\ Opcode \in W_OP_FOR_STARTS /\ run_status = "running" /\ Opcode = At(Body(f), ip)
  BY <1>1, OpcodeIs DEF RunForStart
<1>3. /\ Takes(f, ip) = 1 /\ Leaves(f, ip) = 0 /\ is_w_jump(Opcode) /\ Opcode # W_OP_JUMP
      /\ Opens(Opcode) = IF Opcode = W_OP_FOR_DEC_START THEN 1 ELSE 2
  BY <1>2, Effects
<1>4. /\ main_stack # <<>> /\ Len(main_stack) \in Nat /\ count \in Words /\ count \in Nat
      /\ Pop1(main_stack) \in Seq(Words) /\ Len(Pop1(main_stack)) = Len(main_stack) - 1
      /\ Len(Pop1(main_stack)) < StackSize
  BY <1>1, <1>3, NotEmpty DEF Words
<1>5. /\ loop_stack \in Seq(Words) /\ Len(loop_stack) \in Nat /\ Len(loop_stack) < StackSize
      /\ for_loop_level \in Nat /\ loops[Depth] \in Nat
      /\ loops[Depth] + for_loop_level = Len(loop_stack)
  BY <1>1, StackFacts DEF RunInv, StacksOK, Running
<1>6. CASE count = 0
  <2>1. OnLoops(Pop1(main_stack), loop_stack, for_loop_level, TRUE)
    BY <1>4, <1>6, ForStartCases
  <2>2. Loops(loops, Pop1(main_stack), loop_stack)
    BY <1>3, <1>4, <1>5 DEF Loops
  <2>3. QED
    BY <1>1, <1>2, <2>1, <2>2, LoopsMove
<1>7. CASE count > 0 /\ PushFails(loop_stack, Len(slots))
  <2>1. Stop("overflow")
    BY <1>4, <1>7, ForStartCases
  <2>2. QED
    BY <1>2, <2>1, StopKeeps
<1>8. CASE count > 0 /\ ~PushFails(loop_stack, Len(slots))
  <2>1. OnLoops(Pop1(main_stack), loop_stack \o slots, for_loop_level + Len(slots), FALSE)
    BY <1>4, <1>8, ForStartCases
  <2>2. 0 \in Words
    BY DEF Words, InterpreterAssumption
  <2>3. slots \in Seq(Words) /\ Len(slots) = Opens(Opcode) /\ Len(slots) \in {1, 2}
    <3>1. CASE Opcode = W_OP_FOR_DEC_START
      <4>1. slots = <<count>>
        BY <3>1
      <4>2. <<count>> \in Seq(Words) /\ Len(<<count>>) = 1
        BY <1>4
      <4>3. QED
        BY <1>3, <3>1, <4>1, <4>2
    <3>2. CASE Opcode # W_OP_FOR_DEC_START
      <4>1. slots = <<count, 0>>
        BY <3>2
      <4>2. <<count, 0>> \in Seq(Words) /\ Len(<<count, 0>>) = 2
        BY <1>4, <2>2
      <4>3. QED
        BY <1>3, <3>2, <4>1, <4>2
    <3>3. QED
      BY <3>1, <3>2
  <2>4. /\ loop_stack \o slots \in Seq(Words)
        /\ Len(loop_stack \o slots) = Len(loop_stack) + Len(slots)
        /\ \A i \in 1..(Len(loop_stack) + Len(slots)) :
             (loop_stack \o slots)[i] = IF i <= Len(loop_stack) THEN loop_stack[i]
                                        ELSE slots[i - Len(loop_stack)]
    BY <1>5, <2>3, ConcatProperties
  <2>5. \A i \in 1..loops[Depth] : (loop_stack \o slots)[i] = loop_stack[i]
    BY <1>5, <2>3, <2>4
  <2>6. \A i \in 0..(Len(slots) - 1) : Len(loop_stack) + i # StackSize - 1
    BY <1>8 DEF PushFails
  <2>7. Len(loop_stack) + Len(slots) < StackSize
    <3>1. Len(loop_stack) # StackSize - 1
      BY <2>3, <2>6, <1>5
    <3>2. Len(slots) = 2 => Len(loop_stack) + 1 # StackSize - 1
      BY <2>6
    <3>3. QED
      BY <2>3, <3>1, <3>2, <1>5 DEF InterpreterAssumption
  <2>8. /\ for_loop_level + Len(slots) = for_loop_level + Opens(Opcode)
        /\ Len(loop_stack \o slots) = Len(loop_stack) + Opens(Opcode)
        /\ Len(loop_stack \o slots) < StackSize
    BY <2>3, <2>4, <2>7
  <2> DEFINE stack == loop_stack \o slots
  <2>9. /\ stack \in Seq(Words) /\ Len(stack) < StackSize
        /\ \A i \in 1..loops[Depth] : stack[i] = loop_stack[i]
    BY <2>4, <2>5, <2>8
  <2> HIDE DEF stack
  <2>10. Loops(loops, Pop1(main_stack), stack)
    BY <1>3, <1>4, <2>9 DEF Loops
  <2>11. QED
    BY <1>1, <1>2, <2>1, <2>8, <2>10, LoopsMove DEF stack
<1>9. QED
  BY <1>4, <1>6, <1>7, <1>8 DEF Words

\* A loop that goes on: its counter is replaced.  A loop that ends: its slots go.
LEMMA UpdateKeeps ==
  ASSUME NEW Hs, NEW Ls, RunInv(Hs, Ls), InterpreterAssumption, run_status = "running",
         NEW loops, NEW frames, Running(Hs, Ls, loops, frames), Opcode \in W_OP_FOR_UPDATES,
         NEW slots, slots = IF Opcode = W_OP_FOR_DEC THEN 1 ELSE 2
  PROVE  /\ for_loop_level >= slots /\ Len(loop_stack) > slots /\ Len(loop_stack) \in Nat
         /\ \A counter \in Words :
              OnLoops(main_stack, Append(Pop1(loop_stack), counter), for_loop_level, TRUE) =>
                RunInv(Hs, Ls)'
         /\ \A left :
                /\ left \in Seq(Words) /\ Len(left) = Len(loop_stack) - slots
                /\ \A i \in 1..(Len(loop_stack) - slots) : left[i] = loop_stack[i]
                /\ OnLoops(main_stack, left, for_loop_level - slots, FALSE)
              => RunInv(Hs, Ls)'
<1> DEFINE f == current_function
<1>1. Opcode = At(Body(f), ip)
  BY DEF Running, Opcode
<1>2. /\ Takes(f, ip) = 0 /\ Leaves(f, ip) = 0 /\ is_w_jump(Opcode) /\ Opcode # W_OP_JUMP
      /\ Opens(Opcode) = -slots /\ slots \in {1, 2}
  BY <1>1, Effects
<1>3. /\ loop_stack \in Seq(Words) /\ Len(loop_stack) \in Nat /\ Len(loop_stack) < StackSize
      /\ main_stack \in Seq(Words) /\ Len(main_stack) \in Nat /\ Len(main_stack) < StackSize
      /\ for_loop_level \in Nat /\ loops[Depth] \in Nat \ {0}
      /\ loops[Depth] + for_loop_level = Len(loop_stack)
  BY StackFacts DEF RunInv, StacksOK, Running
<1>4. for_loop_level >= slots /\ Len(loop_stack) > slots
  <2>1. Ls[f][ip] + Opens(Opcode) >= 0 /\ for_loop_level = Ls[f][ip]
    BY NextTyped DEF Running
  <2>2. QED
    BY <1>2, <1>3, <2>1
<1>5. ASSUME NEW counter \in Words,
             OnLoops(main_stack, Append(Pop1(loop_stack), counter), for_loop_level, TRUE)
      PROVE  RunInv(Hs, Ls)'
  <2>1. loop_stack # <<>>
    BY <1>2, <1>3, <1>4, EmptySeq
  <2>2. /\ Pop1(loop_stack) \in Seq(Words) /\ Len(Pop1(loop_stack)) = Len(loop_stack) - 1
        /\ \A i \in 1..(Len(loop_stack) - 1) : Pop1(loop_stack)[i] = loop_stack[i]
    BY <1>3, <2>1, TopFacts
  <2> DEFINE stack == Append(Pop1(loop_stack), counter)
  <2>3. /\ stack \in Seq(Words) /\ Len(stack) = Len(loop_stack) - 1 + 1
        /\ \A i \in 1..(Len(loop_stack) - 1) : stack[i] = Pop1(loop_stack)[i]
    BY <2>2, PushFacts
  <2>4. \A i \in 1..loops[Depth] : stack[i] = loop_stack[i]
    BY <1>2, <1>3, <1>4, <2>2, <2>3, SMTT(40)
  <2>5. /\ Len(stack) = Len(loop_stack)
        /\ Len(stack) < StackSize
        /\ Len(main_stack) = Len(main_stack) - 0
    BY <1>3, <2>3
  <2>6. Loops(loops, main_stack, stack)
    BY <1>2, <1>3, <2>3, <2>4, <2>5 DEF Loops
  <2>7. QED
    BY <1>5, <2>5, <2>6, LoopsMove
<1>6. ASSUME NEW left, left \in Seq(Words), Len(left) = Len(loop_stack) - slots,
             \A i \in 1..(Len(loop_stack) - slots) : left[i] = loop_stack[i],
             OnLoops(main_stack, left, for_loop_level - slots, FALSE)
      PROVE  RunInv(Hs, Ls)'
  <2>1. \A i \in 1..loops[Depth] : left[i] = loop_stack[i]
    <3>1. loops[Depth] <= Len(loop_stack) - slots
      BY <1>2, <1>3, <1>4
    <3>2. \A i \in 1..loops[Depth] : i \in 1..(Len(loop_stack) - slots)
      BY <1>2, <1>3, <3>1
    <3>3. QED
      BY <1>6, <3>2
  <2>2. /\ for_loop_level - slots = for_loop_level + Opens(Opcode)
        /\ Len(left) = Len(loop_stack) + Opens(Opcode)
        /\ Len(left) < StackSize
        /\ Len(main_stack) = Len(main_stack) - 0
    BY <1>2, <1>3, <1>6 DEF InterpreterAssumption
  <2>3. Loops(loops, main_stack, left)
    BY <1>2, <1>3, <1>6, <2>1, <2>2 DEF Loops
  <2>4. QED
    BY <1>6, <2>2, <2>3, LoopsMove
<1>7. \A left :
          /\ left \in Seq(Words) /\ Len(left) = Len(loop_stack) - slots
          /\ \A i \in 1..(Len(loop_stack) - slots) : left[i] = loop_stack[i]
          /\ OnLoops(main_stack, left, for_loop_level - slots, FALSE)
        => RunInv(Hs, Ls)'
  BY <1>6
<1>8. QED
  BY <1>3, <1>4, <1>5, <1>7

LEMMA WordModulo ==
  ASSUME InterpreterAssumption, NEW n \in Int
  PROVE  n % WordBase \in Words
BY DEF InterpreterAssumption, Words

LEMMA ForDecKeeps ==
  ASSUME NEW Hs, NEW Ls, RunInv(Hs, Ls), RunForDec, InterpreterAssumption
  PROVE  RunInv(Hs, Ls)'
<1>1. PICK loops, frames : Running(Hs, Ls, loops, frames)
  BY FetchFacts DEF RunForDec
<1> DEFINE counter == (Last(loop_stack) - 1) % WordBase
<1>2. Opcode = W_OP_FOR_DEC /\ run_status = "running"
  BY <1>1, OpcodeIs DEF RunForDec
<1>3. Opcode \in W_OP_FOR_UPDATES
  BY <1>2 DEF W_OP_FOR_UPDATES
<1>4. /\ Len(loop_stack) > 1 /\ Len(loop_stack) \in Nat
      /\ \A value \in Words :
           OnLoops(main_stack, Append(Pop1(loop_stack), value), for_loop_level, TRUE) =>
             RunInv(Hs, Ls)'
      /\ \A left :
             /\ left \in Seq(Words) /\ Len(left) = Len(loop_stack) - 1
             /\ \A i \in 1..(Len(loop_stack) - 1) : left[i] = loop_stack[i]
             /\ OnLoops(main_stack, left, for_loop_level - 1, FALSE)
           => RunInv(Hs, Ls)'
  BY <1>1, <1>2, <1>3, UpdateKeeps
<1>5. loop_stack \in Seq(Words) /\ loop_stack # <<>>
  BY <1>4 DEF RunInv, StacksOK
<1>6. /\ Last(loop_stack) \in Words /\ Pop1(loop_stack) \in Seq(Words)
      /\ Len(Pop1(loop_stack)) = Len(loop_stack) - 1
      /\ \A i \in 1..(Len(loop_stack) - 1) : Pop1(loop_stack)[i] = loop_stack[i]
  BY <1>5, TopFacts
<1>7. Last(loop_stack) - 1 \in Int
  BY <1>6 DEF Words
<1>8. counter \in Words
  BY <1>7, WordModulo
<1>9. CASE counter > 0
  <2>1. OnLoops(main_stack, Append(Pop1(loop_stack), counter), for_loop_level, TRUE)
    BY <1>5, <1>9 DEF RunForDec
  <2>2. QED
    BY <1>4, <1>8, <2>1
<1>10. CASE ~(counter > 0)
  <2>1. OnLoops(main_stack, Pop1(loop_stack), for_loop_level - 1, FALSE)
    BY <1>5, <1>10 DEF RunForDec
  <2>2. QED
    BY <1>4, <1>6, <2>1
<1>11. QED
  BY <1>9, <1>10

LEMMA ForIncKeeps ==
  ASSUME NEW Hs, NEW Ls, RunInv(Hs, Ls), RunForInc, InterpreterAssumption
  PROVE  RunInv(Hs, Ls)'
<1>1. PICK loops, frames : Running(Hs, Ls, loops, frames)
  BY FetchFacts DEF RunForInc
<1> DEFINE counter == (Last(loop_stack) + 1) % WordBase
           target == loop_stack[Len(loop_stack) - 1]
<1>2. Opcode = W_OP_FOR_INC /\ run_status = "running"
  BY <1>1, OpcodeIs DEF RunForInc
<1>3. Opcode \in W_OP_FOR_UPDATES /\ Opcode # W_OP_FOR_DEC
  BY <1>2 DEF W_OP_FOR_UPDATES, W_OP_FOR_DEC, W_OP_FOR_INC
<1>4. /\ Len(loop_stack) > 2 /\ Len(loop_stack) \in Nat
      /\ \A value \in Words :
           OnLoops(main_stack, Append(Pop1(loop_stack), value), for_loop_level, TRUE) =>
             RunInv(Hs, Ls)'
      /\ \A left :
             /\ left \in Seq(Words) /\ Len(left) = Len(loop_stack) - 2
             /\ \A i \in 1..(Len(loop_stack) - 2) : left[i] = loop_stack[i]
             /\ OnLoops(main_stack, left, for_loop_level - 2, FALSE)
           => RunInv(Hs, Ls)'
  BY <1>1, <1>2, <1>3, UpdateKeeps
<1>5. loop_stack \in Seq(Words) /\ loop_stack # <<>>
  BY <1>4 DEF RunInv, StacksOK
<1>6. /\ Last(loop_stack) \in Words /\ Pop1(loop_stack) \in Seq(Words)
      /\ Len(Pop1(loop_stack)) = Len(loop_stack) - 1
      /\ \A i \in 1..(Len(loop_stack) - 1) : Pop1(loop_stack)[i] = loop_stack[i]
  BY <1>5, TopFacts
<1>7. Last(loop_stack) + 1 \in Int
  BY <1>6 DEF Words
<1>8. counter \in Words
  BY <1>7, WordModulo
<1> HIDE DEF counter
<1>20. ~(Len(loop_stack) < 2) /\ Len(loop_stack) >= 2
  BY <1>4
<1>9. CASE counter < target
  <2>1. OnLoops(main_stack, Append(Pop1(loop_stack), counter), for_loop_level, TRUE)
    BY <1>20, <1>9, Zenon DEF RunForInc, counter
  <2>2. QED
    BY <1>4, <1>8, <2>1
<1>10. CASE ~(counter < target)
  <2>1. OnLoops(main_stack, Pop1(Pop1(loop_stack)), for_loop_level - 2, FALSE)
    BY <1>20, <1>10, Zenon DEF RunForInc, counter
  <2>2. Pop1(loop_stack) # <<>>
    BY <1>4, <1>6, EmptySeq
  <2>3. /\ Pop1(Pop1(loop_stack)) \in Seq(Words)
        /\ Len(Pop1(Pop1(loop_stack))) = Len(loop_stack) - 1 - 1
        /\ \A i \in 1..(Len(loop_stack) - 1 - 1) :
             Pop1(Pop1(loop_stack))[i] = Pop1(loop_stack)[i]
    BY <1>6, <2>2, TopFacts
  <2>4. Len(loop_stack) - 1 - 1 = Len(loop_stack) - 2
        /\ \A i \in 1..(Len(loop_stack) - 2) : i \in 1..(Len(loop_stack) - 1)
    BY <1>4
  <2>5. QED
    BY <1>4, <1>6, <2>1, <2>3, <2>4
<1>11. QED
  BY <1>9, <1>10

LEMMA GetLoopVarKeeps ==
  ASSUME NEW Hs, NEW Ls, RunInv(Hs, Ls), RunGetLoopVar, InterpreterAssumption
  PROVE  RunInv(Hs, Ls)' /\ read_u16(Code, ip + 1) < for_loop_level
<1>1. PICK loops, frames : Running(Hs, Ls, loops, frames)
  BY FetchFacts DEF RunGetLoopVar
<1> DEFINE offset == read_u16(Code, ip + 1)
           f == current_function
<1>2. /\ Opcode = W_OP_GET_LOOP_VAR /\ run_status = "running" /\ Opcode = At(Body(f), ip)
  BY <1>1, OpcodeIs DEF RunGetLoopVar
<1>3. Takes(f, ip) = 0 /\ Leaves(f, ip) = 1 /\ Opens(Opcode) = 0
      /\ Opcode \notin {W_OP_JUMP, W_OP_RET, W_OP_EXIT}
  BY <1>2, Effects
<1>4. offset \in 0..(Ls[f][ip] - 1)
  BY <1>1, <1>2 DEF Running, TypedAt, OperandOK
<1>5. /\ main_stack \in Seq(Words) /\ Len(main_stack) \in Nat /\ Len(main_stack) < StackSize
      /\ loop_stack \in Seq(Words) /\ Len(loop_stack) \in Nat
      /\ Ls[f][ip] \in Nat /\ for_loop_level = Ls[f][ip] /\ loops[Depth] \in Nat
      /\ loops[Depth] + for_loop_level = Len(loop_stack)
  BY <1>1, StackFacts DEF RunInv, StacksOK, Running
<1>6. offset < for_loop_level /\ Len(loop_stack) > offset
      /\ Len(loop_stack) - offset \in 1..Len(loop_stack)
  BY <1>4, <1>5, SMTT(40)
<1>7. CASE PushFails(main_stack, 1)
  <2>1. Stop("overflow")
    BY <1>6, <1>7, <1>5, <1>4 DEF RunGetLoopVar
  <2>2. QED
    BY <1>2, <1>6, <2>1, StopKeeps
<1>8. CASE ~PushFails(main_stack, 1)
  <2> DEFINE word == loop_stack[Len(loop_stack) - offset]
  <2>1. OnMain(Append(main_stack, word))
    BY <1>6, <1>8, <1>5, <1>4 DEF RunGetLoopVar
  <2>2. word \in Words
    BY <1>5, <1>6, ElementOfSeq
  <2>3. /\ Append(main_stack, word) \in Seq(Words)
        /\ Len(Append(main_stack, word)) = Len(main_stack) + 1
    BY <1>5, <2>2, PushFacts
  <2>4. Len(main_stack) + 1 < StackSize
    BY <1>5, <1>8 DEF PushFails, InterpreterAssumption
  <2>5. Len(main_stack) + 1 = Len(main_stack) - 0 + 1
    BY <1>5
  <2>6. QED
    BY <1>1, <1>2, <1>3, <1>6, <2>1, <2>3, <2>4, <2>5, MainKeeps
<1>9. QED
  BY <1>7, <1>8

-----------------------------------------------------------------------------
(* The local variables.                                                    *)

LEMMA OneFacts ==
  ASSUME NEW S, NEW stack \in Seq(S), NEW i \in 1..Len(stack)
  PROVE  stack[i] \in S /\ SubSeq(stack, i, i) = <<stack[i]>>
<1>1. Len(stack) \in Nat /\ i \in Int
  BY LenProperties
<1>2. stack[i] \in S
  BY ElementOfSeq
<1>3. \A k \in i..i : stack[k] \in S
  BY <1>1, <1>2
<1>4. /\ SubSeq(stack, i, i) \in Seq(S)
      /\ Len(SubSeq(stack, i, i)) = IF i <= i THEN i - i + 1 ELSE 0
      /\ \A k \in 1..(i - i + 1) : SubSeq(stack, i, i)[k] = stack[i + k - 1]
  BY <1>1, <1>3, SubSeqProperties
<1> DEFINE word == SubSeq(stack, i, i)
<1>5. word \in Seq(S) /\ Len(word) = 1 /\ word[1] = stack[i]
  BY <1>1, <1>4
<1> HIDE DEF word
<1>6. <<stack[i]>> \in Seq(S) /\ Len(<<stack[i]>>) = 1 /\ <<stack[i]>>[1] = stack[i]
  BY <1>2
<1>7. word = <<stack[i]>>
  BY <1>5, <1>6, SeqEqual
<1>8. QED
  BY <1>2, <1>7 DEF word

LEMMA LocalFacts ==
  ASSUME NEW Hs, NEW Ls, RunInv(Hs, Ls), NEW loops, NEW frames, Running(Hs, Ls, loops, frames),
         Opcode \in {W_OP_LOCAL_GET, W_OP_LOCAL_SET},
         NEW index, index = read_u16(Code, ip + 1)
  PROVE  /\ index \in Nat /\ LocalSize(index) = 1
         /\ locals_base \in Nat \ {0} /\ locals_base = frames[Depth]
         /\ locals_base + index + 1 \in 1..Len(auxiliary_stack)
<1>1. index \in 0..(LocalsSize(current_function) - 1)
  BY DEF Running, TypedAt, OperandOK, Opcode
<1>2. /\ Len(locals[current_function + 1]) \in Nat
      /\ LocalsSize(current_function) = Len(locals[current_function + 1])
      /\ locals_base \in Nat \ {0} /\ locals_base = frames[Depth] /\ Len(auxiliary_stack) \in Nat
      /\ locals_base + LocalsSize(current_function) = Len(auxiliary_stack)
  BY DEF Running, LocalsSize
<1>3. LocalSize(index) = 1
  BY <1>1, <1>2 DEF LocalSize
<1>4. QED
  BY <1>1, <1>2, <1>3

LEMMA LocalGetKeeps ==
  ASSUME NEW Hs, NEW Ls, RunInv(Hs, Ls), RunLocalGet, InterpreterAssumption
  PROVE  RunInv(Hs, Ls)'
<1>1. PICK loops, frames : Running(Hs, Ls, loops, frames)
  BY FetchFacts DEF RunLocalGet
<1> DEFINE index == read_u16(Code, ip + 1)
           first == locals_base + index + 1
           words == SubSeq(auxiliary_stack, first, first + LocalSize(index) - 1)
<1>2. /\ Opcode = W_OP_LOCAL_GET /\ run_status = "running"
      /\ Opcode = At(Body(current_function), ip)
  BY <1>1, OpcodeIs DEF RunLocalGet
<1>3. Takes(current_function, ip) = 0 /\ Leaves(current_function, ip) = 1
      /\ Opens(Opcode) = 0 /\ Opcode \notin {W_OP_JUMP, W_OP_RET, W_OP_EXIT}
  BY <1>2, Effects
<1>4. LocalSize(index) = 1 /\ first \in 1..Len(auxiliary_stack)
  BY <1>1, <1>2, LocalFacts
<1>5. /\ main_stack \in Seq(Words) /\ Len(main_stack) \in Nat /\ Len(main_stack) < StackSize
      /\ auxiliary_stack \in Seq(Words) /\ Len(auxiliary_stack) \in Nat
      /\ StackSize \in Nat
  BY StackFacts DEF RunInv, StacksOK, InterpreterAssumption
<1>6. CASE StackSize - Len(main_stack) <= LocalSize(index)
  BY <1>2, <1>6, StopKeeps DEF RunLocalGet
<1>7. CASE ~(StackSize - Len(main_stack) <= LocalSize(index))
  <2>1. OnMain(main_stack \o words)
    BY <1>7 DEF RunLocalGet
  <2>2. words = <<auxiliary_stack[first]>> /\ auxiliary_stack[first] \in Words
    <3>1. first + 1 - 1 = first
      BY <1>4, <1>5
    <3>2. words = SubSeq(auxiliary_stack, first, first)
      BY <1>4, <3>1
    <3>3. QED
      BY <1>4, <1>5, <3>2, OneFacts
  <2> DEFINE stack == main_stack \o words
  <2>3. stack \in Seq(Words) /\ Len(stack) = Len(main_stack) + 1
    <3>1. \A word \in Words : <<word>> \in Seq(Words) /\ Len(<<word>>) = 1
      OBVIOUS
    <3>2. words \in Seq(Words) /\ Len(words) = 1
      BY <2>2, <3>1
    <3>3. QED
      BY <1>5, <3>2, ConcatProperties
  <2>4. Len(stack) < StackSize /\ Len(stack) = Len(main_stack) - 0 + 1
    BY <1>4, <1>5, <1>7, <2>3
  <2> HIDE DEF stack
  <2>5. QED
    BY <1>1, <1>2, <1>3, <2>1, <2>3, <2>4, MainKeeps DEF stack
<1>8. QED
  BY <1>6, <1>7

LEMMA LocalSetKeeps ==
  ASSUME NEW Hs, NEW Ls, RunInv(Hs, Ls), RunLocalSet, InterpreterAssumption
  PROVE  RunInv(Hs, Ls)'
<1>1. PICK loops, frames : Running(Hs, Ls, loops, frames)
  BY FetchFacts DEF RunLocalSet
<1> DEFINE f == current_function
           index == read_u16(Code, ip + 1)
           next == ip + get_w_instruction_size(Opcode)
<1>2. /\ Opcode = W_OP_LOCAL_SET /\ run_status = "running" /\ Opcode = At(Body(f), ip)
  BY <1>1, OpcodeIs DEF RunLocalSet
<1>3. Takes(f, ip) = 1 /\ Leaves(f, ip) = 0 /\ Opens(Opcode) = 0
      /\ Opcode \notin {W_OP_JUMP, W_OP_RET, W_OP_EXIT}
  BY <1>2, Effects
<1>4. /\ index \in Nat /\ LocalSize(index) = 1 /\ locals_base \in Nat
      /\ locals_base = frames[Depth]
      /\ locals_base + index + 1 \in 1..Len(auxiliary_stack)
  BY <1>1, <1>2, LocalFacts
<1>5. /\ main_stack # <<>> /\ Len(main_stack) \in Nat \ {0} /\ Last(main_stack) \in Words
      /\ Len(Pop1(main_stack)) < StackSize
      /\ Pop1(main_stack) \in Seq(Words) /\ Len(Pop1(main_stack)) = Len(main_stack) - 1
  BY <1>1, <1>3, NotEmpty
<1>6. ~(Len(main_stack) < LocalSize(index)) /\ LocalSize(index) # 0
  BY <1>4, <1>5
<1>7. /\ auxiliary_stack' = [auxiliary_stack EXCEPT ![locals_base + index + 1] = Last(main_stack)]
      /\ main_stack' = SubSeq(main_stack, 1, Len(main_stack) - LocalSize(index))
      /\ ip' = next
      /\ UNCHANGED <<input, run_status, loop_stack, call_stack, locals_base, current_function,
                     for_loop_level>>
  BY <1>6, Zenon DEF RunLocalSet, Advance
<1>8. main_stack' = Pop1(main_stack)
  BY <1>4, <1>7 DEF Pop1
<1>9. auxiliary_stack \in Seq(Words) /\ Len(auxiliary_stack) \in Nat
  BY StackFacts DEF RunInv, StacksOK
<1>10. /\ auxiliary_stack' \in Seq(Words)
       /\ Len(auxiliary_stack') = Len(auxiliary_stack)
       /\ \A i \in 1..Len(auxiliary_stack) :
            auxiliary_stack'[i] = IF i = locals_base + index + 1 THEN Last(main_stack)
                                  ELSE auxiliary_stack[i]
  BY <1>4, <1>5, <1>7, <1>9, ExceptSeq, SMTT(40)
<1>11. \A i \in 1..frames[Depth] : auxiliary_stack'[i] = auxiliary_stack[i]
  <2>1. \A i \in 1..locals_base : i \in 1..Len(auxiliary_stack) /\ i # locals_base + index + 1
    BY <1>4, <1>9
  <2>2. QED
    BY <1>4, <1>10, <2>1
<1>12. /\ next \in WStarts(Body(f)) /\ Hs[f][next] = Hs[f][ip] - 1 + 0
       /\ Ls[f][next] = Ls[f][ip] + 0
  BY <1>1, <1>3, NextTyped
<1>13. /\ Hs[f][ip] \in Nat /\ Ls[f][ip] \in Nat /\ Len(loop_stack) \in Nat
       /\ for_loop_level = Ls[f][ip] /\ loops[Depth] + for_loop_level = Len(loop_stack)
  BY <1>1 DEF Running
<1>14. /\ Len(main_stack') = Len(main_stack) - Hs[f][ip] + Hs[f][next]
       /\ Ls[f][next] = Ls[f][ip]
  BY <1>5, <1>8, <1>12, <1>13, SMTT(40)
<1>15. Within(Hs, Ls, loops, frames)
  BY <1>7, <1>10, <1>11, <1>12, <1>13, <1>14 DEF Within
<1>16. QED
  BY <1>1, <1>2, <1>5, <1>7, <1>8, <1>10, <1>15, StepWithin DEF RunInv, StacksOK

-----------------------------------------------------------------------------
(* Calls.                                                                  *)

\* What call leaves, when nothing overflows.
Entered(f, next) ==
  /\ run_status' = "running"
  /\ UNCHANGED <<input, main_stack>>
  /\ call_stack' = Append(call_stack, [func |-> current_function, ip |-> next,
                                       height |-> Len(main_stack)])
  /\ loop_stack' = Append(loop_stack, for_loop_level)
  /\ for_loop_level' = 0 /\ current_function' = f /\ ip' = 0
  /\ locals_base' = Len(auxiliary_stack) + 1
  /\ Len(auxiliary_stack') = Len(auxiliary_stack) + 1 + LocalsSize(f)
  /\ \A i \in 1..Len(auxiliary_stack) : auxiliary_stack'[i] = auxiliary_stack[i]
  /\ auxiliary_stack'[Len(auxiliary_stack) + 1] = locals_base
  /\ StacksOK'

LEMMA CallEnters ==
  ASSUME NEW f, NEW next, Call(f, next), StacksOK, InterpreterAssumption,
         current_function \in Nat, next \in Nat, LocalsSize(f) \in Nat,
         for_loop_level \in 0..Len(loop_stack), locals_base \in 0..Len(auxiliary_stack)
  PROVE  Entered(f, next) \/ Stop("overflow") \/ Stop("out_of_bounds")
<1> DEFINE frame == [func |-> current_function, ip |-> next, height |-> Len(main_stack)]
<1>1. /\ main_stack \in Seq(Words) /\ auxiliary_stack \in Seq(Words) /\ loop_stack \in Seq(Words)
      /\ call_stack \in Seq([func : Nat, ip : Nat, height : Nat])
      /\ Len(main_stack) \in Nat /\ Len(auxiliary_stack) \in Nat /\ Len(loop_stack) \in Nat
      /\ Len(call_stack) \in Nat
      /\ Len(main_stack) < StackSize /\ Len(loop_stack) < StackSize /\ Len(call_stack) < StackSize
      /\ Len(auxiliary_stack) <= StackSize
  BY StackFacts DEF StacksOK
<1>2. StackSize \in Nat /\ WordBase \in Nat /\ WordBase > StackSize /\ Junk \subseteq Words
  BY DEF InterpreterAssumption
<1>3. SUFFICES ASSUME ~Stop("overflow"), ~Stop("out_of_bounds") PROVE Entered(f, next)
  OBVIOUS
<1>4. /\ ~PushFails(call_stack, 1) /\ ~PushFails(loop_stack, 1)
      /\ Len(auxiliary_stack) # StackSize
      /\ ~(Len(auxiliary_stack) + 1 + LocalsSize(f) > StackSize)
      /\ run_status' = "running"
      /\ call_stack' = Append(call_stack, frame)
      /\ loop_stack' = Append(loop_stack, for_loop_level)
      /\ for_loop_level' = 0 /\ current_function' = f
      /\ \E reserved \in [1..LocalsSize(f) -> Junk] :
           auxiliary_stack' = Append(auxiliary_stack, locals_base) \o reserved
      /\ locals_base' = Len(auxiliary_stack) + 1 /\ ip' = 0
      /\ UNCHANGED <<input, main_stack>>
  BY <1>3, Zenon DEF Call
<1>5. Len(call_stack) + 1 < StackSize /\ Len(loop_stack) + 1 < StackSize
  <2>1. 0 \in 0..(1 - 1)
    OBVIOUS
  <2>2. Len(call_stack) + 0 # StackSize - 1 /\ Len(loop_stack) + 0 # StackSize - 1
    BY <1>4, <2>1 DEF PushFails
  <2>3. \A a, b \in Nat : a < b /\ a + 0 # b - 1 => a + 1 < b
    OBVIOUS
  <2>4. QED
    BY <1>1, <1>2, <2>2, <2>3
<1>6. for_loop_level \in Words /\ locals_base \in Words
  BY <1>1, <1>2 DEF Words
<1>7. PICK reserved \in [1..LocalsSize(f) -> Junk] :
        auxiliary_stack' = Append(auxiliary_stack, locals_base) \o reserved
  BY <1>4
<1>8. reserved \in Seq(Words) /\ Len(reserved) = LocalsSize(f)
  <2>1. reserved \in [1..LocalsSize(f) -> Words]
    BY <1>2, <1>7
  <2>2. QED
    BY <2>1
<1>9. /\ Append(auxiliary_stack, locals_base) \in Seq(Words)
      /\ Len(Append(auxiliary_stack, locals_base)) = Len(auxiliary_stack) + 1
      /\ \A i \in 1..Len(auxiliary_stack) :
           Append(auxiliary_stack, locals_base)[i] = auxiliary_stack[i]
      /\ Append(auxiliary_stack, locals_base)[Len(auxiliary_stack) + 1] = locals_base
  BY <1>1, <1>6, PushFacts
<1> DEFINE pushed == Append(auxiliary_stack, locals_base)
<1>10. /\ pushed \o reserved \in Seq(Words)
       /\ Len(pushed \o reserved) = Len(pushed) + Len(reserved)
       /\ \A i \in 1..(Len(pushed) + Len(reserved)) :
            (pushed \o reserved)[i] = IF i <= Len(pushed) THEN pushed[i]
                                      ELSE reserved[i - Len(pushed)]
  BY <1>8, <1>9, ConcatProperties
<1> HIDE DEF pushed
<1>11. pushed = Append(auxiliary_stack, locals_base)
  BY DEF pushed
<1> DEFINE reservedOn == pushed \o reserved
<1>12. /\ reservedOn \in Seq(Words)
       /\ Len(reservedOn) = Len(auxiliary_stack) + 1 + LocalsSize(f)
       /\ \A i \in 1..(Len(auxiliary_stack) + 1) : reservedOn[i] = pushed[i]
       /\ auxiliary_stack' = reservedOn
  <2>1. /\ Len(pushed) = Len(auxiliary_stack) + 1 /\ Len(reserved) = LocalsSize(f)
        /\ Len(auxiliary_stack) \in Nat /\ LocalsSize(f) \in Nat
    BY <1>1, <1>8, <1>9, <1>11
  <2>2. \A i \in 1..(Len(auxiliary_stack) + 1) :
          i \in 1..(Len(pushed) + Len(reserved)) /\ i <= Len(pushed)
    BY <2>1
  <2>3. QED
    BY <1>7, <1>10, <1>11, <2>1, <2>2
<1> HIDE DEF reservedOn
<1>13. /\ auxiliary_stack' \in Seq(Words)
       /\ Len(auxiliary_stack') = Len(auxiliary_stack) + 1 + LocalsSize(f)
       /\ \A i \in 1..Len(auxiliary_stack) : auxiliary_stack'[i] = auxiliary_stack[i]
       /\ auxiliary_stack'[Len(auxiliary_stack) + 1] = locals_base
  <2>1. /\ Len(auxiliary_stack) + 1 \in 1..(Len(auxiliary_stack) + 1)
        /\ \A i \in 1..Len(auxiliary_stack) : i \in 1..(Len(auxiliary_stack) + 1)
    BY <1>1
  <2>2. \A i \in 1..(Len(auxiliary_stack) + 1) :
          auxiliary_stack'[i] = Append(auxiliary_stack, locals_base)[i]
    BY <1>11, <1>12
  <2>3. QED
    BY <1>9, <1>12, <2>1, <2>2
<1>14. loop_stack' \in Seq(Words) /\ Len(loop_stack') = Len(loop_stack) + 1
  BY <1>1, <1>4, <1>6, PushFacts
<1>15. frame \in [func : Nat, ip : Nat, height : Nat]
  BY <1>1
<1>16. /\ call_stack' \in Seq([func : Nat, ip : Nat, height : Nat])
       /\ Len(call_stack') = Len(call_stack) + 1
  BY <1>1, <1>4, <1>15, PushFacts
<1>17. Len(auxiliary_stack) + 1 + LocalsSize(f) <= StackSize
  BY <1>1, <1>2, <1>4, SMTT(40)
<1>18. StacksOK'
  BY <1>1, <1>4, <1>5, <1>13, <1>14, <1>16, <1>17 DEF StacksOK, Words
<1>19. QED
  BY <1>4, <1>13, <1>18 DEF Entered

\* The new activation is in a state its typing allows.
LEMMA EnteredTop ==
  ASSUME NEW Hs, NEW Ls, Typing(Hs, Ls), NEW f \in Functions, NEW next, StacksOK,
         Entered(f, next), Len(main_stack) >= Len(sigs[f + 1].params),
         NEW top, top = Depth + 1, NEW loops, NEW frames,
         loops[top] = Len(loop_stack) + 1,
         frames[top] = Len(auxiliary_stack) + 1,
         locals_base = IF top = 1 THEN 0 ELSE frames[top - 1]
  PROVE  WellAt(top, Hs, Ls, loops, frames)' /\ Depth' = top
<1>1. /\ top \in Nat /\ Depth \in Nat /\ Len(loop_stack) \in Nat /\ Len(auxiliary_stack) \in Nat
      /\ Len(main_stack) \in Nat /\ call_stack \in Seq([func : Nat, ip : Nat, height : Nat])
      /\ loop_stack \in Seq(Words)
  BY StackFacts DEF Depth, StacksOK
<1>2. /\ w_code' = w_code /\ sigs' = sigs /\ locals' = locals /\ main_stack' = main_stack
      /\ current_function' = f /\ ip' = 0 /\ for_loop_level' = 0
      /\ Len(auxiliary_stack') = Len(auxiliary_stack) + 1 + LocalsSize(f)
      /\ auxiliary_stack'[Len(auxiliary_stack) + 1] = locals_base
  BY DEF Entered, input
<1>3. Len(loop_stack') = Len(loop_stack) + 1
  BY <1>1 DEF Entered
<1>4. /\ Len(call_stack') = top
      /\ call_stack'[top] = [func |-> current_function, ip |-> next,
                                   height |-> Len(main_stack)]
  BY <1>1 DEF Entered, Depth
<1>5. Depth' = top
  BY <1>4 DEF Depth
<1>6. /\ FuncAt(top)' = f /\ IpAt(top)' = 0
      /\ HeightAt(top)' = Len(main_stack) /\ LevelAt(top, loops)' = 0
      /\ LoopEnd(top, loops)' = Len(loop_stack) + 1
      /\ FrameEnd(top, frames)' = Len(auxiliary_stack) + 1 + LocalsSize(f)
  BY <1>2, <1>3, <1>5 DEF FuncAt, IpAt, HeightAt, LevelAt, LoopEnd, FrameEnd
<1>7. /\ Functions' = Functions /\ Body(f)' = Body(f) /\ LocalsSize(f)' = LocalsSize(f)
      /\ sigs'[f + 1] = sigs[f + 1]
  BY <1>2 DEF Functions, Body, LocalsSize
<1>8. /\ 0 \in WStarts(Body(f)) /\ Hs[f][0] = Len(sigs[f + 1].params) /\ Ls[f][0] = 0
      /\ Len(sigs[f + 1].params) \in Nat /\ LocalsSize(f) \in Nat
  BY FirstStart DEF Typing, LocalsSize
<1>9. call_stack'[top].height = Len(main_stack)
  BY <1>4
<1>10. Len(main_stack) = Len(main_stack) - Len(sigs[f + 1].params) + Hs[f][0]
  BY <1>1, <1>8
<1>11. auxiliary_stack'[frames[top]] = IF top = 1 THEN 0 ELSE frames[top - 1]
  BY <1>1, <1>2
<1>12. /\ loops[top] + 0 = Len(loop_stack) + 1
       /\ frames[top] + LocalsSize(f) = Len(auxiliary_stack) + 1 + LocalsSize(f)
  BY <1>1, <1>8
<1>13. QED
  BY <1>2, <1>5, <1>6, <1>7, <1>8, <1>9, <1>10, <1>11, <1>12 DEF WellAt

\* The bases of the activations, with one more.
LEMMA OneMore ==
  ASSUME NEW S, NEW depth \in Nat, NEW bases \in [1..depth -> S], NEW base \in S,
         NEW more, more = [n \in 1..(depth + 1) |-> IF n = depth + 1 THEN base ELSE bases[n]]
  PROVE  /\ more \in [1..(depth + 1) -> S]
         /\ more[depth + 1] = base /\ \A n \in 1..depth : more[n] = bases[n]
<1>1. /\ \A n \in 1..depth : n # depth + 1 /\ n \in 1..(depth + 1)
      /\ depth + 1 \in 1..(depth + 1)
      /\ \A n \in 1..(depth + 1) : n = depth + 1 \/ n \in 1..depth
  OBVIOUS
<1>2. QED
  BY <1>1

\* An activation that a step leaves as it was.
LEMMA WellStays ==
  ASSUME NEW Hs, NEW Ls, NEW n, NEW loops, NEW frames, NEW loops2, NEW frames2,
         WellAt(n, Hs, Ls, loops, frames), UNCHANGED input,
         FuncAt(n)' = FuncAt(n), IpAt(n)' = IpAt(n), HeightAt(n)' = HeightAt(n),
         LevelAt(n, loops2)' = LevelAt(n, loops), LoopEnd(n, loops2)' = LoopEnd(n, loops),
         FrameEnd(n, frames2)' = FrameEnd(n, frames), call_stack'[n] = call_stack[n],
         loops2[n] = loops[n], frames2[n] = frames[n], n # 1 => frames2[n - 1] = frames[n - 1],
         auxiliary_stack'[frames[n]] = auxiliary_stack[frames[n]]
  PROVE  WellAt(n, Hs, Ls, loops2, frames2)'
<1>1. w_code' = w_code /\ sigs' = sigs /\ locals' = locals
  BY DEF input
<1>2. QED
  BY <1>1 DEF WellAt, Functions, Body, LocalsSize

LEMMA StartKeeps ==
  ASSUME NEW Hs, NEW Ls, RunInv(Hs, Ls), RunStart, InterpreterAssumption
  PROVE  RunInv(Hs, Ls)'
<1>1. Idle /\ Typing(Hs, Ls) /\ StacksOK /\ run_status = "idle"
  BY DEF RunInv, RunStart
<1> DEFINE next == Len(w_code[1])
           caller == [func |-> 0, ip |-> next, height |-> 0]
<1>2. /\ w_code \in Seq(Seq(Nat)) /\ w_code # <<>> /\ 0 \in Functions /\ next \in Nat
  <2>1. w_code \in Seq(Seq(Nat)) /\ w_code # <<>>
    BY <1>1 DEF Typing
  <2>2. Len(w_code) \in Nat \ {0}
    BY <2>1, EmptySeq
  <2>3. w_code[1] \in Seq(Nat)
    BY <2>1, <2>2, ElementOfSeq
  <2>4. QED
    BY <2>1, <2>2, <2>3, LenProperties DEF Functions
<1>3. /\ LocalsSize(0) \in Nat /\ Len(sigs[1].params) = 0
      /\ sigs[0 + 1] = sigs[1]
  <2>1. 0 + 1 = 1
    OBVIOUS
  <2>2. Len(locals[0 + 1]) \in Nat /\ sigs[1].params = <<>>
    BY <1>1, <1>2 DEF Typing
  <2>3. QED
    BY <2>1, <2>2 DEF LocalsSize
<1>4. /\ main_stack = <<>> /\ auxiliary_stack = <<>> /\ loop_stack = <<>> /\ call_stack = <<>>
      /\ locals_base = 0 /\ current_function = 0 /\ for_loop_level = 0 /\ ip = 0
      /\ Len(main_stack) = 0 /\ Len(auxiliary_stack) = 0 /\ Len(loop_stack) = 0
      /\ Len(call_stack) = 0 /\ Depth = 0
  BY <1>1 DEF Idle, Depth
<1>5. Entered(0, next) \/ Stop("overflow") \/ Stop("out_of_bounds")
  <2>1. Call(0, next)
    BY DEF RunStart
  <2>2. /\ current_function \in Nat /\ for_loop_level \in 0..Len(loop_stack)
        /\ locals_base \in 0..Len(auxiliary_stack)
    BY <1>4
  <2>3. QED
    BY <1>1, <1>2, <1>3, <2>1, <2>2, CallEnters
<1>6. CASE Stop("overflow") \/ Stop("out_of_bounds")
  <2>1. /\ UNCHANGED <<w_code, sigs, locals, main_stack, auxiliary_stack, loop_stack, call_stack>>
        /\ UNCHANGED <<locals_base, current_function, ip, for_loop_level>>
        /\ run_status' \in {"overflow", "out_of_bounds"}
    BY <1>6 DEF Stop, input, stacks, registers
  <2>2. Typing(Hs, Ls)'
    BY <1>1, <2>1, TypingStays DEF input
  <2>3. StacksOK'
    BY <1>1, <2>1 DEF StacksOK
  <2>4. Idle'
    BY <1>4, <2>1 DEF Idle
  <2>5. QED
    BY <2>2, <2>3, <2>4 DEF RunInv
<1>7. CASE Entered(0, next)
  <2> DEFINE bases == [n \in 1..1 |-> 1]
  <2>1. bases \in [1..1 -> Nat \ {0}] /\ bases[1] = 1
    OBVIOUS
  <2> HIDE DEF bases
  <2>2. WellAt(1, Hs, Ls, bases, bases)' /\ Depth' = 1
    <3>1. /\ bases[1] = Len(loop_stack) + 1 /\ bases[1] = Len(auxiliary_stack) + 1
          /\ locals_base = IF 1 = 1 THEN 0 ELSE bases[1 - 1]
          /\ 1 = Depth + 1
          /\ Len(main_stack) >= Len(sigs[0 + 1].params)
      BY <1>3, <1>4, <2>1
    <3>2. QED
      BY <1>1, <1>2, <1>7, <3>1, EnteredTop
  <2>3. call_stack'[1] = caller /\ loop_stack'[1] = 0
    BY <1>4, <1>7 DEF Entered
  <2>4. /\ UNCHANGED input /\ locals_base' = 1 /\ current_function' = 0
        /\ run_status' = "running" /\ StacksOK'
    BY <1>4, <1>7 DEF Entered
  <2>5. FuncAt(1)' = 0 /\ w_code' = w_code
    BY <2>2, <2>4 DEF FuncAt, input
  <2>6. \A n \in 1..1 : n = 1
    OBVIOUS
  <2>7. Active(Hs, Ls, bases, bases)'
    BY <2>1, <2>2, <2>3, <2>4, <2>5, <2>6 DEF Active
  <2>8. Typing(Hs, Ls)'
    BY <1>1, <2>4, TypingStays
  <2>9. QED
    BY <2>4, <2>7, <2>8 DEF RunInv
<1>8. QED
  BY <1>5, <1>6, <1>7

\* What the invariant says of the stacks below the activation that runs.
LEMMA BasesBelow ==
  ASSUME NEW Hs, NEW Ls, NEW loops, NEW frames, Running(Hs, Ls, loops, frames), NEW n \in 1..Depth
  PROVE  /\ loops[n] \in Nat \ {0} /\ frames[n] \in Nat \ {0}
         /\ loops[n] <= loops[Depth] /\ frames[n] <= frames[Depth]
         /\ loops[n] \in 1..Len(loop_stack) /\ frames[n] \in 1..Len(auxiliary_stack)
         /\ n < Depth => loops[n] < loops[Depth] /\ frames[n] < frames[Depth]
<1>1. /\ Active(Hs, Ls, loops, frames) /\ Depth \in Nat /\ Depth > 0
      /\ loops[Depth] \in Nat \ {0} /\ frames[Depth] \in Nat \ {0}
      /\ for_loop_level = Ls[current_function][ip] /\ Ls[current_function][ip] \in Nat
      /\ Len(loop_stack) \in Nat /\ loops[Depth] + for_loop_level = Len(loop_stack)
      /\ Len(auxiliary_stack) \in Nat /\ locals_base = frames[Depth]
      /\ Len(locals[current_function + 1]) \in Nat
      /\ locals_base + LocalsSize(current_function) = Len(auxiliary_stack)
  BY DEF Running
<1>2. Depth \in 1..Depth
  BY <1>1
<1>3. /\ loops[n] \in Nat \ {0} /\ frames[n] \in Nat \ {0}
      /\ n < Depth => loops[n] < loops[Depth] /\ frames[n] < frames[Depth]
  BY <1>1, <1>2 DEF Active
<1>4. loops[n] <= loops[Depth] /\ frames[n] <= frames[Depth]
  BY <1>1, <1>3
<1>5. loops[Depth] <= Len(loop_stack) /\ frames[Depth] <= Len(auxiliary_stack)
  BY <1>1, SMTT(40) DEF LocalsSize
<1>6. QED
  BY <1>1, <1>3, <1>4, <1>5, SMTT(40)

\* What a call finds.
LEMMA CallFacts ==
  ASSUME NEW Hs, NEW Ls, RunInv(Hs, Ls), RunCall, NEW loops, NEW frames,
         Running(Hs, Ls, loops, frames)
  PROVE  LET f == At(Code, ip + 1)
             caller == current_function
         IN  /\ f \in Functions /\ f \in Nat /\ LocalsSize(f) \in Nat
             /\ Len(sigs[f + 1].params) \in Nat /\ Len(sigs[f + 1].rets) \in Nat
             /\ Len(main_stack) >= Len(sigs[f + 1].params)
             /\ ip + 1 + 1 \in WStarts(Body(caller))
             /\ Len(main_stack) - Len(sigs[f + 1].params) + Len(sigs[f + 1].rets)
                  = call_stack[Depth].height - Len(sigs[caller + 1].params)
                      + Hs[caller][ip + 1 + 1]
             /\ Ls[caller][ip + 1 + 1] = for_loop_level
             /\ for_loop_level \in 0..Len(loop_stack)
             /\ locals_base \in 0..Len(auxiliary_stack)
<1> DEFINE f == At(Code, ip + 1)
           caller == current_function
<1>1. Fetch({W_OP_CALL8}) /\ Typing(Hs, Ls)
  BY DEF RunCall, RunInv
<1>2. Opcode = At(Body(caller), ip) /\ Opcode = W_OP_CALL8 /\ Code = Body(caller)
      /\ ip \in Nat /\ caller \in Functions
  <2>1. Opcode = At(Body(caller), ip) /\ Opcode \in {W_OP_CALL8}
    BY <1>1, OpcodeIs
  <2>2. Code = Body(caller) /\ ip \in Nat /\ caller \in Functions
    BY DEF Running
  <2>3. QED
    BY <2>1, <2>2
<1>3. f \in Functions
  <2>1. OperandOK(caller, ip, Ls[caller][ip])
    BY DEF Running, TypedAt
  <2>2. QED
    BY <1>2, <2>1 DEF OperandOK, Functions
<1>4. Len(w_code) \in Nat
  BY <1>1, LenProperties DEF Typing
<1>5. /\ f \in Nat /\ Len(locals[f + 1]) \in Nat
      /\ Len(sigs[f + 1].params) \in Nat /\ Len(sigs[f + 1].rets) \in Nat
  BY <1>1, <1>3, <1>4 DEF Typing, Functions
<1>6. /\ Takes(caller, ip) = Len(sigs[f + 1].params)
      /\ Leaves(caller, ip) = Len(sigs[f + 1].rets) /\ Opens(Opcode) = 0
      /\ Opcode \notin {W_OP_JUMP, W_OP_RET, W_OP_EXIT}
  BY <1>2, Effects
<1>7. get_w_instruction_size(Opcode) = 2
  BY <1>2 DEF get_w_instruction_size, W_OP_CALL8
<1> DEFINE next == ip + get_w_instruction_size(Opcode)
<1>8. /\ next \in WStarts(Body(caller))
      /\ Hs[caller][ip] >= Takes(caller, ip)
      /\ Hs[caller][next] = Hs[caller][ip] - Takes(caller, ip) + Leaves(caller, ip)
      /\ Ls[caller][next] = Ls[caller][ip] + Opens(Opcode)
  BY <1>6, NextTyped
<1>9. next = ip + 1 + 1
  BY <1>2, <1>7
<1> HIDE DEF next
<1>10. Hs[caller][next] \in Nat
  BY <1>1, <1>2, <1>8, TypedFacts
<1>11. /\ Len(main_stack) \in Nat /\ call_stack[Depth].height \in Nat
       /\ Len(sigs[caller + 1].params) \in Nat
       /\ call_stack[Depth].height >= Len(sigs[caller + 1].params)
       /\ Hs[caller][ip] \in Nat /\ Ls[caller][ip] \in Nat
       /\ Len(main_stack) = call_stack[Depth].height - Len(sigs[caller + 1].params)
                              + Hs[caller][ip]
       /\ for_loop_level = Ls[caller][ip]
  BY DEF Running
<1>12. PICK m, h, q, k, p, r, l :
         /\ m = Len(main_stack) /\ h = call_stack[Depth].height
         /\ q = Len(sigs[caller + 1].params) /\ k = Hs[caller][ip]
         /\ p = Len(sigs[f + 1].params) /\ r = Len(sigs[f + 1].rets)
         /\ l = Hs[caller][next]
  OBVIOUS
<1>13. m >= p /\ m - p + r = h - q + l
  <2>1. /\ m \in Nat /\ h \in Nat /\ q \in Nat /\ k \in Nat
        /\ m = h - q + k /\ h >= q
    BY <1>11, <1>12
  <2>2. p \in Nat /\ r \in Nat
    BY <1>5, <1>12
  <2>3. k >= p /\ l = k - p + r
    BY <1>6, <1>8, <1>12
  <2>4. QED
    BY <2>1, <2>2, <2>3
<1>14. Ls[caller][next] = for_loop_level
  BY <1>6, <1>8, <1>11
<1>15. for_loop_level \in 0..Len(loop_stack) /\ locals_base \in 0..Len(auxiliary_stack)
  <2>1. /\ loops[Depth] \in Nat \ {0} /\ frames[Depth] \in Nat \ {0}
        /\ Len(loop_stack) \in Nat /\ loops[Depth] + for_loop_level = Len(loop_stack)
        /\ Len(auxiliary_stack) \in Nat /\ locals_base = frames[Depth]
        /\ Len(locals[caller + 1]) \in Nat
        /\ locals_base + LocalsSize(caller) = Len(auxiliary_stack)
    BY DEF Running
  <2>2. for_loop_level \in Nat /\ locals_base \in Nat /\ LocalsSize(caller) \in Nat
    BY <1>11, <2>1, Zenon DEF LocalsSize
  <2>3. for_loop_level <= Len(loop_stack)
    BY <2>1, <2>2
  <2>4. locals_base <= Len(auxiliary_stack)
    BY <2>1, <2>2
  <2>5. QED
    BY <2>1, <2>2, <2>3, <2>4
<1>16. QED
  <2>1. /\ Len(main_stack) >= Len(sigs[f + 1].params)
        /\ Len(main_stack) - Len(sigs[f + 1].params) + Len(sigs[f + 1].rets)
             = call_stack[Depth].height - Len(sigs[caller + 1].params) + Hs[caller][next]
    BY <1>12, <1>13, Zenon
  <2>2. QED
    BY <1>3, <1>5, <1>8, <1>9, <1>14, <1>15, <2>1 DEF LocalsSize

\* What the stacks hold after a call, below the activation it enters.
LEMMA EnteredStacks ==
  ASSUME NEW f, NEW next, Entered(f, next), StacksOK
  PROVE  /\ \A i \in 1..Len(call_stack) : call_stack'[i] = call_stack[i]
         /\ call_stack'[Len(call_stack) + 1]
              = [func |-> current_function, ip |-> next, height |-> Len(main_stack)]
         /\ Len(call_stack') = Len(call_stack) + 1
         /\ \A i \in 1..Len(loop_stack) : loop_stack'[i] = loop_stack[i]
         /\ loop_stack'[Len(loop_stack) + 1] = for_loop_level
         /\ \A i \in 1..Len(auxiliary_stack) : auxiliary_stack'[i] = auxiliary_stack[i]
         /\ UNCHANGED <<input, main_stack>>
BY DEF Entered, StacksOK

LEMMA CallKeepsActive ==
  ASSUME NEW Hs, NEW Ls, RunInv(Hs, Ls), RunCall, NEW loops, NEW frames,
         Running(Hs, Ls, loops, frames), Entered(At(Code, ip + 1), ip + 1)
  PROVE  \E loops2, frames2 : Active(Hs, Ls, loops2, frames2)'
<1> DEFINE called == At(Code, ip + 1)
<1>1. PICK depth : depth = Depth
  OBVIOUS
<1>2. PICK f : f = called
  OBVIOUS
<1>3. /\ StacksOK /\ Typing(Hs, Ls) /\ Active(Hs, Ls, loops, frames)
      /\ depth \in Nat /\ depth > 0 /\ 1 \in 1..depth /\ depth \in 1..depth
      /\ Len(loop_stack) \in Nat /\ Len(auxiliary_stack) \in Nat
      /\ locals_base = frames[depth]
  <2>1. StacksOK /\ Typing(Hs, Ls)
    BY DEF RunInv
  <2>2. /\ Active(Hs, Ls, loops, frames) /\ depth \in Nat /\ depth > 0
        /\ Len(loop_stack) \in Nat /\ Len(auxiliary_stack) \in Nat
        /\ locals_base = frames[depth]
    BY <1>1 DEF Running
  <2>3. QED
    BY <2>1, <2>2
<1>4. /\ Entered(f, ip + 1) /\ f \in Functions /\ Len(main_stack) >= Len(sigs[f + 1].params)
      /\ ip + 1 + 1 \in WStarts(Body(current_function))
      /\ Len(main_stack) - Len(sigs[f + 1].params) + Len(sigs[f + 1].rets)
           = call_stack[depth].height - Len(sigs[current_function + 1].params)
               + Hs[current_function][ip + 1 + 1]
      /\ Ls[current_function][ip + 1 + 1] = for_loop_level
  BY <1>1, <1>2, CallFacts
<1>5. \A n \in 1..depth :
        /\ loops[n] \in 1..Len(loop_stack) /\ frames[n] \in 1..Len(auxiliary_stack)
        /\ loops[n] \in Nat \ {0} /\ frames[n] \in Nat \ {0}
        /\ loops[n] < Len(loop_stack) + 1 /\ frames[n] < Len(auxiliary_stack) + 1
  <2>1. \A n \in 1..depth : /\ loops[n] \in 1..Len(loop_stack) /\ frames[n] \in 1..Len(auxiliary_stack)
                            /\ loops[n] \in Nat \ {0} /\ frames[n] \in Nat \ {0}
    BY <1>1, BasesBelow
  <2>2. QED
    BY <1>3, <2>1
<1>6. PICK l2 \in [1..(depth + 1) -> Nat \ {0}], f2 \in [1..(depth + 1) -> Nat \ {0}] :
        /\ l2[depth + 1] = Len(loop_stack) + 1 /\ \A n \in 1..depth : l2[n] = loops[n]
        /\ f2[depth + 1] = Len(auxiliary_stack) + 1 /\ \A n \in 1..depth : f2[n] = frames[n]
  <2> DEFINE S == Nat \ {0}
  <2>1. /\ loops \in [1..depth -> S] /\ frames \in [1..depth -> S]
        /\ Len(loop_stack) + 1 \in S /\ Len(auxiliary_stack) + 1 \in S /\ depth \in Nat
    BY <1>1, <1>3 DEF Active
  <2> HIDE DEF S
  <2>2. PICK more : more = [n \in 1..(depth + 1) |-> IF n = depth + 1 THEN Len(loop_stack) + 1
                                                     ELSE loops[n]]
    OBVIOUS
  <2>3. /\ more \in [1..(depth + 1) -> S]
        /\ more[depth + 1] = Len(loop_stack) + 1 /\ \A n \in 1..depth : more[n] = loops[n]
    BY <2>1, <2>2, OneMore
  <2>4. PICK also : also = [n \in 1..(depth + 1) |-> IF n = depth + 1 THEN Len(auxiliary_stack) + 1
                                                     ELSE frames[n]]
    OBVIOUS
  <2>5. /\ also \in [1..(depth + 1) -> S]
        /\ also[depth + 1] = Len(auxiliary_stack) + 1 /\ \A n \in 1..depth : also[n] = frames[n]
    BY <2>1, <2>4, OneMore
  <2>6. QED
    BY <2>3, <2>5, Zenon DEF S
<1>7. PICK top : top = depth + 1
  OBVIOUS
<1>8. WellAt(top, Hs, Ls, l2, f2)' /\ Depth' = top
  <2>1. /\ l2[top] = Len(loop_stack) + 1 /\ f2[top] = Len(auxiliary_stack) + 1
        /\ top = Depth + 1
        /\ locals_base = IF top = 1 THEN 0 ELSE f2[top - 1]
    BY <1>1, <1>3, <1>6, <1>7
  <2>2. QED
    BY <1>3, <1>4, <2>1, EnteredTop
<1>9. /\ \A i \in 1..depth : call_stack'[i] = call_stack[i]
      /\ call_stack'[top] = [func |-> current_function, ip |-> ip + 1,
                             height |-> Len(main_stack)]
      /\ \A i \in 1..Len(loop_stack) : loop_stack'[i] = loop_stack[i]
      /\ loop_stack'[Len(loop_stack) + 1] = for_loop_level
      /\ \A i \in 1..Len(auxiliary_stack) : auxiliary_stack'[i] = auxiliary_stack[i]
      /\ UNCHANGED <<input, main_stack>>
  BY <1>1, <1>3, <1>4, <1>7, EnteredStacks DEF Depth
<1>10. FuncAt(top)' = f
  BY <1>4, <1>8 DEF FuncAt, Entered
<1>11. ASSUME NEW n \in 1..depth, n # depth
       PROVE  WellAt(n, Hs, Ls, l2, f2)' /\ FuncAt(n)' = FuncAt(n)
  <2>1. n + 1 \in 1..depth /\ n # top /\ n + 1 # top /\ (n # 1 => n - 1 \in 1..depth)
    BY <1>3, <1>7, <1>11
  <2>2. WellAt(n, Hs, Ls, loops, frames)
    BY <1>1, <1>3 DEF Active
  <2>3. /\ FuncAt(n)' = FuncAt(n) /\ IpAt(n)' = IpAt(n)
    BY <1>1, <1>8, <1>9, <1>11, <2>1 DEF FuncAt, IpAt
  <2>4. FuncAt(n + 1)' = FuncAt(n + 1)
    <3>1. CASE n + 1 = depth
      <4>1. call_stack'[top].func = current_function /\ n + 1 + 1 = top
        BY <1>7, <1>9, <3>1
      <4>2. QED
        BY <1>1, <1>8, <2>1, <3>1, <4>1 DEF FuncAt
    <3>2. CASE n + 1 # depth
      <4>1. n + 1 + 1 \in 1..depth
        BY <1>3, <2>1, <3>2
      <4>2. QED
        BY <1>1, <1>8, <1>9, <2>1, <3>2, <4>1 DEF FuncAt
    <3>3. QED
      BY <3>1, <3>2
  <2>5. HeightAt(n)' = HeightAt(n)
    BY <1>1, <1>8, <1>9, <1>11, <2>1, <2>4 DEF HeightAt, input
  <2>6. l2[n] = loops[n] /\ f2[n] = frames[n] /\ l2[n + 1] = loops[n + 1]
        /\ f2[n + 1] = frames[n + 1] /\ (n # 1 => f2[n - 1] = frames[n - 1])
    BY <1>6, <2>1
  <2>7. loop_stack'[loops[n + 1]] = loop_stack[loops[n + 1]]
        /\ auxiliary_stack'[frames[n]] = auxiliary_stack[frames[n]]
    BY <1>5, <1>9, <2>1
  <2>8. /\ LevelAt(n, l2)' = LevelAt(n, loops) /\ LoopEnd(n, l2)' = LoopEnd(n, loops)
        /\ FrameEnd(n, f2)' = FrameEnd(n, frames)
    BY <1>1, <1>8, <1>11, <2>1, <2>6, <2>7 DEF LevelAt, LoopEnd, FrameEnd
  <2>9. QED
    BY <1>9, <2>2, <2>3, <2>5, <2>6, <2>7, <2>8, WellStays
<1>12. WellAt(depth, Hs, Ls, l2, f2)' /\ FuncAt(depth)' = FuncAt(depth)
  <2>0. PICK cf : cf = current_function
    OBVIOUS
  <2>1. WellAt(depth, Hs, Ls, loops, frames) /\ depth # top
    BY <1>1, <1>3, <1>7 DEF Active
  <2>2. /\ w_code' = w_code /\ sigs' = sigs /\ locals' = locals
        /\ Body(cf)' = Body(cf)
        /\ LocalsSize(cf)' = LocalsSize(cf)
        /\ Functions' = Functions
    <3>1. w_code' = w_code /\ sigs' = sigs /\ locals' = locals
      BY <1>9 DEF input
    <3>2. QED
      BY <3>1 DEF Body, LocalsSize, Functions
  <2>3. /\ FuncAt(depth) = cf /\ IpAt(depth) = ip
        /\ LoopEnd(depth, loops) = Len(loop_stack)
        /\ FrameEnd(depth, frames) = Len(auxiliary_stack)
        /\ LevelAt(depth, loops) = for_loop_level
    BY <1>1, <2>0 DEF FuncAt, IpAt, LoopEnd, FrameEnd, LevelAt
  <2>4. /\ FuncAt(depth)' = cf /\ IpAt(depth)' = ip + 1 + 1
    BY <1>7, <1>8, <1>9, <2>0, <2>1 DEF FuncAt, IpAt
  <2>5. HeightAt(depth)' = Len(main_stack) - Len(sigs[f + 1].params) + Len(sigs[f + 1].rets)
    <3>1. FuncAt(depth + 1)' = f
      BY <1>4, <1>7, <1>8 DEF FuncAt, Entered
    <3>2. call_stack'[depth + 1].height = Len(main_stack) /\ depth # Depth'
      BY <1>7, <1>8, <1>9, <2>1
    <3>3. QED
      BY <2>2, <3>1, <3>2 DEF HeightAt
  <2>6. /\ LevelAt(depth, l2)' = for_loop_level /\ LoopEnd(depth, l2)' = Len(loop_stack)
        /\ FrameEnd(depth, f2)' = Len(auxiliary_stack)
    BY <1>3, <1>6, <1>7, <1>8, <1>9, <2>1 DEF LevelAt, LoopEnd, FrameEnd
  <2>7. /\ call_stack'[depth] = call_stack[depth] /\ l2[depth] = loops[depth]
        /\ f2[depth] = frames[depth]
        /\ auxiliary_stack'[frames[depth]] = auxiliary_stack[frames[depth]]
        /\ depth # 1 => f2[depth - 1] = frames[depth - 1]
    BY <1>3, <1>5, <1>6, <1>9, SMTT(40)
  <2>8. /\ cf \in Functions
        /\ call_stack[depth].height >= Len(sigs[cf + 1].params)
        /\ loops[depth] + for_loop_level = Len(loop_stack)
        /\ frames[depth] + LocalsSize(cf) = Len(auxiliary_stack)
        /\ auxiliary_stack[frames[depth]] = IF depth = 1 THEN 0 ELSE frames[depth - 1]
    BY <2>1, <2>3 DEF WellAt
  <2>9. QED
    BY <1>4, <2>0, <2>2, <2>3, <2>4, <2>5, <2>6, <2>7, <2>8 DEF WellAt
<1>13. \A n \in 1..top : WellAt(n, Hs, Ls, l2, f2)'
  <2>1. \A n \in 1..top : n = top \/ n = depth \/ (n \in 1..depth /\ n # depth)
    BY <1>3, <1>7
  <2>2. QED
    BY <1>8, <1>11, <1>12, <2>1
<1>14. \A m, n \in 1..top : m < n => l2[m] < l2[n] /\ f2[m] < f2[n]
  <2>1. SUFFICES ASSUME NEW m \in 1..top, NEW n \in 1..top, m < n
                 PROVE  l2[m] < l2[n] /\ f2[m] < f2[n]
    OBVIOUS
  <2>2. m \in 1..depth /\ (n = top \/ n \in 1..depth)
    BY <1>3, <1>7, <2>1
  <2>3. l2[m] = loops[m] /\ f2[m] = frames[m]
    BY <1>6, <2>2
  <2>4. CASE n = top
    BY <1>5, <1>6, <1>7, <2>2, <2>3, <2>4
  <2>5. CASE n \in 1..depth
    BY <1>1, <1>3, <1>6, <2>1, <2>2, <2>3, <2>5 DEF Active
  <2>6. QED
    BY <2>2, <2>4, <2>5
<1>15. /\ l2 \in [1..top -> Nat \ {0}] /\ f2 \in [1..top -> Nat \ {0}] /\ top > 0
  BY <1>3, <1>6, <1>7
<1>16. /\ call_stack'[1] = [func |-> 0, ip |-> Len(w_code'[1]), height |-> 0]
       /\ FuncAt(1)' = 0 /\ l2[1] = 1 /\ f2[1] = 1 /\ loop_stack'[1] = 0
  <2>1. /\ call_stack[1] = [func |-> 0, ip |-> Len(w_code[1]), height |-> 0]
        /\ FuncAt(1) = 0 /\ loops[1] = 1 /\ frames[1] = 1 /\ loop_stack[1] = 0
    BY <1>3 DEF Active
  <2>2. FuncAt(1)' = FuncAt(1)
    BY <1>3, <1>11, <1>12
  <2>3. 1 \in 1..Len(loop_stack)
    BY <1>3, <1>5, <2>1
  <2>4. QED
    BY <1>3, <1>6, <1>9, <2>1, <2>2, <2>3 DEF input
<1>17. locals_base' = f2[top]
  BY <1>4, <1>6, <1>7 DEF Entered
<1>18. Active(Hs, Ls, l2, f2)'
  BY <1>8, <1>13, <1>14, <1>15, <1>16, <1>17 DEF Active
<1>19. QED
  BY <1>18

LEMMA CallKeeps ==
  ASSUME NEW Hs, NEW Ls, RunInv(Hs, Ls), RunCall, InterpreterAssumption
  PROVE  RunInv(Hs, Ls)'
<1>1. Fetch({W_OP_CALL8}) /\ Call(At(Code, ip + 1), ip + 1)
  BY DEF RunCall
<1>2. PICK loops, frames : Running(Hs, Ls, loops, frames)
  BY <1>1, FetchFacts
<1> DEFINE f == At(Code, ip + 1)
<1>3. run_status = "running"
  BY <1>1 DEF Fetch
<1>4. /\ f \in Nat /\ LocalsSize(f) \in Nat /\ for_loop_level \in 0..Len(loop_stack)
      /\ locals_base \in 0..Len(auxiliary_stack)
  BY <1>2, CallFacts
<1>5. ip + 1 \in Nat /\ current_function \in Nat /\ StacksOK
  BY <1>2, TypedFacts DEF Running, RunInv
<1>6. Entered(f, ip + 1) \/ Stop("overflow") \/ Stop("out_of_bounds")
  BY <1>1, <1>4, <1>5, CallEnters
<1>7. CASE Stop("overflow") \/ Stop("out_of_bounds")
  BY <1>3, <1>7, StopKeeps
<1>8. CASE Entered(f, ip + 1)
  <2>1. \E loops2, frames2 : Active(Hs, Ls, loops2, frames2)'
    BY <1>2, <1>8, CallKeepsActive
  <2>2. UNCHANGED input /\ run_status' = "running" /\ StacksOK'
    BY <1>8 DEF Entered
  <2>3. Typing(Hs, Ls)'
    BY <2>2, TypingStays DEF RunInv
  <2>4. QED
    BY <2>1, <2>2, <2>3 DEF RunInv
<1>9. QED
  BY <1>6, <1>7, <1>8

-----------------------------------------------------------------------------
(* Returns.                                                                *)

\* What ret finds, and what it leaves.
Returned(caller, loops, frames) ==
  /\ run_status' = "running"
  /\ UNCHANGED <<input, main_stack>>
  /\ auxiliary_stack' = SubSeq(auxiliary_stack, 1, frames[Depth] - 1)
  /\ locals_base' = auxiliary_stack[frames[Depth]]
  /\ loop_stack' = SubSeq(loop_stack, 1, loops[Depth] - 1)
  /\ for_loop_level' = loop_stack[loops[Depth]]
  /\ call_stack' = SubSeq(call_stack, 1, Depth - 1)
  /\ current_function' = caller.func
  /\ ip' = caller.ip + 1

LEMMA RetReturns ==
  ASSUME NEW Hs, NEW Ls, RunInv(Hs, Ls), RunRet, NEW loops, NEW frames,
         Running(Hs, Ls, loops, frames)
  PROVE  /\ Returned(call_stack[Depth], loops, frames)
         /\ Len(main_stack) = call_stack[Depth].height
                                - Len(sigs[current_function + 1].params)
                                + Len(sigs[current_function + 1].rets)
<1> DEFINE caller == Last(call_stack)
<1>1. /\ loops[Depth] \in Nat \ {0} /\ frames[Depth] \in Nat \ {0}
      /\ for_loop_level = Ls[current_function][ip] /\ Ls[current_function][ip] \in Nat
      /\ Len(loop_stack) \in Nat /\ loops[Depth] + for_loop_level = Len(loop_stack)
      /\ Len(auxiliary_stack) \in Nat /\ locals_base = frames[Depth]
      /\ Len(locals[current_function + 1]) \in Nat
      /\ locals_base + LocalsSize(current_function) = Len(auxiliary_stack)
      /\ Depth \in Nat /\ Depth > 0
  BY DEF Running
<1>2. /\ ~(locals_base > Len(auxiliary_stack)) /\ ~(for_loop_level < 0)
      /\ locals_base # 0 /\ ~(Len(loop_stack) <= for_loop_level)
  BY <1>1 DEF LocalsSize
<1>3. call_stack # <<>>
  BY <1>1 DEF Depth
<1>4. /\ Fetch({W_OP_RET})
      /\ auxiliary_stack' = SubSeq(auxiliary_stack, 1, locals_base - 1)
      /\ locals_base' = auxiliary_stack[locals_base]
      /\ loop_stack' = SubSeq(loop_stack, 1, Len(loop_stack) - for_loop_level - 1)
      /\ for_loop_level' = loop_stack[Len(loop_stack) - for_loop_level]
      /\ call_stack' = Pop1(call_stack)
      /\ current_function' = caller.func
      /\ ip' = caller.ip + 1
      /\ UNCHANGED <<input, run_status, main_stack>>
  BY <1>2, <1>3, Zenon DEF RunRet
<1>5. Len(loop_stack) - for_loop_level = loops[Depth]
  BY <1>1
<1>6. run_status = "running" /\ Opcode = At(Body(current_function), ip) /\ Opcode = W_OP_RET
  <2>1. run_status = "running" /\ Opcode \in {W_OP_RET}
    BY <1>4 DEF Fetch
  <2>2. Opcode = At(Body(current_function), ip)
    BY <1>4, OpcodeIs
  <2>3. QED
    BY <2>1, <2>2
<1>7. Pop1(call_stack) = SubSeq(call_stack, 1, Depth - 1) /\ caller = call_stack[Depth]
  BY DEF Pop1, Last, Depth
<1>8. Returned(call_stack[Depth], loops, frames)
  BY <1>1, <1>4, <1>5, <1>6, <1>7 DEF Returned
<1>9. Hs[current_function][ip] = Len(sigs[current_function + 1].rets)
  BY <1>6 DEF Running, TypedAt
<1>10. QED
  BY <1>8, <1>9 DEF Running

\* The stacks after a return, with what the activations below have there.
LEMMA ReturnedStacks ==
  ASSUME NEW Hs, NEW Ls, NEW loops, NEW frames, Running(Hs, Ls, loops, frames), StacksOK,
         StackSize \in Nat, NEW caller, Returned(caller, loops, frames), NEW depth, depth = Depth
  PROVE  /\ Len(call_stack') = depth - 1
         /\ \A i \in 1..(depth - 1) : call_stack'[i] = call_stack[i]
         /\ Len(loop_stack') = loops[depth] - 1
         /\ \A i \in 1..(loops[depth] - 1) : loop_stack'[i] = loop_stack[i]
         /\ Len(auxiliary_stack') = frames[depth] - 1
         /\ \A i \in 1..(frames[depth] - 1) : auxiliary_stack'[i] = auxiliary_stack[i]
         /\ StacksOK'
<1>1. /\ main_stack \in Seq(Words) /\ auxiliary_stack \in Seq(Words) /\ loop_stack \in Seq(Words)
      /\ call_stack \in Seq([func : Nat, ip : Nat, height : Nat])
      /\ Len(main_stack) < StackSize /\ Len(loop_stack) < StackSize /\ Len(call_stack) < StackSize
      /\ Len(auxiliary_stack) <= StackSize
  BY DEF StacksOK
<1>2. /\ depth \in Nat /\ depth > 0 /\ depth = Len(call_stack) /\ depth \in 1..Depth
  BY DEF Running, Depth
<1>3. /\ loops[depth] \in 1..Len(loop_stack) /\ frames[depth] \in 1..Len(auxiliary_stack)
  BY <1>2, BasesBelow
<1>4. Len(loop_stack) \in Nat /\ Len(auxiliary_stack) \in Nat
  BY StackFacts
<1>5. /\ depth - 1 \in 0..Len(call_stack) /\ loops[depth] - 1 \in 0..Len(loop_stack)
      /\ frames[depth] - 1 \in 0..Len(auxiliary_stack)
  BY <1>2, <1>3, <1>4
<1>6. /\ call_stack' = SubSeq(call_stack, 1, depth - 1)
      /\ loop_stack' = SubSeq(loop_stack, 1, loops[depth] - 1)
      /\ auxiliary_stack' = SubSeq(auxiliary_stack, 1, frames[depth] - 1)
      /\ main_stack' = main_stack /\ run_status' = "running"
  BY DEF Returned
<1>7. /\ call_stack' \in Seq([func : Nat, ip : Nat, height : Nat])
      /\ Len(call_stack') = depth - 1
      /\ \A i \in 1..(depth - 1) : call_stack'[i] = call_stack[i]
  BY <1>1, <1>5, <1>6, CutFacts
<1>8. /\ loop_stack' \in Seq(Words) /\ Len(loop_stack') = loops[depth] - 1
      /\ \A i \in 1..(loops[depth] - 1) : loop_stack'[i] = loop_stack[i]
  BY <1>1, <1>5, <1>6, CutFacts
<1>9. /\ auxiliary_stack' \in Seq(Words) /\ Len(auxiliary_stack') = frames[depth] - 1
      /\ \A i \in 1..(frames[depth] - 1) : auxiliary_stack'[i] = auxiliary_stack[i]
  BY <1>1, <1>5, <1>6, CutFacts
<1>10. /\ Len(call_stack') < StackSize /\ Len(loop_stack') < StackSize
       /\ Len(auxiliary_stack') <= StackSize
  <2>1. depth - 1 < StackSize
    BY <1>1, <1>2
  <2>2. loops[depth] - 1 < StackSize
    BY <1>1, <1>3, <1>4
  <2>3. frames[depth] - 1 <= StackSize
    BY <1>1, <1>3, <1>4
  <2>4. QED
    BY <1>7, <1>8, <1>9, <2>1, <2>2, <2>3
<1>11. StacksOK'
  BY <1>1, <1>6, <1>7, <1>8, <1>9, <1>10 DEF StacksOK, Words
<1>12. QED
  BY <1>7, <1>8, <1>9, <1>11

\* The last activation returns.
LEMMA LastReturns ==
  ASSUME NEW Hs, NEW Ls, RunInv(Hs, Ls), RunRet, NEW loops, NEW frames,
         Running(Hs, Ls, loops, frames), StackSize \in Nat, Depth = 1
  PROVE  Idle'
<1>1. /\ Active(Hs, Ls, loops, frames) /\ StacksOK /\ Typing(Hs, Ls)
      /\ Returned(call_stack[1], loops, frames)
      /\ Len(main_stack) = call_stack[1].height - Len(sigs[current_function + 1].params)
                             + Len(sigs[current_function + 1].rets)
  BY RetReturns DEF Running, RunInv
<1>2. /\ call_stack[1] = [func |-> 0, ip |-> Len(w_code[1]), height |-> 0]
      /\ loops[1] = 1 /\ frames[1] = 1 /\ loop_stack[1] = 0
      /\ FuncAt(1) = 0
      /\ WellAt(1, Hs, Ls, loops, frames)
  BY <1>1 DEF Active
<1>3. current_function = 0 /\ auxiliary_stack[1] = 0
  BY <1>2 DEF FuncAt, WellAt
<1>4. Len(sigs[0 + 1].params) = 0 /\ Len(sigs[0 + 1].rets) = 0
  <2>1. 0 + 1 = 1 /\ sigs[1].params = <<>> /\ sigs[1].rets = <<>>
    BY <1>1 DEF Typing
  <2>2. QED
    BY <2>1
<1>5. Len(main_stack) = 0
  BY <1>1, <1>2, <1>3, <1>4
<1>6. main_stack = <<>>
  BY <1>1, <1>5, EmptySeq DEF StacksOK
<1>7. /\ Len(call_stack') = 1 - 1 /\ Len(loop_stack') = 1 - 1 /\ Len(auxiliary_stack') = 1 - 1
      /\ StacksOK'
  BY <1>1, <1>2, ReturnedStacks
<1>8. call_stack' = <<>> /\ loop_stack' = <<>> /\ auxiliary_stack' = <<>>
  BY <1>7, EmptySeq DEF StacksOK
<1>9. /\ main_stack' = main_stack /\ w_code' = w_code /\ run_status' = "running"
      /\ locals_base' = 0 /\ for_loop_level' = 0 /\ current_function' = 0
      /\ ip' = Len(w_code[1]) + 1
  BY <1>1, <1>2, <1>3 DEF Returned, input
<1>10. QED
  BY <1>6, <1>8, <1>9 DEF Idle

\* An activation returns to the one that has called it.
LEMMA CallerRuns ==
  ASSUME NEW Hs, NEW Ls, RunInv(Hs, Ls), RunRet, NEW loops, NEW frames,
         Running(Hs, Ls, loops, frames), StackSize \in Nat, Depth # 1
  PROVE  \E loops2, frames2 : Active(Hs, Ls, loops2, frames2)'
<1>1. PICK depth : depth = Depth
  OBVIOUS
<1>2. PICK cf : cf = current_function
  OBVIOUS
<1>3. /\ Active(Hs, Ls, loops, frames) /\ StacksOK /\ Typing(Hs, Ls)
      /\ Returned(call_stack[depth], loops, frames)
      /\ Len(main_stack) = call_stack[depth].height - Len(sigs[cf + 1].params)
                             + Len(sigs[cf + 1].rets)
  BY <1>1, <1>2, RetReturns DEF Running, RunInv
<1>4. PICK top : top = depth - 1
  OBVIOUS
<1>5. /\ depth \in Nat /\ depth > 1 /\ top \in Nat /\ top > 0 /\ depth = top + 1
      /\ 1 \in 1..top /\ top \in 1..top /\ depth \in 1..depth /\ top \in 1..depth
      /\ \A n \in 1..top : n \in 1..depth /\ n # depth /\ n < depth
  <2>1. depth \in Nat /\ depth > 0 /\ depth # 1
    BY <1>1 DEF Running
  <2>2. QED
    BY <1>4, <2>1
<1>6. /\ \A i \in 1..top : call_stack'[i] = call_stack[i]
      /\ \A i \in 1..(loops[depth] - 1) : loop_stack'[i] = loop_stack[i]
      /\ \A i \in 1..(frames[depth] - 1) : auxiliary_stack'[i] = auxiliary_stack[i]
      /\ Len(call_stack') = top /\ Len(loop_stack') = loops[depth] - 1
      /\ Len(auxiliary_stack') = frames[depth] - 1 /\ StacksOK'
  BY <1>1, <1>3, <1>4, ReturnedStacks
<1>7. /\ UNCHANGED input /\ UNCHANGED main_stack
      /\ w_code' = w_code /\ sigs' = sigs /\ locals' = locals
      /\ current_function' = call_stack[depth].func /\ ip' = call_stack[depth].ip + 1
      /\ for_loop_level' = loop_stack[loops[depth]]
      /\ locals_base' = auxiliary_stack[frames[depth]]
      /\ Depth' = top
  BY <1>1, <1>3, <1>6 DEF Returned, input, Depth
<1>8. \A n \in 1..top : /\ loops[n] \in 1..(loops[depth] - 1)
                        /\ frames[n] \in 1..(frames[depth] - 1)
                        /\ loops[n] \in Nat \ {0} /\ frames[n] \in Nat \ {0}
  <2>1. \A n \in 1..depth : /\ loops[n] \in Nat \ {0} /\ frames[n] \in Nat \ {0}
                            /\ n < depth => loops[n] < loops[depth] /\ frames[n] < frames[depth]
    BY <1>1, BasesBelow
  <2>2. QED
    BY <1>5, <2>1
<1>9. PICK l2 \in [1..top -> Nat \ {0}], f2 \in [1..top -> Nat \ {0}] :
        \A n \in 1..top : l2[n] = loops[n] /\ f2[n] = frames[n]
  <2>1. PICK l2 : l2 = [n \in 1..top |-> loops[n]]
    OBVIOUS
  <2>2. PICK f2 : f2 = [n \in 1..top |-> frames[n]]
    OBVIOUS
  <2>3. /\ l2 \in [1..top -> Nat \ {0}] /\ f2 \in [1..top -> Nat \ {0}]
        /\ \A n \in 1..top : l2[n] = loops[n] /\ f2[n] = frames[n]
    BY <1>8, <2>1, <2>2
  <2>4. QED
    BY <2>3
<1>10. \A n \in 1..depth : WellAt(n, Hs, Ls, loops, frames)
  BY <1>1, <1>3 DEF Active
<1>11. FuncAt(depth) = cf
  BY <1>1, <1>2 DEF FuncAt
<1>12. ASSUME NEW n \in 1..top
       PROVE  /\ FuncAt(n)' = FuncAt(n) /\ IpAt(n)' = IpAt(n) /\ HeightAt(n)' = HeightAt(n)
              /\ LevelAt(n, l2)' = LevelAt(n, loops) /\ LoopEnd(n, l2)' = LoopEnd(n, loops)
              /\ FrameEnd(n, f2)' = FrameEnd(n, frames)
  <2>1. CASE n = top
    <3>1. n + 1 = depth /\ n # depth
      BY <1>5, <2>1
    <3>2. /\ FuncAt(n)' = FuncAt(n) /\ IpAt(n)' = IpAt(n)
      BY <1>1, <1>7, <2>1, <3>1 DEF FuncAt, IpAt
    <3>3. HeightAt(n)' = HeightAt(n)
      BY <1>1, <1>3, <1>7, <1>11, <2>1, <3>1 DEF HeightAt
    <3>4. /\ LevelAt(n, l2)' = LevelAt(n, loops) /\ LoopEnd(n, l2)' = LoopEnd(n, loops)
          /\ FrameEnd(n, f2)' = FrameEnd(n, frames)
      BY <1>1, <1>6, <1>7, <2>1, <3>1 DEF LevelAt, LoopEnd, FrameEnd
    <3>5. QED
      BY <3>2, <3>3, <3>4
  <2>2. CASE n # top
    <3>1. n + 1 \in 1..top /\ n # depth /\ n + 1 # depth /\ n # top
      BY <1>5, <2>2
    <3>2. /\ FuncAt(n)' = FuncAt(n) /\ IpAt(n)' = IpAt(n)
      BY <1>1, <1>6, <1>7, <3>1 DEF FuncAt, IpAt
    <3>3. FuncAt(n + 1)' = FuncAt(n + 1)
      <4>1. CASE n + 1 = top
        <5>1. n + 1 + 1 = depth
          BY <1>5, <4>1
        <5>2. QED
          BY <1>1, <1>7, <3>1, <4>1, <5>1 DEF FuncAt
      <4>2. CASE n + 1 # top
        <5>1. n + 1 + 1 \in 1..top
          BY <1>5, <3>1, <4>2
        <5>2. QED
          BY <1>1, <1>6, <1>7, <3>1, <4>2, <5>1 DEF FuncAt
      <4>3. QED
        BY <4>1, <4>2
    <3>4. HeightAt(n)' = HeightAt(n)
      BY <1>1, <1>6, <1>7, <3>1, <3>3 DEF HeightAt
    <3>5. /\ l2[n + 1] = loops[n + 1] /\ f2[n + 1] = frames[n + 1]
          /\ loop_stack'[loops[n + 1]] = loop_stack[loops[n + 1]]
      BY <1>6, <1>8, <1>9, <3>1
    <3>6. /\ LevelAt(n, l2)' = LevelAt(n, loops) /\ LoopEnd(n, l2)' = LoopEnd(n, loops)
          /\ FrameEnd(n, f2)' = FrameEnd(n, frames)
      BY <1>1, <1>7, <3>1, <3>5 DEF LevelAt, LoopEnd, FrameEnd
    <3>7. QED
      BY <3>2, <3>4, <3>6
  <2>3. QED
    BY <2>1, <2>2
<1>13. ASSUME NEW n \in 1..top PROVE WellAt(n, Hs, Ls, l2, f2)'
  <2>1. WellAt(n, Hs, Ls, loops, frames)
    BY <1>5, <1>10
  <2>2. /\ l2[n] = loops[n] /\ f2[n] = frames[n] /\ call_stack'[n] = call_stack[n]
        /\ auxiliary_stack'[frames[n]] = auxiliary_stack[frames[n]]
    BY <1>6, <1>8, <1>9
  <2>3. n # 1 => f2[n - 1] = frames[n - 1]
    <3>1. n # 1 => n - 1 \in 1..top
      BY <1>5
    <3>2. QED
      BY <1>9, <3>1
  <2>4. QED
    BY <1>7, <1>12, <2>1, <2>2, <2>3, WellStays
<1>14. \A m, n \in 1..top : m < n => l2[m] < l2[n] /\ f2[m] < f2[n]
  <2>1. SUFFICES ASSUME NEW m \in 1..top, NEW n \in 1..top, m < n
                 PROVE  l2[m] < l2[n] /\ f2[m] < f2[n]
    OBVIOUS
  <2>2. m \in 1..depth /\ n \in 1..depth
    BY <1>5
  <2>3. loops[m] < loops[n] /\ frames[m] < frames[n]
    BY <1>1, <1>3, <2>1, <2>2 DEF Active
  <2>4. QED
    BY <1>9, <2>3
<1>15. /\ call_stack'[1] = [func |-> 0, ip |-> Len(w_code'[1]), height |-> 0]
       /\ FuncAt(1)' = 0 /\ l2[1] = 1 /\ f2[1] = 1 /\ loop_stack'[1] = 0
  <2>1. /\ call_stack[1] = [func |-> 0, ip |-> Len(w_code[1]), height |-> 0]
        /\ FuncAt(1) = 0 /\ loops[1] = 1 /\ frames[1] = 1 /\ loop_stack[1] = 0
    BY <1>3 DEF Active
  <2>2. FuncAt(1)' = FuncAt(1)
    BY <1>5, <1>12
  <2>3. 1 \in 1..(loops[depth] - 1)
    BY <1>5, <1>8, <2>1
  <2>4. QED
    BY <1>5, <1>6, <1>7, <1>9, <2>1, <2>2, <2>3
<1>16. locals_base' = f2[top]
  <2>1. auxiliary_stack[frames[depth]] = IF depth = 1 THEN 0 ELSE frames[depth - 1]
    BY <1>5, <1>10 DEF WellAt
  <2>2. QED
    BY <1>4, <1>5, <1>7, <1>9, <2>1
<1>17. Active(Hs, Ls, l2, f2)'
  BY <1>5, <1>7, <1>9, <1>13, <1>14, <1>15, <1>16 DEF Active
<1>18. QED
  BY <1>17

LEMMA RetKeeps ==
  ASSUME NEW Hs, NEW Ls, RunInv(Hs, Ls), RunRet, InterpreterAssumption
  PROVE  RunInv(Hs, Ls)'
<1>1. Fetch({W_OP_RET}) /\ StackSize \in Nat /\ StacksOK /\ Typing(Hs, Ls)
  BY DEF RunRet, InterpreterAssumption, RunInv
<1>2. PICK loops, frames : Running(Hs, Ls, loops, frames)
  BY <1>1, FetchFacts
<1>3. Returned(call_stack[Depth], loops, frames)
  BY <1>2, RetReturns
<1>4. StacksOK'
  BY <1>1, <1>2, <1>3, ReturnedStacks
<1>5. UNCHANGED input /\ run_status' = "running"
  BY <1>3 DEF Returned
<1>6. Typing(Hs, Ls)'
  BY <1>1, <1>5, TypingStays
<1>7. CASE Depth = 1
  <2>1. Idle'
    BY <1>1, <1>2, <1>7, LastReturns
  <2>2. QED
    BY <1>4, <1>6, <2>1 DEF RunInv
<1>8. CASE Depth # 1
  <2>1. \E loops2, frames2 : Active(Hs, Ls, loops2, frames2)'
    BY <1>1, <1>2, <1>8, CallerRuns
  <2>2. QED
    BY <1>4, <1>5, <1>6, <2>1 DEF RunInv
<1>9. QED
  BY <1>7, <1>8

\* interpret leaves its loop where the last activation has returned.
LEMMA EndKeeps ==
  ASSUME NEW Hs, NEW Ls, RunInv(Hs, Ls), RunEnd
  PROVE  RunInv(Hs, Ls)'
<1>1. /\ run_status = "running" /\ ip >= Len(Code) /\ Stop("done")
      /\ Typing(Hs, Ls) /\ StacksOK
  BY DEF RunEnd, RunInv
<1>2. Idle
  <2>1. ASSUME NEW loops, NEW frames, Active(Hs, Ls, loops, frames) PROVE FALSE
    <3>1. Running(Hs, Ls, loops, frames)
      BY <2>1, RunningFacts
    <3>2. /\ current_function \in Functions /\ Code = Body(current_function)
          /\ ip \in WStarts(Body(current_function))
      BY <3>1 DEF Running
    <3>3. ip \in Nat /\ ip < Len(Code) /\ Len(Code) \in Nat
      BY <1>1, <3>2, TypedFacts
    <3>4. QED
      BY <1>1, <3>3
  <2>2. QED
    BY <1>1, <2>1 DEF RunInv
<1>3. /\ UNCHANGED <<main_stack, auxiliary_stack, loop_stack, call_stack>>
      /\ UNCHANGED <<locals_base, current_function, ip, for_loop_level, w_code, sigs, locals>>
      /\ UNCHANGED input /\ run_status' = "done"
  BY <1>1 DEF Stop, stacks, registers, input
<1>4. Typing(Hs, Ls)'
  BY <1>1, <1>3, TypingStays
<1>5. StacksOK'
  BY <1>1, <1>3 DEF StacksOK
<1>6. Idle'
  BY <1>1, <1>2, <1>3 DEF Idle
<1>7. QED
  BY <1>4, <1>5, <1>6 DEF RunInv

-----------------------------------------------------------------------------
(* The invariant.                                                          *)

LEMMA InitTyped ==
  ASSUME NEW Hs, NEW Ls, RunInit, Typing(Hs, Ls), InterpreterAssumption
  PROVE  RunInv(Hs, Ls)
<1>1. StackSize \in Nat /\ StackSize >= 2
  BY DEF InterpreterAssumption
<1>2. StacksOK
  BY <1>1 DEF RunInit, StacksOK
<1>3. Idle
  BY DEF RunInit, Idle
<1>4. QED
  BY <1>2, <1>3 DEF RunInv

LEMMA StepTyped ==
  ASSUME NEW Hs, NEW Ls, RunInv(Hs, Ls), RunStep, InterpreterAssumption
  PROVE  RunInv(Hs, Ls)'
<1>1. CASE RunStart
  BY <1>1, StartKeeps
<1>2. CASE RunEnd
  BY <1>2, EndKeeps
<1>3. CASE RunPush
  BY <1>3, PushKeeps
<1>4. CASE RunPop
  BY <1>4, PopKeeps
<1>5. CASE RunDupe
  BY <1>5, DupeKeeps
<1>6. CASE RunExit
  BY <1>6, ExitKeeps
<1>7. CASE RunJump
  BY <1>7, JumpKeeps
<1>8. CASE RunConditionalJump
  BY <1>8, ConditionalJumpKeeps
<1>9. CASE RunForStart
  BY <1>9, ForStartKeeps
<1>10. CASE RunForDec
  BY <1>10, ForDecKeeps
<1>11. CASE RunForInc
  BY <1>11, ForIncKeeps
<1>12. CASE RunGetLoopVar
  BY <1>12, GetLoopVarKeeps
<1>13. CASE RunLocalGet
  BY <1>13, LocalGetKeeps
<1>14. CASE RunLocalSet
  BY <1>14, LocalSetKeeps
<1>15. CASE RunCall
  BY <1>15, CallKeeps
<1>16. CASE RunRet
  BY <1>16, RetKeeps
<1>17. QED
  BY <1>1, <1>2, <1>3, <1>4, <1>5, <1>6, <1>7, <1>8, <1>9, <1>10, <1>11, <1>12, <1>13,
     <1>14, <1>15, <1>16, Zenon DEF RunStep

LEMMA StutterTyped ==
  ASSUME NEW Hs, NEW Ls, RunInv(Hs, Ls), UNCHANGED vars
  PROVE  RunInv(Hs, Ls)'
<1>1. /\ UNCHANGED input /\ run_status' = run_status
      /\ UNCHANGED <<main_stack, auxiliary_stack, loop_stack, call_stack>>
      /\ UNCHANGED <<locals_base, current_function, ip, for_loop_level, w_code, sigs, locals>>
  BY DEF vars, stacks, registers, input
<1>2. Typing(Hs, Ls)'
  BY <1>1, TypingStays DEF RunInv
<1>3. StacksOK'
  BY <1>1 DEF StacksOK, RunInv
<1>4. Idle => Idle'
  BY <1>1 DEF Idle
<1>5. ASSUME NEW loops, NEW frames, Active(Hs, Ls, loops, frames)
      PROVE  Active(Hs, Ls, loops, frames)'
  BY <1>1, <1>5
     DEF Active, Depth, WellAt, FuncAt, IpAt, HeightAt, LevelAt, LoopEnd, FrameEnd, Functions,
         Body, LocalsSize
<1>6. QED
  BY <1>1, <1>2, <1>3, <1>4, <1>5 DEF RunInv

-----------------------------------------------------------------------------
(* What the invariant says of the properties.                              *)

LEMMA TypedNeverUnderflows ==
  ASSUME NEW Hs, NEW Ls, RunInv(Hs, Ls)
  PROVE  NeverUnderflows
BY DEF RunInv, StacksOK, NeverUnderflows

LEMMA TypedTypeOK ==
  ASSUME NEW Hs, NEW Ls, RunInv(Hs, Ls), InterpreterAssumption
  PROVE  RunTypeOK
<1>1. StacksOK /\ StackSize \in Nat
  BY DEF RunInv, InterpreterAssumption
<1>2. /\ Len(main_stack) \in Nat /\ Len(auxiliary_stack) \in Nat
      /\ Len(loop_stack) \in Nat /\ Len(call_stack) \in Nat
  BY <1>1, StackFacts
<1>3. /\ locals_base \in 0..Len(auxiliary_stack) /\ current_function \in Nat /\ ip \in Nat
      /\ for_loop_level \in Nat
  <2>1. CASE Idle
    <3>1. w_code \in Seq(Seq(Nat)) /\ w_code # <<>>
      BY DEF RunInv, Typing
    <3>2. w_code[1] \in Seq(Nat)
      BY <3>1, EmptySeq, ElementOfSeq
    <3>3. Len(w_code[1]) \in Nat
      BY <3>2, LenProperties
    <3>4. locals_base = 0 /\ current_function = 0 /\ for_loop_level = 0
          /\ (ip = 0 \/ ip = Len(w_code[1]) + 1)
      BY <2>1 DEF Idle
    <3>5. QED
      BY <1>2, <3>3, <3>4
  <2>2. ASSUME NEW loops, NEW frames, Active(Hs, Ls, loops, frames)
        PROVE  /\ locals_base \in 0..Len(auxiliary_stack) /\ current_function \in Nat
               /\ ip \in Nat /\ for_loop_level \in Nat
    <3>1. Running(Hs, Ls, loops, frames)
      BY <2>2, RunningFacts
    <3>2. /\ frames[Depth] \in Nat \ {0} /\ locals_base = frames[Depth] /\ ip \in Nat
          /\ locals_base + LocalsSize(current_function) = Len(auxiliary_stack)
          /\ Len(locals[current_function + 1]) \in Nat
          /\ for_loop_level = Ls[current_function][ip] /\ Ls[current_function][ip] \in Nat
      BY <3>1 DEF Running
    <3>3. current_function \in Nat
      BY <3>1, TypedFacts DEF Running, RunInv
    <3>4. QED
      BY <1>2, <3>2, <3>3 DEF LocalsSize
  <2>3. QED
    BY <2>1, <2>2 DEF RunInv
<1>4. \A height \in {Len(main_stack), Len(auxiliary_stack), Len(loop_stack), Len(call_stack)} :
        height <= StackSize
  BY <1>1, <1>2 DEF StacksOK
<1>5. QED
  BY <1>1, <1>3, <1>4 DEF StacksOK, RunTypeOK

LEMMA TypedReadsOwnLoops ==
  ASSUME NEW Hs, NEW Ls, RunInv(Hs, Ls)
  PROVE  ReadsOwnLoops
<1>1. SUFFICES ASSUME Fetch({W_OP_GET_LOOP_VAR})
               PROVE  read_u16(Code, ip + 1) < for_loop_level
  BY DEF ReadsOwnLoops
<1>2. PICK loops, frames : Running(Hs, Ls, loops, frames)
  BY <1>1, FetchFacts
<1>3. Opcode \in {W_OP_GET_LOOP_VAR} /\ Opcode = At(Body(current_function), ip)
  BY <1>1, <1>2, OpcodeIs
<1>4. /\ Code = Body(current_function) /\ for_loop_level = Ls[current_function][ip]
      /\ Ls[current_function][ip] \in Nat
      /\ OperandOK(current_function, ip, Ls[current_function][ip])
  BY <1>2 DEF Running, TypedAt
<1>5. read_u16(Code, ip + 1) \in 0..(for_loop_level - 1)
  BY <1>3, <1>4 DEF OperandOK
<1>6. QED
  BY <1>4, <1>5

LEMMA TypedReturnsItsResults ==
  ASSUME NEW Hs, NEW Ls, RunInv(Hs, Ls)
  PROVE  ReturnsItsResults
<1>1. SUFFICES ASSUME Fetch({W_OP_RET})
               PROVE  Len(main_stack) = Last(call_stack).height
                                          - Len(sigs[current_function + 1].params)
                                          + Len(sigs[current_function + 1].rets)
  BY DEF ReturnsItsResults
<1>2. PICK loops, frames : Running(Hs, Ls, loops, frames)
  BY <1>1, FetchFacts
<1>3. Opcode \in {W_OP_RET} /\ Opcode = At(Body(current_function), ip)
  BY <1>1, <1>2, OpcodeIs
<1>4. Hs[current_function][ip] = Len(sigs[current_function + 1].rets)
  BY <1>2, <1>3 DEF Running, TypedAt
<1>5. QED
  BY <1>2, <1>4 DEF Running, Last, Depth

LEMMA TypedEndsClean ==
  ASSUME NEW Hs, NEW Ls, RunInv(Hs, Ls)
  PROVE  EndsClean
BY DEF RunInv, EndsClean, Idle

-----------------------------------------------------------------------------
(* Theorems.  They hold of every module that has a typing.                 *)

\* The typing and the shape of the stacks are an inductive invariant of the interpreter.
LEMMA TypedInvariant ==
  ASSUME InterpreterAssumption
  PROVE  TypedSpec => []TypedInv
<1>1. RunInit /\ ModuleTyped => TypedInv
  BY InitTyped DEF ModuleTyped, TypedInv
<1>2. TypedInv /\ [RunStep]_vars => TypedInv'
  BY StepTyped, StutterTyped DEF TypedInv
<1>3. QED
  BY <1>1, <1>2, PTL DEF TypedSpec

\* A typed program never pops or reads below the bottom of a stack and never jumps out
\* of its block, whatever its loops count, its locals hold and the stacks' size is.
THEOREM NoUnderflowIfTyped ==
  ASSUME InterpreterAssumption
  PROVE  TypedSpec => []NeverUnderflows
<1>1. TypedInv => NeverUnderflows
  BY TypedNeverUnderflows DEF TypedInv
<1>2. QED
  BY <1>1, TypedInvariant, PTL

\* The fields of the interpreter hold what they can hold, and no stack outgrows its size.
THEOREM TypeCorrectIfTyped ==
  ASSUME InterpreterAssumption
  PROVE  TypedSpec => []RunTypeOK
<1>1. TypedInv => RunTypeOK
  BY TypedTypeOK DEF TypedInv
<1>2. QED
  BY <1>1, TypedInvariant, PTL

\* A typed function that reads a loop variable reads one of its own.
THEOREM OwnLoopsIfTyped ==
  ASSUME InterpreterAssumption
  PROVE  TypedSpec => []ReadsOwnLoops
<1>1. TypedInv => ReadsOwnLoops
  BY TypedReadsOwnLoops DEF TypedInv
<1>2. QED
  BY <1>1, TypedInvariant, PTL

\* A typed function leaves its results where its parameters were, however deep the
\* calls it made and however often its loops went round.
THEOREM ResultsIfTyped ==
  ASSUME InterpreterAssumption
  PROVE  TypedSpec => []ReturnsItsResults
<1>1. TypedInv => ReturnsItsResults
  BY TypedReturnsItsResults DEF TypedInv
<1>2. QED
  BY <1>1, TypedInvariant, PTL

\* A typed program that runs to its end leaves all four stacks empty.
THEOREM CleanEndIfTyped ==
  ASSUME InterpreterAssumption
  PROVE  TypedSpec => []EndsClean
<1>1. TypedInv => EndsClean
  BY TypedEndsClean DEF TypedInv
<1>2. QED
  BY <1>1, TypedInvariant, PTL

-----------------------------------------------------------------------------
(* The activations an abstract machine would see.                          *)

\* LoopBase and LocalsBase, of any stacks.
LoopBaseOf(counters, level, depth) ==
  LET base[k \in 0..(depth - 1)] ==
        IF k = 0 THEN Len(counters) - level
        ELSE base[k - 1] - 1 - counters[base[k - 1]]
  IN  [n \in 1..depth |-> base[depth - n]]

LocalsBaseOf(words, first, depth) ==
  LET base[k \in 0..(depth - 1)] == IF k = 0 THEN first ELSE words[base[k - 1]]
  IN  [n \in 1..depth |-> base[depth - n]]

\* The parts of the side stacks begin at `loops' and `frames': each is found from the
\* one above it, and the last from for_loop_level and `locals'.
Based(depth, counters, level, words, first, loops, frames) ==
  /\ depth \in Nat
  /\ loops \in [1..depth -> Nat \ {0}] /\ frames \in [1..depth -> Nat \ {0}]
  /\ depth > 0 => loops[depth] = Len(counters) - level /\ frames[depth] = first
  /\ \A n \in 1..(depth - 1) : /\ loops[n] = loops[n + 1] - 1 - counters[loops[n + 1]]
                               /\ frames[n] = words[frames[n + 1]]

\* f goes down the bases, if it gives each one from the one above it.
CountsDown(f, bases, depth) ==
  /\ depth > 0 => f[0] = bases[depth]
  /\ \A k \in 1..(depth - 1) : f[k - 1] = bases[depth - (k - 1)] => f[k] = bases[depth - k]

LEMMA CountedDown ==
  ASSUME NEW depth \in Nat, NEW f, NEW bases, CountsDown(f, bases, depth)
  PROVE  \A n \in 1..depth : f[depth - n] = bases[n]
<1> DEFINE I == {k \in Nat : k < depth => f[k] = bases[depth - k]}
<1>1. 0 \in I
  BY DEF CountsDown
<1>2. ASSUME NEW k \in Nat, k \in I PROVE k + 1 \in I
  <2>1. SUFFICES ASSUME k + 1 < depth PROVE f[k + 1] = bases[depth - (k + 1)]
    OBVIOUS
  <2>2. k + 1 \in 1..(depth - 1) /\ (k + 1) - 1 = k /\ k < depth
    BY <2>1
  <2>3. f[k] = bases[depth - k]
    BY <1>2, <2>2
  <2>4. QED
    BY <2>2, <2>3 DEF CountsDown
<1> HIDE DEF I
<1>3. Nat \subseteq I
  BY <1>1, <1>2, SetInduction
<1>4. ASSUME NEW n \in 1..depth PROVE f[depth - n] = bases[n]
  <2>1. depth - n \in Nat /\ depth - n < depth /\ depth - (depth - n) = n
    OBVIOUS
  <2>2. depth - n \in I
    BY <1>3, <2>1
  <2>3. QED
    BY <2>1, <2>2 DEF I
<1>5. QED
  BY <1>4

LEMMA LoopBasesAre ==
  ASSUME NEW depth, NEW counters, NEW level, NEW words, NEW first, NEW loops, NEW frames,
         Based(depth, counters, level, words, first, loops, frames)
  PROVE  LoopBaseOf(counters, level, depth) = loops
<1> DEFINE step(base) == [k \in 0..(depth - 1) |->
                            IF k = 0 THEN Len(counters) - level
                            ELSE base[k - 1] - 1 - counters[base[k - 1]]]
           base == CHOOSE base : base = step(base)
           known == [k \in 0..(depth - 1) |-> loops[depth - k]]
<1>1. LoopBaseOf(counters, level, depth) = [n \in 1..depth |-> base[depth - n]]
  BY Zenon DEF LoopBaseOf
<1>2. /\ depth \in Nat /\ loops \in [1..depth -> Nat \ {0}]
      /\ depth > 0 => loops[depth] = Len(counters) - level
      /\ \A n \in 1..(depth - 1) : loops[n] = loops[n + 1] - 1 - counters[loops[n + 1]]
  BY DEF Based
<1>3. known = step(known)
  <2>1. ASSUME NEW k \in 0..(depth - 1)
        PROVE  known[k] = IF k = 0 THEN Len(counters) - level
                          ELSE known[k - 1] - 1 - counters[known[k - 1]]
    <3>1. CASE k = 0
      BY <1>2, <3>1
    <3>2. CASE k # 0
      <4>1. /\ depth - k \in 1..(depth - 1) /\ depth - k + 1 = depth - (k - 1)
            /\ k - 1 \in 0..(depth - 1)
        BY <1>2, <3>2
      <4>2. known[k] = loops[depth - k] /\ known[k - 1] = loops[depth - (k - 1)]
        BY <4>1
      <4>3. loops[depth - k] = loops[depth - k + 1] - 1 - counters[loops[depth - k + 1]]
        BY <1>2, <4>1
      <4> HIDE DEF known
      <4>4. QED
        BY <3>2, <4>1, <4>2, <4>3
    <3>3. QED
      BY <3>1, <3>2
  <2>2. known = [k \in 0..(depth - 1) |-> known[k]]
    OBVIOUS
  <2> HIDE DEF known
  <2>3. QED
    BY <2>1, <2>2
<1> HIDE DEF known
<1>4. base = step(base)
  <2>1. \E f : f = step(f)
    BY <1>3
  <2> HIDE DEF step
  <2>2. QED
    BY <2>1, Zenon
<1> HIDE DEF base
<1>5. \A k \in 0..(depth - 1) : base[k] = IF k = 0 THEN Len(counters) - level
                                          ELSE base[k - 1] - 1 - counters[base[k - 1]]
  BY <1>4
<1>6. depth > 0 => base[0] = loops[depth]
  BY <1>2, <1>5
<1>7. ASSUME NEW k \in 1..(depth - 1), base[k - 1] = loops[depth - (k - 1)]
      PROVE  base[k] = loops[depth - k]
  <2>1. depth - k \in 1..(depth - 1) /\ depth - k + 1 = depth - (k - 1) /\ k \in 0..(depth - 1)
    BY <1>2
  <2>2. loops[depth - k] = loops[depth - k + 1] - 1 - counters[loops[depth - k + 1]]
    BY <1>2, <2>1
  <2>3. base[k] = base[k - 1] - 1 - counters[base[k - 1]]
    BY <1>2, <1>5, <2>1
  <2>4. QED
    BY <1>7, <2>1, <2>2, <2>3
<1>8. \A n \in 1..depth : base[depth - n] = loops[n]
  <2>1. CountsDown(base, loops, depth)
    BY <1>6, <1>7 DEF CountsDown
  <2>2. depth \in Nat
    BY <1>2
  <2>3. QED
    BY <2>1, <2>2, CountedDown, ZenonT(60)
<1>9. loops = [n \in 1..depth |-> loops[n]]
  BY <1>2
<1>10. QED
  BY <1>1, <1>8, <1>9

LEMMA LocalsBasesAre ==
  ASSUME NEW depth, NEW counters, NEW level, NEW words, NEW first, NEW loops, NEW frames,
         Based(depth, counters, level, words, first, loops, frames)
  PROVE  LocalsBaseOf(words, first, depth) = frames
<1> DEFINE step(base) == [k \in 0..(depth - 1) |-> IF k = 0 THEN first ELSE words[base[k - 1]]]
           base == CHOOSE base : base = step(base)
           known == [k \in 0..(depth - 1) |-> frames[depth - k]]
<1>1. LocalsBaseOf(words, first, depth) = [n \in 1..depth |-> base[depth - n]]
  BY Zenon DEF LocalsBaseOf
<1>2. /\ depth \in Nat /\ frames \in [1..depth -> Nat \ {0}]
      /\ depth > 0 => frames[depth] = first
      /\ \A n \in 1..(depth - 1) : frames[n] = words[frames[n + 1]]
  BY DEF Based
<1>3. known = step(known)
  <2>1. ASSUME NEW k \in 0..(depth - 1)
        PROVE  known[k] = IF k = 0 THEN first ELSE words[known[k - 1]]
    <3>1. CASE k = 0
      BY <1>2, <3>1
    <3>2. CASE k # 0
      <4>1. /\ depth - k \in 1..(depth - 1) /\ depth - k + 1 = depth - (k - 1)
            /\ k - 1 \in 0..(depth - 1)
        BY <1>2, <3>2
      <4>2. known[k] = frames[depth - k] /\ known[k - 1] = frames[depth - (k - 1)]
        BY <4>1
      <4>3. frames[depth - k] = words[frames[depth - k + 1]]
        BY <1>2, <4>1
      <4> HIDE DEF known
      <4>4. QED
        BY <3>2, <4>1, <4>2, <4>3
    <3>3. QED
      BY <3>1, <3>2
  <2>2. known = [k \in 0..(depth - 1) |-> known[k]]
    OBVIOUS
  <2> HIDE DEF known
  <2>3. QED
    BY <2>1, <2>2
<1> HIDE DEF known
<1>4. base = step(base)
  <2>1. \E f : f = step(f)
    BY <1>3
  <2> HIDE DEF step
  <2>2. QED
    BY <2>1, Zenon
<1> HIDE DEF base
<1>5. \A k \in 0..(depth - 1) : base[k] = IF k = 0 THEN first ELSE words[base[k - 1]]
  BY <1>4
<1>6. depth > 0 => base[0] = frames[depth]
  BY <1>2, <1>5
<1>7. ASSUME NEW k \in 1..(depth - 1), base[k - 1] = frames[depth - (k - 1)]
      PROVE  base[k] = frames[depth - k]
  <2>1. depth - k \in 1..(depth - 1) /\ depth - k + 1 = depth - (k - 1) /\ k \in 0..(depth - 1)
    BY <1>2
  <2>2. frames[depth - k] = words[frames[depth - k + 1]]
    BY <1>2, <2>1
  <2>3. base[k] = words[base[k - 1]]
    BY <1>2, <1>5, <2>1
  <2>4. QED
    BY <1>7, <2>1, <2>2, <2>3
<1>8. \A n \in 1..depth : base[depth - n] = frames[n]
  <2>1. CountsDown(base, frames, depth)
    BY <1>6, <1>7 DEF CountsDown
  <2>2. depth \in Nat
    BY <1>2
  <2>3. QED
    BY <2>1, <2>2, CountedDown
<1>9. frames = [n \in 1..depth |-> frames[n]]
  BY <1>2
<1>10. QED
  BY <1>1, <1>8, <1>9

\* The activations whose parts begin there.
PieceAt(n, loops, frames, calls, counters, words, f) ==
  LET top == n = Len(calls)
  IN  [func   |-> IF top THEN f ELSE calls[n + 1].func,
       back   |-> [func |-> calls[n].func, ip |-> calls[n].ip + 1],
       loops  |-> SubSeq(counters, loops[n] + 1,
                         IF top THEN Len(counters) ELSE loops[n + 1] - 1),
       locals |-> SubSeq(words, frames[n] + 1,
                         IF top THEN Len(words) ELSE frames[n + 1] - 1)]

Pieces(loops, frames, calls, counters, words, f) ==
  [n \in 1..Len(calls) |-> PieceAt(n, loops, frames, calls, counters, words, f)]

\* The variables of Activations.
Seen == [n \in 1..Len(call_stack) |-> Activation(n)]
Here == [func |-> current_function, ip |-> ip]

LEMMA SeenIs ==
  ASSUME NEW loops, NEW frames,
         Based(Len(call_stack), loop_stack, for_loop_level, auxiliary_stack, locals_base,
               loops, frames)
  PROVE  Seen = Pieces(loops, frames, call_stack, loop_stack, auxiliary_stack, current_function)
<1>1. LoopBase = LoopBaseOf(loop_stack, for_loop_level, Len(call_stack))
  BY Zenon DEF LoopBase, LoopBaseOf
<1>2. LocalsBase = LocalsBaseOf(auxiliary_stack, locals_base, Len(call_stack))
  BY Zenon DEF LocalsBase, LocalsBaseOf
<1>3. LoopBase = loops /\ LocalsBase = frames
  BY <1>1, <1>2, LoopBasesAre, LocalsBasesAre
<1>4. QED
  BY <1>3, Zenon DEF Seen, Activation, Pieces, PieceAt

LEMMA SeenNext ==
  ASSUME NEW loops, NEW frames,
         Based(Len(call_stack'), loop_stack', for_loop_level', auxiliary_stack', locals_base',
               loops, frames)
  PROVE  Seen' = Pieces(loops, frames, call_stack', loop_stack', auxiliary_stack',
                        current_function')
<1>1. LoopBase' = LoopBaseOf(loop_stack', for_loop_level', Len(call_stack'))
  BY Zenon DEF LoopBase, LoopBaseOf
<1>2. LocalsBase' = LocalsBaseOf(auxiliary_stack', locals_base', Len(call_stack'))
  BY Zenon DEF LocalsBase, LocalsBaseOf
<1>3. LoopBase' = loops /\ LocalsBase' = frames
  BY <1>1, <1>2, LoopBasesAre, LocalsBasesAre
<1>4. QED
  BY <1>3, Zenon DEF Seen, Activation, Pieces, PieceAt

-----------------------------------------------------------------------------
(* What a step does to the activations.                                    *)

\* Where the parts begin, they are on the stacks, one above the other.
Stacked(depth, counters, words, loops, frames) ==
  /\ depth \in Nat /\ counters \in Seq(Words) /\ words \in Seq(Words)
  /\ loops \in [1..depth -> Nat \ {0}] /\ frames \in [1..depth -> Nat \ {0}]
  /\ \A m, n \in 1..depth : m < n => loops[m] < loops[n] /\ frames[m] < frames[n]
  /\ \A n \in 1..depth : loops[n] <= Len(counters) /\ frames[n] <= Len(words)

\* Two sequences agree on their first n elements.
Agree(s, t, n) == \A i \in 1..n : s[i] = t[i]

LEMMA AgreeLess ==
  ASSUME NEW s, NEW t, NEW m \in Int, NEW n \in Int, n <= m, Agree(s, t, m)
  PROVE  Agree(s, t, n)
BY DEF Agree

\* t is s, cut off after n elements.
CutTo(t, s, n) == Len(t) = n /\ Agree(t, s, n)

LEMMA SamePart ==
  ASSUME NEW S, NEW s \in Seq(S), NEW t \in Seq(S), NEW m \in Nat \ {0}, NEW n \in Int,
         n <= Len(s), n <= Len(t), \A i \in 1..n : s[i] = t[i]
  PROVE  SubSeq(s, m, n) = SubSeq(t, m, n)
<1>1. Len(s) \in Nat /\ Len(t) \in Nat /\ m \in Int
  BY LenProperties
<1>2. \A i \in m..n : s[i] \in S /\ t[i] \in S
  BY <1>1, ElementOfSeq
<1>3. \A i \in 1..(n - m + 1) : m + i - 1 \in 1..n
  BY <1>1
<1> DEFINE a == SubSeq(s, m, n)
           b == SubSeq(t, m, n)
<1>4. /\ a \in Seq(S) /\ b \in Seq(S)
      /\ Len(a) = (IF m <= n THEN n - m + 1 ELSE 0) /\ Len(b) = (IF m <= n THEN n - m + 1 ELSE 0)
      /\ \A i \in 1..(n - m + 1) : a[i] = s[m + i - 1] /\ b[i] = t[m + i - 1]
  BY <1>1, <1>2, SubSeqProperties
<1>5. \A i \in 1..Len(a) : a[i] = b[i]
  BY <1>1, <1>3, <1>4
<1> HIDE DEF a, b
<1>6. a = b
  BY <1>4, <1>5, SeqEqual
<1>7. QED
  BY <1>6 DEF a, b

LEMMA FunctionIsSeq ==
  ASSUME NEW S, NEW n \in Nat, NEW f \in [1..n -> S]
  PROVE  f \in Seq(S) /\ Len(f) = n
<1>1. [1..n -> S] \in {[1..m -> S] : m \in Nat}
  OBVIOUS
<1>2. f \in UNION {[1..m -> S] : m \in Nat}
  BY <1>1, Zenon
<1>3. f \in Seq(S)
  BY <1>2, SeqDef, Zenon
<1>4. DOMAIN f = 1..n /\ DOMAIN f = 1..Len(f) /\ Len(f) \in Nat
  BY <1>3, LenProperties
<1>5. Len(f) = n
  BY <1>4
<1>6. QED
  BY <1>3, <1>5

PiecesIn(S, loops, frames, calls, counters, words, f) ==
  \A n \in 1..Len(calls) : PieceAt(n, loops, frames, calls, counters, words, f) \in S

LEMMA PiecesAre ==
  ASSUME NEW loops, NEW frames, NEW calls, NEW counters, NEW words, NEW f, Len(calls) \in Nat,
         NEW S, PiecesIn(S, loops, frames, calls, counters, words, f)
  PROVE  LET pieces == Pieces(loops, frames, calls, counters, words, f)
         IN  /\ pieces \in Seq(S) /\ Len(pieces) = Len(calls)
             /\ \A n \in 1..Len(calls) :
                  pieces[n] = PieceAt(n, loops, frames, calls, counters, words, f)
<1> DEFINE pieces == Pieces(loops, frames, calls, counters, words, f)
<1>1. pieces \in [1..Len(calls) -> S]
  BY DEF Pieces, PiecesIn
<1>2. \A n \in 1..Len(calls) : pieces[n] = PieceAt(n, loops, frames, calls, counters, words, f)
  BY DEF Pieces
<1> HIDE DEF pieces
<1>3. pieces \in Seq(S) /\ Len(pieces) = Len(calls)
  BY <1>1, FunctionIsSeq
<1>4. QED
  BY <1>2, <1>3 DEF pieces

\* The part of an activation is where it was: the stacks are as they were up to where the
\* part above it begins, or where they end.
PieceKept(n, loops, frames, calls, counters, words, f,
          loops2, frames2, calls2, counters2, words2, f2, to, end) ==
  /\ calls2[n] = calls[n] /\ loops2[n] = loops[n] /\ frames2[n] = frames[n]
  /\ loops[n] \in Nat \ {0} /\ frames[n] \in Nat \ {0} /\ to \in Int /\ end \in Int
  /\ to = (IF n = Len(calls) THEN Len(counters) ELSE loops[n + 1] - 1)
  /\ to = (IF n = Len(calls2) THEN Len(counters2) ELSE loops2[n + 1] - 1)
  /\ end = (IF n = Len(calls) THEN Len(words) ELSE frames[n + 1] - 1)
  /\ end = (IF n = Len(calls2) THEN Len(words2) ELSE frames2[n + 1] - 1)
  /\ (IF n = Len(calls) THEN f ELSE calls[n + 1].func)
       = (IF n = Len(calls2) THEN f2 ELSE calls2[n + 1].func)
  /\ to <= Len(counters) /\ to <= Len(counters2) /\ end <= Len(words) /\ end <= Len(words2)
  /\ Agree(counters, counters2, to) /\ Agree(words, words2, end)

LEMMA PieceStays ==
  ASSUME NEW calls, NEW calls2, NEW counters \in Seq(Words), NEW counters2 \in Seq(Words),
         NEW words \in Seq(Words), NEW words2 \in Seq(Words),
         NEW loops, NEW frames, NEW loops2, NEW frames2, NEW f, NEW f2, NEW n, NEW to, NEW end,
         PieceKept(n, loops, frames, calls, counters, words, f,
                   loops2, frames2, calls2, counters2, words2, f2, to, end)
  PROVE  PieceAt(n, loops2, frames2, calls2, counters2, words2, f2)
           = PieceAt(n, loops, frames, calls, counters, words, f)
<1>1. /\ loops[n] + 1 \in Nat \ {0} /\ frames[n] + 1 \in Nat \ {0} /\ to \in Int /\ end \in Int
      /\ to <= Len(counters) /\ to <= Len(counters2) /\ end <= Len(words) /\ end <= Len(words2)
      /\ \A i \in 1..to : counters[i] = counters2[i]
      /\ \A i \in 1..end : words[i] = words2[i]
  BY SMTT(40) DEF PieceKept, Agree
<1>2. SubSeq(counters, loops[n] + 1, to) = SubSeq(counters2, loops[n] + 1, to)
  BY <1>1, SamePart
<1>3. SubSeq(words, frames[n] + 1, end) = SubSeq(words2, frames[n] + 1, end)
  BY <1>1, SamePart
<1>4. QED
  BY <1>2, <1>3, Zenon DEF PieceAt, PieceKept

\* An activation with other counters and variables.
Piece(func, back, loops, locs) ==
  [func |-> func, back |-> back, loops |-> loops, locals |-> locs]
Replaced(piece, loops, locs) == [piece EXCEPT !.loops = loops, !.locals = locs]

LEMMA PieceReplaced ==
  ASSUME NEW func, NEW back, NEW loops, NEW locs, NEW loops2, NEW locs2
  PROVE  Piece(func, back, loops2, locs2) = Replaced(Piece(func, back, loops, locs), loops2, locs2)
<1> DEFINE piece == [func |-> func, back |-> back, loops |-> loops, locals |-> locs]
<1>1. PICK between : between = [piece EXCEPT !.loops = loops2]
  OBVIOUS
<1>2. between = [func |-> func, back |-> back, loops |-> loops2, locals |-> locs]
  BY <1>1
<1>3. [func |-> func, back |-> back, loops |-> loops2, locals |-> locs2]
        = [between EXCEPT !.locals = locs2]
  BY <1>2
<1> HIDE DEF piece
<1>4. [piece EXCEPT !.loops = loops2, !.locals = locs2]
        = [[piece EXCEPT !.loops = loops2] EXCEPT !.locals = locs2]
  OBVIOUS
<1>5. QED
  BY <1>1, <1>3, <1>4, Zenon DEF Replaced, Piece, piece

\* What is counted from 1, counted from 0.
LEMMA OneLess ==
  ASSUME NEW a \in Int, NEW b \in Int, NEW c \in Int, a <= b, b <= c
  PROVE  a <= c /\ a - 1 <= c /\ a - 1 <= b - 1 /\ a - 1 <= b
OBVIOUS

\* The activation that runs goes on in its parts of the side stacks.
PiecesGo(pieces, pieces2, depth, loops, frames, counters, words, counters2, words2) ==
  /\ pieces # <<>> /\ Len(pieces) = depth /\ Len(pieces2) = depth
  /\ Last(pieces).loops = SubSeq(counters, loops[depth] + 1, Len(counters))
  /\ Last(pieces).locals = SubSeq(words, frames[depth] + 1, Len(words))
  /\ Last(pieces2).loops = SubSeq(counters2, loops[depth] + 1, Len(counters2))
  /\ Last(pieces2).locals = SubSeq(words2, frames[depth] + 1, Len(words2))
  /\ pieces2 = Append(SubSeq(pieces, 1, Len(pieces) - 1),
                      [Last(pieces) EXCEPT !.loops = Last(pieces2).loops,
                                           !.locals = Last(pieces2).locals])

\* The activation that runs goes on; those that wait are as they were.
LEMMA PiecesProceed ==
  ASSUME NEW calls, NEW depth, depth = Len(calls), depth > 0,
         NEW counters, NEW words, NEW loops, NEW frames, NEW f,
         Stacked(depth, counters, words, loops, frames),
         NEW counters2 \in Seq(Words), NEW words2 \in Seq(Words),
         loops[depth] <= Len(counters2), frames[depth] <= Len(words2),
         Agree(counters, counters2, loops[depth]),
         Agree(words, words2, frames[depth]),
         NEW pieces, pieces = Pieces(loops, frames, calls, counters, words, f),
         NEW pieces2, pieces2 = Pieces(loops, frames, calls, counters2, words2, f)
  PROVE  PiecesGo(pieces, pieces2, depth, loops, frames, counters, words, counters2, words2)
<1>1. /\ depth \in Nat /\ counters \in Seq(Words) /\ words \in Seq(Words)
      /\ loops \in [1..depth -> Nat \ {0}] /\ frames \in [1..depth -> Nat \ {0}]
      /\ Len(counters) \in Nat /\ Len(words) \in Nat
      /\ Len(counters2) \in Nat /\ Len(words2) \in Nat
  BY LenProperties DEF Stacked
<1> DEFINE Old(n) == PieceAt(n, loops, frames, calls, counters, words, f)
           New(n) == PieceAt(n, loops, frames, calls, counters2, words2, f)
           S == {Old(n) : n \in 1..depth} \cup {New(n) : n \in 1..depth}
<1>2. \A n \in 1..depth : Old(n) \in S /\ New(n) \in S
  OBVIOUS
<1>3. /\ Old(depth).loops = SubSeq(counters, loops[depth] + 1, Len(counters))
      /\ Old(depth).locals = SubSeq(words, frames[depth] + 1, Len(words))
      /\ New(depth).loops = SubSeq(counters2, loops[depth] + 1, Len(counters2))
      /\ New(depth).locals = SubSeq(words2, frames[depth] + 1, Len(words2))
  BY DEF PieceAt
<1>20. New(depth) = [Old(depth) EXCEPT !.loops = New(depth).loops, !.locals = New(depth).locals]
  <2> DEFINE back == [func |-> calls[depth].func, ip |-> calls[depth].ip + 1]
             loops1 == SubSeq(counters, loops[depth] + 1, Len(counters))
             loops2 == SubSeq(counters2, loops[depth] + 1, Len(counters2))
             locs1 == SubSeq(words, frames[depth] + 1, Len(words))
             locs2 == SubSeq(words2, frames[depth] + 1, Len(words2))
  <2>1. Old(depth) = Piece(f, back, loops1, locs1) /\ New(depth) = Piece(f, back, loops2, locs2)
    BY DEF PieceAt, Piece
  <2>2. New(depth).loops = loops2 /\ New(depth).locals = locs2
    BY <1>3
  <2> HIDE DEF back, loops1, loops2, locs1, locs2, Old, New
  <2>5. Piece(f, back, loops2, locs2) = Replaced(Piece(f, back, loops1, locs1), loops2, locs2)
    BY PieceReplaced
  <2>3. New(depth) = Replaced(Old(depth), New(depth).loops, New(depth).locals)
    BY <2>1, <2>2, <2>5, Zenon
  <2>4. QED
    BY <2>3, Zenon DEF Replaced
<1>4. ASSUME NEW n \in 1..(depth - 1) PROVE New(n) = Old(n)
  <2> DEFINE to == loops[n + 1] - 1
             end == frames[n + 1] - 1
  <2>1. n \in 1..depth /\ n + 1 \in 1..depth /\ depth \in 1..depth /\ n # depth /\ n < n + 1
    BY <1>1
  <2>2. /\ loops[n] \in Nat \ {0} /\ frames[n] \in Nat \ {0} /\ to \in Int /\ end \in Int
        /\ loops[n + 1] \in Nat /\ frames[n + 1] \in Nat
        /\ loops[depth] \in Nat /\ frames[depth] \in Nat
    <3>1. loops[n] \in Nat \ {0} /\ loops[n + 1] \in Nat /\ loops[depth] \in Nat
      BY <1>1, <2>1
    <3>2. frames[n] \in Nat \ {0} /\ frames[n + 1] \in Nat /\ frames[depth] \in Nat
      BY <1>1, <2>1
    <3>3. to \in Int
      BY <3>1
    <3>4. end \in Int
      BY <3>2
    <3>5. QED
      BY <3>1, <3>2, <3>3, <3>4, Zenon
  <2>3. loops[n + 1] <= loops[depth] /\ frames[n + 1] <= frames[depth]
    <3>1. n + 1 = depth \/ n + 1 < depth
      BY <1>1
    <3>2. CASE n + 1 = depth
      BY <2>2, <3>2
    <3>3. CASE n + 1 < depth
      <4>1. loops[n + 1] < loops[depth] /\ frames[n + 1] < frames[depth]
        BY <2>1, <3>3 DEF Stacked
      <4>2. QED
        BY <2>2, <4>1, SMTT(40)
    <3>4. QED
      BY <3>1, <3>2, <3>3
  <2>4. loops[depth] <= Len(counters) /\ frames[depth] <= Len(words)
    BY <2>1 DEF Stacked
  <2>5. /\ to <= Len(counters) /\ to <= Len(counters2) /\ end <= Len(words) /\ end <= Len(words2)
    <3>1. /\ Len(counters) \in Nat /\ Len(counters2) \in Nat
          /\ Len(words) \in Nat /\ Len(words2) \in Nat
      BY <1>1
    <3>2. loops[depth] <= Len(counters2) /\ frames[depth] <= Len(words2)
      BY <1>1
    <3>3. to <= loops[depth] /\ end <= frames[depth]
      BY <2>2, <2>3, SMTT(40)
    <3> HIDE DEF to, end
    <3>4. to <= Len(counters) /\ to <= Len(counters2)
      BY <2>2, <2>4, <3>1, <3>2, <3>3, SMTT(40)
    <3>5. end <= Len(words) /\ end <= Len(words2)
      BY <2>2, <2>4, <3>1, <3>2, <3>3, SMTT(40)
    <3>6. QED
      BY <3>4, <3>5
  <2>6. Agree(counters, counters2, to) /\ Agree(words, words2, end)
    <3>1. to <= loops[depth]
      BY <2>2, <2>3
    <3>5. end <= frames[depth]
      BY <2>2, <2>3
    <3> HIDE DEF to, end
    <3>2. Agree(counters, counters2, to)
      BY <2>2, <3>1, AgreeLess
    <3>3. Agree(words, words2, end)
      BY <2>2, <3>5, AgreeLess
    <3>4. QED
      BY <3>2, <3>3
  <2>7. /\ to = (IF n = Len(calls) THEN Len(counters) ELSE loops[n + 1] - 1)
        /\ to = (IF n = Len(calls) THEN Len(counters2) ELSE loops[n + 1] - 1)
        /\ end = (IF n = Len(calls) THEN Len(words) ELSE frames[n + 1] - 1)
        /\ end = (IF n = Len(calls) THEN Len(words2) ELSE frames[n + 1] - 1)
    BY <2>1
  <2> HIDE DEF to, end
  <2>8. PieceKept(n, loops, frames, calls, counters, words, f,
                  loops, frames, calls, counters2, words2, f, to, end)
    BY <2>2, <2>5, <2>6, <2>7 DEF PieceKept, to, end
  <2>9. QED
    BY <1>1, <2>8, PieceStays
<1>30. PiecesIn(S, loops, frames, calls, counters, words, f)
  BY <1>2 DEF PiecesIn
<1>31. PiecesIn(S, loops, frames, calls, counters2, words2, f)
  BY <1>2 DEF PiecesIn
<1> HIDE DEF S, Old, New
<1>5. /\ pieces \in Seq(S) /\ Len(pieces) = depth /\ \A n \in 1..depth : pieces[n] = Old(n)
  BY <1>1, <1>30, PiecesAre DEF Old
<1>6. /\ pieces2 \in Seq(S) /\ Len(pieces2) = depth /\ \A n \in 1..depth : pieces2[n] = New(n)
  BY <1>1, <1>31, PiecesAre DEF New
<1>7. depth \in 1..depth /\ depth - 1 \in 0..Len(pieces)
  BY <1>1, <1>5
<1>8. Last(pieces) = Old(depth) /\ Last(pieces2) = New(depth)
  BY <1>5, <1>6, <1>7 DEF Last
<1>9. pieces # <<>>
  BY <1>5
<1> DEFINE older == SubSeq(pieces, 1, depth - 1)
<1>10. /\ older \in Seq(S) /\ Len(older) = depth - 1
       /\ \A i \in 1..(depth - 1) : older[i] = pieces[i]
  BY <1>5, <1>7, CutFacts
<1> HIDE DEF older
<1> DEFINE together == Append(older, New(depth))
<1>11. New(depth) \in S
  BY <1>2, <1>7
<1>12. /\ together \in Seq(S) /\ Len(together) = Len(older) + 1
       /\ \A i \in 1..Len(older) : together[i] = older[i]
       /\ together[Len(older) + 1] = New(depth)
  BY <1>10, <1>11, PushFacts
<1> HIDE DEF together
<1>13. \A i \in 1..Len(pieces2) : pieces2[i] = together[i]
  <2>1. SUFFICES ASSUME NEW i \in 1..depth PROVE pieces2[i] = together[i]
    BY <1>6
  <2>2. CASE i = depth
    BY <1>1, <1>6, <1>7, <1>10, <1>12, <2>2
  <2>3. CASE i # depth
    <3>1. i \in 1..(depth - 1)
      BY <1>1, <2>3
    <3>2. QED
      BY <1>4, <1>5, <1>6, <1>10, <1>12, <3>1
  <2>4. QED
    BY <2>2, <2>3
<1>14. Len(pieces2) = Len(together)
  BY <1>1, <1>6, <1>10, <1>12
<1>15. pieces2 = together
  BY <1>6, <1>12, <1>13, <1>14, SeqEqual
<1>16. New(depth) = [Last(pieces) EXCEPT !.loops = Last(pieces2).loops,
                                         !.locals = Last(pieces2).locals]
  BY <1>8, <1>20, Zenon
<1>17. QED
  BY <1>3, <1>5, <1>6, <1>8, <1>9, <1>15, <1>16, Zenon DEF together, older, PiecesGo

\* An activation of f is entered above those there are, and goes back to `back'.
PiecesMore(pieces, pieces2, depth, f, back) ==
  /\ Len(pieces) = depth /\ Len(pieces2) = Len(pieces) + 1
  /\ SubSeq(pieces2, 1, Len(pieces)) = pieces
  /\ Last(pieces2).loops = <<>> /\ Last(pieces2).func = f /\ Last(pieces2).back = back

LEMMA PiecesEnter ==
  ASSUME NEW calls, NEW depth, depth = Len(calls),
         NEW counters, NEW words, NEW loops, NEW frames, NEW f,
         Stacked(depth, counters, words, loops, frames),
         NEW calls2, Len(calls2) = depth + 1, Agree(calls2, calls, depth),
         depth > 0 => calls2[depth + 1].func = f,
         NEW counters2 \in Seq(Words), NEW words2 \in Seq(Words), NEW f2,
         Len(counters2) = Len(counters) + 1, Len(words2) > Len(words),
         Agree(counters, counters2, Len(counters)),
         Agree(words, words2, Len(words)),
         NEW loops2, NEW frames2,
         loops2[depth + 1] = Len(counters) + 1, frames2[depth + 1] = Len(words) + 1,
         Agree(loops2, loops, depth), Agree(frames2, frames, depth),
         NEW pieces, pieces = Pieces(loops, frames, calls, counters, words, f),
         NEW pieces2, pieces2 = Pieces(loops2, frames2, calls2, counters2, words2, f2)
  PROVE  PiecesMore(pieces, pieces2, depth, f2,
                    [func |-> calls2[depth + 1].func, ip |-> calls2[depth + 1].ip + 1])
<1>1. /\ depth \in Nat /\ counters \in Seq(Words) /\ words \in Seq(Words)
      /\ loops \in [1..depth -> Nat \ {0}] /\ frames \in [1..depth -> Nat \ {0}]
      /\ Len(counters) \in Nat /\ Len(words) \in Nat
      /\ Len(counters2) \in Nat /\ Len(words2) \in Nat
  BY LenProperties DEF Stacked
<1> DEFINE Old(n) == PieceAt(n, loops, frames, calls, counters, words, f)
           New(n) == PieceAt(n, loops2, frames2, calls2, counters2, words2, f2)
           S == {Old(n) : n \in 1..depth} \cup {New(n) : n \in 1..(depth + 1)}
<1>2. /\ \A n \in 1..depth : Old(n) \in S
      /\ \A n \in 1..(depth + 1) : New(n) \in S
  OBVIOUS
<1>3. /\ New(depth + 1).loops = SubSeq(counters2, Len(counters) + 1 + 1, Len(counters2))
      /\ New(depth + 1).func = f2
      /\ New(depth + 1).back = [func |-> calls2[depth + 1].func, ip |-> calls2[depth + 1].ip + 1]
  BY DEF PieceAt
<1>4. SubSeq(counters2, Len(counters) + 1 + 1, Len(counters2)) = <<>>
  <2>1. Len(counters2) < Len(counters) + 1 + 1
    BY <1>1
  <2>2. Len(counters) + 1 + 1 \in Int /\ Len(counters2) \in Int
    BY <1>1
  <2>3. QED
    BY <2>1, <2>2, SubSeqEmpty
<1>5. ASSUME NEW n \in 1..depth PROVE New(n) = Old(n)
  <2> DEFINE to == loops2[n + 1] - 1
             end == frames2[n + 1] - 1
  <2>1. n # depth + 1 /\ n + 1 \in 1..(depth + 1) /\ depth > 0 /\ depth \in 1..depth
    BY <1>1
  <2>2. loops[n] \in Nat \ {0} /\ frames[n] \in Nat \ {0}
    BY <1>1
  <2>3. CASE n = depth
    <3>1. /\ to = Len(counters) /\ end = Len(words)
      BY <1>1, <2>3, SMTT(40)
    <3>2. /\ to = (IF n = Len(calls) THEN Len(counters) ELSE loops[n + 1] - 1)
          /\ to = (IF n = Len(calls2) THEN Len(counters2) ELSE loops2[n + 1] - 1)
          /\ end = (IF n = Len(calls) THEN Len(words) ELSE frames[n + 1] - 1)
          /\ end = (IF n = Len(calls2) THEN Len(words2) ELSE frames2[n + 1] - 1)
      BY <2>1, <2>3, <3>1
    <3>3. (IF n = Len(calls) THEN f ELSE calls[n + 1].func)
            = (IF n = Len(calls2) THEN f2 ELSE calls2[n + 1].func)
      BY <2>1, <2>3
    <3>4. /\ to \in Int /\ end \in Int
          /\ to <= Len(counters) /\ to <= Len(counters2) /\ end <= Len(words) /\ end <= Len(words2)
          /\ Agree(counters, counters2, to)
          /\ Agree(words, words2, end)
      BY <1>1, <3>1, SMTT(40) DEF Agree
    <3> HIDE DEF to, end
    <3>5. loops2[n] = loops[n] /\ frames2[n] = frames[n] /\ calls2[n] = calls[n]
      BY DEF Agree
    <3>6. PieceKept(n, loops, frames, calls, counters, words, f,
                    loops2, frames2, calls2, counters2, words2, f2, to, end)
      BY <2>2, <3>2, <3>3, <3>4, <3>5 DEF PieceKept
    <3>7. QED
      BY <1>1, <3>6, PieceStays
  <2>4. CASE n # depth
    <3>1. n + 1 \in 1..depth /\ n # depth /\ n # depth + 1
      BY <1>1, <2>1, <2>4
    <3>2. to = loops[n + 1] - 1 /\ end = frames[n + 1] - 1
      BY <3>1 DEF Agree
    <3>3. /\ loops[n + 1] \in Nat /\ frames[n + 1] \in Nat
          /\ loops[n + 1] <= Len(counters) /\ frames[n + 1] <= Len(words)
      BY <1>1, <3>1 DEF Stacked
    <3>4. /\ to = (IF n = Len(calls) THEN Len(counters) ELSE loops[n + 1] - 1)
          /\ to = (IF n = Len(calls2) THEN Len(counters2) ELSE loops2[n + 1] - 1)
          /\ end = (IF n = Len(calls) THEN Len(words) ELSE frames[n + 1] - 1)
          /\ end = (IF n = Len(calls2) THEN Len(words2) ELSE frames2[n + 1] - 1)
      BY <3>1, <3>2
    <3>5. (IF n = Len(calls) THEN f ELSE calls[n + 1].func)
            = (IF n = Len(calls2) THEN f2 ELSE calls2[n + 1].func)
      BY <3>1 DEF Agree
    <3>9. /\ to \in Int /\ end \in Int
          /\ to <= Len(counters) /\ end <= Len(words)
      BY <1>1, <3>2, <3>3, SMTT(40)
    <3> HIDE DEF to, end
    <3>10. to <= Len(counters2) /\ end <= Len(words2)
      BY <1>1, <3>9
    <3>11. Agree(counters, counters2, to)
      BY <1>1, <3>9, AgreeLess
    <3>12. Agree(words, words2, end)
      BY <1>1, <3>9, AgreeLess
    <3>6. /\ to \in Int /\ end \in Int
          /\ to <= Len(counters) /\ to <= Len(counters2) /\ end <= Len(words) /\ end <= Len(words2)
          /\ Agree(counters, counters2, to)
          /\ Agree(words, words2, end)
      BY <3>9, <3>10, <3>11, <3>12
    <3>7. loops2[n] = loops[n] /\ frames2[n] = frames[n] /\ calls2[n] = calls[n]
      BY DEF Agree
    <3>8. PieceKept(n, loops, frames, calls, counters, words, f,
                    loops2, frames2, calls2, counters2, words2, f2, to, end)
      BY <2>2, <3>4, <3>5, <3>6, <3>7 DEF PieceKept
    <3>13. QED
      BY <1>1, <3>8, PieceStays
  <2>5. QED
    BY <2>3, <2>4
<1>30. PiecesIn(S, loops, frames, calls, counters, words, f)
  BY <1>2 DEF PiecesIn
<1>31. PiecesIn(S, loops2, frames2, calls2, counters2, words2, f2)
  BY <1>2 DEF PiecesIn
<1> HIDE DEF S, Old, New
<1>6. /\ pieces \in Seq(S) /\ Len(pieces) = depth /\ \A n \in 1..depth : pieces[n] = Old(n)
  BY <1>1, <1>30, PiecesAre DEF Old
<1>7. depth + 1 \in Nat /\ depth + 1 \in 1..(depth + 1) /\ \A n \in 1..depth : n \in 1..(depth + 1)
  BY <1>1
<1>8. /\ pieces2 \in Seq(S) /\ Len(pieces2) = depth + 1
      /\ \A n \in 1..(depth + 1) : pieces2[n] = New(n)
  BY <1>7, <1>31, PiecesAre DEF New
<1>9. Last(pieces2) = New(depth + 1)
  BY <1>7, <1>8 DEF Last
<1> DEFINE older == SubSeq(pieces2, 1, depth)
<1>10. /\ older \in Seq(S) /\ Len(older) = depth /\ \A i \in 1..depth : older[i] = pieces2[i]
  <2>1. depth \in 0..Len(pieces2)
    BY <1>1, <1>8
  <2>2. QED
    BY <1>8, <2>1, CutFacts
<1> HIDE DEF older
<1>11. \A i \in 1..Len(older) : older[i] = pieces[i]
  BY <1>5, <1>6, <1>7, <1>8, <1>10
<1>12. older = pieces
  BY <1>6, <1>10, <1>11, SeqEqual
<1>13. QED
  BY <1>3, <1>4, <1>6, <1>8, <1>9, <1>12 DEF older, PiecesMore

\* The top activation returns, to `back', where the one below waits for it.
PiecesLess(pieces, pieces2, back) ==
  /\ pieces # <<>> /\ pieces2 = SubSeq(pieces, 1, Len(pieces) - 1) /\ Last(pieces).back = back

LEMMA PiecesReturn ==
  ASSUME NEW calls, NEW depth, depth = Len(calls), depth > 0,
         NEW counters, NEW words, NEW loops, NEW frames, NEW f,
         Stacked(depth, counters, words, loops, frames),
         NEW calls2, CutTo(calls2, calls, depth - 1),
         NEW counters2 \in Seq(Words), NEW words2 \in Seq(Words), NEW f2,
         f2 = calls[depth].func,
         CutTo(counters2, counters, loops[depth] - 1),
         CutTo(words2, words, frames[depth] - 1),
         NEW loops2, NEW frames2,
         Agree(loops2, loops, depth - 1), Agree(frames2, frames, depth - 1),
         NEW pieces, pieces = Pieces(loops, frames, calls, counters, words, f),
         NEW pieces2, pieces2 = Pieces(loops2, frames2, calls2, counters2, words2, f2)
  PROVE  PiecesLess(pieces, pieces2, [func |-> calls[depth].func, ip |-> calls[depth].ip + 1])
<1>1. /\ depth \in Nat /\ counters \in Seq(Words) /\ words \in Seq(Words)
      /\ loops \in [1..depth -> Nat \ {0}] /\ frames \in [1..depth -> Nat \ {0}]
      /\ Len(counters) \in Nat /\ Len(words) \in Nat
      /\ Len(counters2) \in Nat /\ Len(words2) \in Nat
      /\ depth \in 1..depth /\ depth - 1 \in Nat
  BY LenProperties DEF Stacked
<1>40. /\ Len(calls2) = depth - 1 /\ Len(counters2) = loops[depth] - 1
       /\ Len(words2) = frames[depth] - 1
  BY DEF CutTo
<1>41. /\ Agree(calls2, calls, depth - 1) /\ Agree(counters, counters2, loops[depth] - 1)
       /\ Agree(words, words2, frames[depth] - 1)
  BY DEF CutTo, Agree
<1> DEFINE Old(n) == PieceAt(n, loops, frames, calls, counters, words, f)
           New(n) == PieceAt(n, loops2, frames2, calls2, counters2, words2, f2)
           S == {Old(n) : n \in 1..depth} \cup {New(n) : n \in 1..(depth - 1)}
<1>2. /\ \A n \in 1..depth : Old(n) \in S
      /\ \A n \in 1..(depth - 1) : New(n) \in S
  OBVIOUS
<1>3. Old(depth).back = [func |-> calls[depth].func, ip |-> calls[depth].ip + 1]
  BY DEF PieceAt
<1>4. ASSUME NEW n \in 1..(depth - 1) PROVE New(n) = Old(n)
  <2> DEFINE to == loops[n + 1] - 1
             end == frames[n + 1] - 1
  <2>1. n \in 1..depth /\ n + 1 \in 1..depth /\ n # depth
    BY <1>1
  <2>2. /\ loops[n] \in Nat \ {0} /\ frames[n] \in Nat \ {0} /\ to \in Int /\ end \in Int
        /\ loops[n + 1] \in Nat /\ frames[n + 1] \in Nat
        /\ loops[depth] \in Nat /\ frames[depth] \in Nat
    <3>1. loops[n] \in Nat \ {0} /\ loops[n + 1] \in Nat /\ loops[depth] \in Nat
      BY <1>1, <2>1
    <3>2. frames[n] \in Nat \ {0} /\ frames[n + 1] \in Nat /\ frames[depth] \in Nat
      BY <1>1, <2>1
    <3>3. to \in Int
      BY <3>1
    <3>4. end \in Int
      BY <3>2
    <3>5. QED
      BY <3>1, <3>2, <3>3, <3>4, Zenon
  <2>3. loops[n + 1] <= loops[depth] /\ frames[n + 1] <= frames[depth]
    <3>1. n + 1 = depth \/ n + 1 < depth
      BY <1>1
    <3>2. CASE n + 1 = depth
      BY <2>2, <3>2
    <3>3. CASE n + 1 < depth
      <4>1. loops[n + 1] < loops[depth] /\ frames[n + 1] < frames[depth]
        BY <1>1, <2>1, <3>3 DEF Stacked
      <4>2. loops[n + 1] <= loops[depth]
        BY <2>2, <4>1
      <4>3. frames[n + 1] <= frames[depth]
        BY <2>2, <4>1
      <4>4. QED
        BY <4>2, <4>3
    <3>4. QED
      BY <3>1, <3>2, <3>3
  <2>4. loops[depth] <= Len(counters) /\ frames[depth] <= Len(words)
    BY <1>1 DEF Stacked
  <2>5. /\ to <= Len(counters) /\ to <= loops[depth] - 1
        /\ end <= Len(words) /\ end <= frames[depth] - 1
    <3>1. loops[n + 1] \in Int /\ loops[depth] \in Int /\ Len(counters) \in Int
      BY <1>1, <2>2
    <3>2. to <= Len(counters) /\ to <= loops[depth] - 1
      BY <3>1, <2>3, <2>4, OneLess, Zenon
    <3>3. frames[n + 1] \in Int /\ frames[depth] \in Int /\ Len(words) \in Int
      BY <1>1, <2>2
    <3>4. end <= Len(words) /\ end <= frames[depth] - 1
      BY <3>3, <2>3, <2>4, OneLess, Zenon
    <3>5. QED
      BY <3>2, <3>4
  <2>12. to <= Len(counters2) /\ end <= Len(words2)
    BY <1>40, <2>5
  <2>6. /\ Agree(counters, counters2, to)
        /\ Agree(words, words2, end)
    <3> HIDE DEF to, end
    <3>1. Agree(counters, counters2, to)
      BY <1>41, <2>2, <2>5, AgreeLess
    <3>2. Agree(words, words2, end)
      BY <1>41, <2>2, <2>5, AgreeLess
    <3>3. QED
      BY <3>1, <3>2
  <2>7. /\ to = (IF n = Len(calls) THEN Len(counters) ELSE loops[n + 1] - 1)
        /\ end = (IF n = Len(calls) THEN Len(words) ELSE frames[n + 1] - 1)
    BY <2>1
  <2>8. /\ to = (IF n = Len(calls2) THEN Len(counters2) ELSE loops2[n + 1] - 1)
        /\ end = (IF n = Len(calls2) THEN Len(words2) ELSE frames2[n + 1] - 1)
        /\ (IF n = Len(calls) THEN f ELSE calls[n + 1].func)
            = (IF n = Len(calls2) THEN f2 ELSE calls2[n + 1].func)
    <3>1. CASE n = depth - 1
      <4>1. n + 1 = depth
        BY <1>1, <3>1
      <4>2. QED
        BY <1>40, <2>1, <3>1, <4>1
    <3>2. CASE n # depth - 1
      <4>1. n + 1 \in 1..(depth - 1)
        BY <1>1, <3>2
      <4>2. QED
        BY <1>40, <1>41, <2>1, <3>2, <4>1 DEF Agree
    <3>3. QED
      BY <3>1, <3>2
  <2> HIDE DEF to, end
  <2>9. loops2[n] = loops[n] /\ frames2[n] = frames[n] /\ calls2[n] = calls[n]
    BY <1>41 DEF Agree
  <2>10. PieceKept(n, loops, frames, calls, counters, words, f,
                   loops2, frames2, calls2, counters2, words2, f2, to, end)
    BY <2>2, <2>5, <2>6, <2>7, <2>8, <2>9, <2>12 DEF PieceKept, to, end
  <2>11. QED
    BY <1>1, <2>10, PieceStays
<1>30. PiecesIn(S, loops, frames, calls, counters, words, f)
  BY <1>2 DEF PiecesIn
<1>31. PiecesIn(S, loops2, frames2, calls2, counters2, words2, f2)
  BY <1>2, <1>40 DEF PiecesIn
<1> HIDE DEF S, Old, New
<1>5. /\ pieces \in Seq(S) /\ Len(pieces) = depth /\ \A n \in 1..depth : pieces[n] = Old(n)
  BY <1>1, <1>30, PiecesAre DEF Old
<1>6. /\ pieces2 \in Seq(S) /\ Len(pieces2) = depth - 1
      /\ \A n \in 1..(depth - 1) : pieces2[n] = New(n)
  <2>1. Len(calls2) \in Nat
    BY <1>1, <1>40
  <2>2. /\ pieces2 \in Seq(S) /\ Len(pieces2) = Len(calls2)
        /\ \A n \in 1..Len(calls2) : pieces2[n] = New(n)
    BY <1>31, <2>1, PiecesAre DEF New
  <2>3. QED
    BY <1>40, <2>2
<1>7. Last(pieces) = Old(depth) /\ pieces # <<>>
  BY <1>1, <1>5 DEF Last
<1> DEFINE older == SubSeq(pieces, 1, depth - 1)
<1>8. /\ older \in Seq(S) /\ Len(older) = depth - 1
      /\ \A i \in 1..(depth - 1) : older[i] = pieces[i]
  <2>1. depth - 1 \in 0..Len(pieces)
    BY <1>1, <1>5
  <2>2. QED
    BY <1>5, <2>1, CutFacts
<1> HIDE DEF older
<1>9. \A i \in 1..Len(pieces2) : pieces2[i] = older[i]
  <2>1. \A i \in 1..(depth - 1) : i \in 1..depth
    BY <1>1
  <2>2. QED
    BY <1>4, <1>5, <1>6, <1>8, <2>1
<1>10. pieces2 = older
  BY <1>6, <1>8, <1>9, SeqEqual
<1>11. QED
  BY <1>3, <1>5, <1>7, <1>10 DEF older, PiecesLess

-----------------------------------------------------------------------------
(* The steps of Activations, of what is seen.                              *)

\* Where no stack and no register changes, nothing is seen.
LEMMA SeenStays ==
  ASSUME UNCHANGED <<stacks, registers>>
  PROVE  UNCHANGED Promised!vars
<1>1. UNCHANGED <<auxiliary_stack, loop_stack, call_stack, locals_base, current_function, ip,
                  for_loop_level>>
  BY DEF stacks, registers
<1>2. LoopBase' = LoopBase /\ LocalsBase' = LocalsBase
  BY <1>1 DEF LoopBase, LocalsBase
<1>3. Seen' = Seen /\ Here' = Here
  BY <1>1, <1>2 DEF Seen, Here, Activation
<1>4. QED
  BY <1>3 DEF Seen, Here, Promised!vars

LEMMA EnterSeen ==
  ASSUME Len(Seen') = Len(Seen) + 1, SubSeq(Seen', 1, Len(Seen)) = Seen,
         Last(Seen').loops = <<>>, Last(Seen').func = Here'.func, Here'.ip = 0
  PROVE  Promised!Enter
BY Zenon DEF Promised!Enter, Promised!Last, Last, Seen, Here

LEMMA BeginSeen ==
  ASSUME Seen = <<>>, Promised!Enter
  PROVE  Promised!Next
BY Zenon DEF Promised!Next, Promised!Begin, Seen

LEMMA CallSeen ==
  ASSUME Seen # <<>>, Promised!Enter,
         Last(Seen').back = [func |-> Here.func, ip |-> Here.ip + 2]
  PROVE  Promised!Next
<1>1. [Here EXCEPT !.ip = @ + 2] = [func |-> Here.func, ip |-> Here.ip + 2]
  BY DEF Here
<1>2. Promised!CallFrom
  BY <1>1 DEF Promised!CallFrom, Promised!CallSize, Promised!Last, Last, Seen, Here
<1>3. QED
  BY <1>2, Zenon DEF Promised!Next

LEMMA ReturnSeen ==
  ASSUME Seen # <<>>, Seen' = SubSeq(Seen, 1, Len(Seen) - 1), Here' = Last(Seen).back
  PROVE  Promised!Next
<1>1. Promised!Return
  BY DEF Promised!Return, Promised!Older, Promised!Active, Promised!Last, Last, Seen, Here
<1>2. QED
  BY <1>1, Zenon DEF Promised!Next

\* What the activation that runs has, and what it has next.
Counters == Last(Seen).loops
Variables == Last(Seen).locals
Goes == /\ Seen # <<>> /\ Len(Seen') = Len(Seen) /\ Here'.func = Here.func
        /\ Seen' = Append(SubSeq(Seen, 1, Len(Seen) - 1),
                          [Last(Seen) EXCEPT !.loops = Counters', !.locals = Variables'])

LEMMA GoesSeen ==
  ASSUME Goes
  PROVE  Promised!Proceed(Counters', Variables')
BY DEF Goes, Counters, Variables, Seen, Here, Promised!Proceed, Promised!Older, Promised!Active,
       Promised!Last, Last

LEMMA WithinSeen ==
  ASSUME Goes, Counters' = Counters, Variables' = Variables
  PROVE  Promised!Next
<1>1. Promised!Proceed(Counters, Variables)
  BY GoesSeen
<1>2. Promised!Within
  BY <1>1 DEF Goes, Seen, Counters, Variables, Promised!Within, Promised!Active, Promised!Last, Last
<1>3. QED
  BY <1>2, Zenon DEF Promised!Next

LEMMA OpenSeen ==
  ASSUME Goes, Len(Counters') - Len(Counters) \in {1, 2},
         SubSeq(Counters', 1, Len(Counters)) = Counters, Variables' = Variables
  PROVE  Promised!Next
<1>1. Promised!Proceed(Counters', Variables)
  BY GoesSeen
<1>2. Promised!OpenLoop
  BY <1>1 DEF Goes, Seen, Counters, Variables, Promised!OpenLoop, Promised!Active, Promised!Last,
              Last
<1>3. QED
  BY <1>2, Zenon DEF Promised!Next

LEMMA CountSeen ==
  ASSUME Goes, Counters # <<>>, Counters' # <<>>,
         Counters' = [Counters EXCEPT ![Len(Counters)] = Last(Counters')],
         Variables' = Variables
  PROVE  Promised!Next
<1>1. Promised!Proceed([Counters EXCEPT ![Len(Counters)] = Last(Counters')], Variables)
  BY GoesSeen
<1>2. Promised!CountOn
  BY <1>1 DEF Goes, Seen, Counters, Variables, Promised!CountOn, Promised!Active, Promised!Last,
              Last
<1>3. QED
  BY <1>2, Zenon DEF Promised!Next

LEMMA CloseSeen ==
  ASSUME Goes, NEW n \in {1, 2}, n <= Len(Counters),
         Counters' = SubSeq(Counters, 1, Len(Counters) - n), Variables' = Variables
  PROVE  Promised!Next
<1>1. Promised!Proceed(SubSeq(Counters, 1, Len(Counters) - n), Variables)
  BY GoesSeen
<1>2. Promised!CloseLoop
  BY <1>1 DEF Goes, Seen, Counters, Variables, Promised!CloseLoop, Promised!Active, Promised!Last,
              Last
<1>3. QED
  BY <1>2, Zenon DEF Promised!Next

LEMMA AssignSeen ==
  ASSUME Goes, Counters' = Counters, NEW i \in DOMAIN Variables,
         Variables' = [Variables EXCEPT ![i] = Variables'[i]]
  PROVE  Promised!Next
<1>1. Promised!Proceed(Counters, [Variables EXCEPT ![i] = Variables'[i]])
  BY GoesSeen
<1>2. Promised!Assign
  BY <1>1 DEF Goes, Seen, Counters, Variables, Promised!Assign, Promised!Active, Promised!Last, Last
<1>3. QED
  BY <1>2, Zenon DEF Promised!Next

-----------------------------------------------------------------------------
(* Where the parts of the activations begin.                               *)

LEMMA ActivationsAre ==
  ASSUME NEW Hs, NEW Ls, RunInv(Hs, Ls), NEW loops, NEW frames, Running(Hs, Ls, loops, frames)
  PROVE  /\ Stacked(Depth, loop_stack, auxiliary_stack, loops, frames)
         /\ Based(Depth, loop_stack, for_loop_level, auxiliary_stack, locals_base, loops, frames)
<1>1. /\ Depth \in Nat /\ Depth > 0
      /\ loops \in [1..Depth -> Nat \ {0}] /\ frames \in [1..Depth -> Nat \ {0}]
      /\ \A m, n \in 1..Depth : m < n => loops[m] < loops[n] /\ frames[m] < frames[n]
      /\ \A n \in 1..Depth : WellAt(n, Hs, Ls, loops, frames)
  BY DEF Running, Active
<1>2. loop_stack \in Seq(Words) /\ auxiliary_stack \in Seq(Words)
  BY DEF RunInv, StacksOK
<1>3. \A n \in 1..Depth : loops[n] \in 1..Len(loop_stack) /\ frames[n] \in 1..Len(auxiliary_stack)
  BY BasesBelow
<1>4. Len(loop_stack) \in Nat /\ Len(auxiliary_stack) \in Nat
  BY <1>2, LenProperties
<1>5. Stacked(Depth, loop_stack, auxiliary_stack, loops, frames)
  BY <1>1, <1>2, <1>3, <1>4 DEF Stacked
<1>6. loops[Depth] = Len(loop_stack) - for_loop_level /\ frames[Depth] = locals_base
  <2>1. /\ loops[Depth] + for_loop_level = Len(loop_stack) /\ frames[Depth] = locals_base
        /\ loops[Depth] \in Nat /\ for_loop_level \in Nat
    BY DEF Running
  <2>2. QED
    BY <1>4, <2>1
<1>7. ASSUME NEW n \in 1..(Depth - 1)
      PROVE  /\ loops[n] = loops[n + 1] - 1 - loop_stack[loops[n + 1]]
             /\ frames[n] = auxiliary_stack[frames[n + 1]]
  <2>1. n \in 1..Depth /\ n + 1 \in 1..Depth /\ n # Depth /\ n + 1 # 1 /\ n + 1 - 1 = n
    BY <1>1
  <2>2. loops[n] + loop_stack[loops[n + 1]] = loops[n + 1] - 1
    BY <1>1, <2>1 DEF WellAt, LevelAt, LoopEnd
  <2>3. loops[n + 1] \in 1..Len(loop_stack)
    BY <1>3, <2>1
  <2>4. loop_stack[loops[n + 1]] \in Words
    BY <1>2, <2>3, ElementOfSeq
  <2>5. loop_stack[loops[n + 1]] \in Int /\ loops[n] \in Int /\ loops[n + 1] \in Int
    BY <1>1, <2>1, <2>4 DEF Words
  <2>6. loops[n] = loops[n + 1] - 1 - loop_stack[loops[n + 1]]
    BY <2>2, <2>5
  <2>7. WellAt(n + 1, Hs, Ls, loops, frames)
    BY <1>1, <2>1
  <2>8. auxiliary_stack[frames[n + 1]] = frames[n]
    BY <2>1, <2>7 DEF WellAt
  <2>9. QED
    BY <2>6, <2>8
<1>8. QED
  BY <1>1, <1>5, <1>6, <1>7 DEF Based

\* Only the parts of the activation that runs change.
OwnParts(loops, frames) ==
  /\ UNCHANGED <<call_stack, locals_base, current_function>>
  /\ loop_stack' \in Seq(Words) /\ auxiliary_stack' \in Seq(Words)
  /\ loops[Depth] = Len(loop_stack') - for_loop_level' /\ loops[Depth] <= Len(loop_stack')
  /\ Len(auxiliary_stack') = Len(auxiliary_stack)
  /\ Agree(loop_stack, loop_stack', loops[Depth])
  /\ Agree(auxiliary_stack, auxiliary_stack', frames[Depth])

\* The part a sequence has above its element b.
Above(s, b) == SubSeq(s, b + 1, Len(s))

LEMMA OwnPartsGo ==
  ASSUME NEW Hs, NEW Ls, RunInv(Hs, Ls), NEW loops, NEW frames, Running(Hs, Ls, loops, frames),
         OwnParts(loops, frames)
  PROVE  /\ Goes
         /\ Counters = Above(loop_stack, loops[Depth])
         /\ Variables = Above(auxiliary_stack, frames[Depth])
         /\ Counters' = Above(loop_stack', loops[Depth])
         /\ Variables' = Above(auxiliary_stack', frames[Depth])
<1>1. /\ Stacked(Depth, loop_stack, auxiliary_stack, loops, frames)
      /\ Based(Depth, loop_stack, for_loop_level, auxiliary_stack, locals_base, loops, frames)
  BY ActivationsAre
<1>2. /\ call_stack' = call_stack /\ locals_base' = locals_base
      /\ current_function' = current_function
      /\ loop_stack' \in Seq(Words) /\ auxiliary_stack' \in Seq(Words)
      /\ loops[Depth] = Len(loop_stack') - for_loop_level' /\ loops[Depth] <= Len(loop_stack')
      /\ Len(auxiliary_stack') = Len(auxiliary_stack)
  BY DEF OwnParts
<1>3. /\ \A n \in 1..(Depth - 1) : /\ loops[n] = loops[n + 1] - 1 - loop_stack'[loops[n + 1]]
                                   /\ frames[n] = auxiliary_stack'[frames[n + 1]]
  <2>1. SUFFICES ASSUME NEW n \in 1..(Depth - 1)
                 PROVE  /\ loops[n] = loops[n + 1] - 1 - loop_stack'[loops[n + 1]]
                        /\ frames[n] = auxiliary_stack'[frames[n + 1]]
    OBVIOUS
  <2>2. Depth \in Nat
    BY <1>1 DEF Stacked
  <2>3. n + 1 \in 1..Depth
    BY <2>2
  <2>4. /\ loops[n + 1] \in Nat \ {0} /\ frames[n + 1] \in Nat \ {0}
        /\ loops[n + 1] <= loops[Depth] /\ frames[n + 1] <= frames[Depth]
    BY <2>3, BasesBelow
  <2>5. loops[Depth] \in Nat /\ frames[Depth] \in Nat
    BY DEF Running
  <2>6. loop_stack'[loops[n + 1]] = loop_stack[loops[n + 1]]
    BY <2>4, <2>5 DEF OwnParts, Agree
  <2>7. auxiliary_stack'[frames[n + 1]] = auxiliary_stack[frames[n + 1]]
    BY <2>4, <2>5 DEF OwnParts, Agree
  <2>8. /\ loops[n] = loops[n + 1] - 1 - loop_stack[loops[n + 1]]
        /\ frames[n] = auxiliary_stack[frames[n + 1]]
    BY <1>1 DEF Based
  <2>9. QED
    BY <2>6, <2>7, <2>8, Zenon
<1>4. Based(Depth, loop_stack', for_loop_level', auxiliary_stack', locals_base', loops, frames)
  BY <1>1, <1>2, <1>3 DEF Based
<1>5. Seen = Pieces(loops, frames, call_stack, loop_stack, auxiliary_stack, current_function)
  BY <1>1, SeenIs DEF Depth
<1>6. Seen' = Pieces(loops, frames, call_stack, loop_stack', auxiliary_stack', current_function)
  <2>1. Based(Len(call_stack'), loop_stack', for_loop_level', auxiliary_stack', locals_base',
              loops, frames)
    BY <1>2, <1>4 DEF Depth
  <2>2. Seen' = Pieces(loops, frames, call_stack', loop_stack', auxiliary_stack', current_function')
    BY <2>1, SeenNext
  <2>3. QED
    BY <1>2, <2>2
<1>7. frames[Depth] <= Len(auxiliary_stack')
  <2>4. Depth \in Nat /\ Depth > 0
    BY DEF Running
  <2>1. Depth \in 1..Depth
    BY <2>4
  <2>2. frames[Depth] \in 1..Len(auxiliary_stack)
    BY <2>1, BasesBelow
  <2>3. QED
    BY <1>2, <2>2, SMTT(40)
<1>8. Depth > 0 /\ Depth = Len(call_stack)
  BY DEF Running, Depth
<1>9. /\ Agree(loop_stack, loop_stack', loops[Depth])
      /\ Agree(auxiliary_stack, auxiliary_stack', frames[Depth])
  BY DEF OwnParts
<1>10. PiecesGo(Seen, Seen', Depth, loops, frames, loop_stack, auxiliary_stack,
                loop_stack', auxiliary_stack')
  BY <1>1, <1>2, <1>5, <1>6, <1>7, <1>8, <1>9, PiecesProceed, Zenon
<1>11. Here'.func = Here.func
  BY <1>2 DEF Here
<1>13. Len(Seen') = Len(Seen)
  BY <1>10, Zenon DEF PiecesGo
<1>12. QED
  BY <1>10, <1>11, <1>13, Zenon DEF PiecesGo, Goes, Counters, Variables, Above

LEMMA AboveFacts ==
  ASSUME NEW S, NEW s \in Seq(S), NEW b \in 0..Len(s), NEW part, part = Above(s, b)
  PROVE  /\ part \in Seq(S) /\ Len(part) = Len(s) - b /\ Len(part) \in Nat
         /\ \A i \in 1..Len(part) : part[i] = s[b + i]
<1>1. Len(s) \in Nat
  BY LenProperties
<1>2. \A i \in (b + 1)..Len(s) : s[i] \in S
  BY <1>1, ElementOfSeq
<1>3. /\ part \in Seq(S) /\ Len(part) = (IF b + 1 <= Len(s) THEN Len(s) - (b + 1) + 1 ELSE 0)
      /\ \A i \in 1..(Len(s) - (b + 1) + 1) : part[i] = s[b + 1 + i - 1]
  BY <1>1, <1>2, SubSeqProperties DEF Above
<1>4. Len(part) = Len(s) - b /\ Len(part) \in Nat
  BY <1>1, <1>3
<1>5. ASSUME NEW i \in 1..Len(part) PROVE part[i] = s[b + i]
  <2>1. i \in 1..(Len(s) - (b + 1) + 1) /\ b + 1 + i - 1 = b + i
    BY <1>1, <1>4
  <2>2. QED
    BY <1>3, <2>1
<1>6. QED
  BY <1>3, <1>4, <1>5

\* t is s, but for its element j.
ChangedAt(t, s, j) == Len(t) = Len(s) /\ \A i \in 1..Len(s) : i # j => t[i] = s[i]

\* q is p, but for its element j.
PartChanged(q, p, j) ==
  /\ Len(q) = Len(p) /\ p # <<>> /\ q # <<>>
  /\ j \in DOMAIN p /\ q = [p EXCEPT ![j] = q[j]]

\* q is p without its last n elements.
PartCut(q, p, n) == n <= Len(p) /\ q = SubSeq(p, 1, Len(p) - n)

\* The part above a base when the sequence grows, when one of its elements changes and
\* when it is cut.
LEMMA AboveGrows ==
  ASSUME NEW S, NEW s \in Seq(S), NEW s2 \in Seq(S), NEW b \in 0..Len(s),
         Len(s2) >= Len(s), Agree(s, s2, Len(s)),
         NEW p, p = Above(s, b), NEW q, q = Above(s2, b)
  PROVE  Len(q) - Len(p) = Len(s2) - Len(s) /\ SubSeq(q, 1, Len(p)) = p
<1>1. Len(s) \in Nat /\ Len(s2) \in Nat
  BY LenProperties
<1>2. b \in 0..Len(s2)
  BY <1>1
<1>3. /\ p \in Seq(S) /\ Len(p) = Len(s) - b /\ Len(p) \in Nat
      /\ \A i \in 1..Len(p) : p[i] = s[b + i]
  BY AboveFacts
<1>4. /\ q \in Seq(S) /\ Len(q) = Len(s2) - b /\ Len(q) \in Nat
      /\ \A i \in 1..Len(q) : q[i] = s2[b + i]
  BY <1>2, AboveFacts
<1>5. Len(p) \in 0..Len(q)
  BY <1>1, <1>3, <1>4
<1> DEFINE cut == SubSeq(q, 1, Len(p))
<1>6. cut \in Seq(S) /\ Len(cut) = Len(p) /\ \A i \in 1..Len(p) : cut[i] = q[i]
  BY <1>4, <1>5, CutFacts
<1> HIDE DEF cut
<1>7. ASSUME NEW i \in 1..Len(cut) PROVE cut[i] = p[i]
  <2>1. i \in 1..Len(q) /\ i \in 1..Len(p) /\ b + i \in 1..Len(s)
    BY <1>1, <1>3, <1>5, <1>6
  <2>2. s2[b + i] = s[b + i]
    BY <2>1 DEF Agree
  <2>3. QED
    BY <1>3, <1>4, <1>6, <2>1, <2>2
<1>8. cut = p
  BY <1>3, <1>6, <1>7, SeqEqual
<1>9. QED
  BY <1>1, <1>3, <1>4, <1>8 DEF cut

LEMMA AboveChanges ==
  ASSUME NEW S, NEW s \in Seq(S), NEW s2 \in Seq(S), NEW b \in 0..Len(s),
         NEW j \in (b + 1)..Len(s), ChangedAt(s2, s, j),
         NEW p, p = Above(s, b), NEW q, q = Above(s2, b)
  PROVE  Len(p) = Len(s) - b /\ PartChanged(q, p, j - b)
<1>1. Len(s) \in Nat /\ Len(s2) \in Nat /\ Len(s2) = Len(s)
  BY LenProperties DEF ChangedAt
<1>2. b \in 0..Len(s2)
  BY <1>1
<1>3. /\ p \in Seq(S) /\ Len(p) = Len(s) - b /\ Len(p) \in Nat
      /\ \A i \in 1..Len(p) : p[i] = s[b + i]
  BY AboveFacts
<1>4. /\ q \in Seq(S) /\ Len(q) = Len(s2) - b /\ Len(q) \in Nat
      /\ \A i \in 1..Len(q) : q[i] = s2[b + i]
  BY <1>2, AboveFacts
<1>5. j - b \in 1..Len(p) /\ Len(q) = Len(p)
  BY <1>1, <1>3, <1>4
<1>6. q[j - b] \in S /\ DOMAIN p = 1..Len(p)
  BY <1>3, <1>4, <1>5, ElementOfSeq, LenProperties
<1> DEFINE changed == [p EXCEPT ![j - b] = q[j - b]]
<1>7. /\ changed \in Seq(S) /\ Len(changed) = Len(p)
      /\ \A i \in 1..Len(p) : changed[i] = IF i = j - b THEN q[j - b] ELSE p[i]
  BY <1>3, <1>5, <1>6, ExceptSeq
<1> HIDE DEF changed
<1>8. ASSUME NEW i \in 1..Len(q) PROVE q[i] = changed[i]
  <2>1. i \in 1..Len(p)
    BY <1>5
  <2>2. CASE i = j - b
    BY <1>7, <2>1, <2>2
  <2>3. CASE i # j - b
    <3>1. b + i \in 1..Len(s) /\ b + i # j
      BY <1>1, <1>3, <2>1, <2>3
    <3>2. s2[b + i] = s[b + i]
      BY <3>1 DEF ChangedAt
    <3>3. QED
      BY <1>3, <1>4, <1>7, <2>1, <2>3, <3>2
  <2>4. QED
    BY <2>2, <2>3
<1>9. q = changed
  BY <1>4, <1>5, <1>7, <1>8, SeqEqual
<1>10. p # <<>> /\ q # <<>>
  BY <1>5
<1>11. QED
  BY <1>3, <1>5, <1>6, <1>9, <1>10 DEF changed, PartChanged

LEMMA AboveCut ==
  ASSUME NEW S, NEW s \in Seq(S), NEW s2 \in Seq(S), NEW b \in 0..Len(s), NEW n \in Nat,
         n <= Len(s) - b, CutTo(s2, s, Len(s) - n),
         NEW p, p = Above(s, b), NEW q, q = Above(s2, b)
  PROVE  PartCut(q, p, n)
<1>1. Len(s) \in Nat /\ Len(s2) \in Nat /\ Len(s2) = Len(s) - n
  BY LenProperties DEF CutTo
<1>2. b \in 0..Len(s2)
  BY <1>1
<1>3. /\ p \in Seq(S) /\ Len(p) = Len(s) - b /\ Len(p) \in Nat
      /\ \A i \in 1..Len(p) : p[i] = s[b + i]
  BY AboveFacts
<1>4. /\ q \in Seq(S) /\ Len(q) = Len(s2) - b /\ Len(q) \in Nat
      /\ \A i \in 1..Len(q) : q[i] = s2[b + i]
  BY <1>2, AboveFacts
<1>5. Len(p) - n \in 0..Len(p) /\ Len(q) = Len(p) - n
  BY <1>1, <1>3, <1>4
<1> DEFINE cut == SubSeq(p, 1, Len(p) - n)
<1>6. cut \in Seq(S) /\ Len(cut) = Len(p) - n /\ \A i \in 1..(Len(p) - n) : cut[i] = p[i]
  BY <1>3, <1>5, CutFacts
<1> HIDE DEF cut
<1>7. ASSUME NEW i \in 1..Len(q) PROVE q[i] = cut[i]
  <2>1. i \in 1..Len(p) /\ i \in 1..(Len(p) - n) /\ b + i \in 1..(Len(s) - n)
    BY <1>1, <1>3, <1>4, <1>5
  <2>2. s2[b + i] = s[b + i]
    BY <2>1 DEF CutTo, Agree
  <2>3. QED
    BY <1>3, <1>4, <1>6, <2>1, <2>2
<1>8. q = cut
  BY <1>4, <1>5, <1>6, <1>7, SeqEqual
<1>9. QED
  BY <1>3, <1>5, <1>8 DEF cut, PartCut

-----------------------------------------------------------------------------
(* The steps of the interpreter, as those of Activations.                  *)

\* The step is one of Activations, or changes nothing that is seen.
Sees == Promised!Next \/ UNCHANGED Promised!vars

LEMMA StopSeen ==
  ASSUME NEW how, Stop(how)
  PROVE  Sees
BY SeenStays DEF Stop, Sees

LEMMA StackParts ==
  ASSUME NEW Hs, NEW Ls, RunInv(Hs, Ls), NEW loops, NEW frames, Running(Hs, Ls, loops, frames)
  PROVE  /\ loop_stack \in Seq(Words) /\ auxiliary_stack \in Seq(Words)
         /\ Len(loop_stack) \in Nat /\ Len(auxiliary_stack) \in Nat
         /\ loops[Depth] \in Nat \ {0} /\ frames[Depth] \in Nat \ {0}
         /\ loops[Depth] = Len(loop_stack) - for_loop_level /\ loops[Depth] <= Len(loop_stack)
         /\ frames[Depth] = locals_base /\ frames[Depth] <= Len(auxiliary_stack)
         /\ for_loop_level \in Nat
<1>1. loop_stack \in Seq(Words) /\ auxiliary_stack \in Seq(Words)
  BY DEF RunInv, StacksOK
<1>2. /\ Len(loop_stack) \in Nat /\ Len(auxiliary_stack) \in Nat
      /\ loops[Depth] \in Nat \ {0} /\ frames[Depth] \in Nat \ {0}
      /\ loops[Depth] + for_loop_level = Len(loop_stack) /\ for_loop_level \in Nat
      /\ frames[Depth] = locals_base
      /\ Depth \in Nat /\ Depth > 0
  BY DEF Running
<1>3. Depth \in 1..Depth
  BY <1>2
<1>4. frames[Depth] \in 1..Len(auxiliary_stack)
  BY <1>3, BasesBelow
<1>5. QED
  BY <1>1, <1>2, <1>4

\* The side stacks are left alone.
LEMMA AloneSeen ==
  ASSUME NEW Hs, NEW Ls, RunInv(Hs, Ls), NEW loops, NEW frames, Running(Hs, Ls, loops, frames),
         UNCHANGED <<auxiliary_stack, loop_stack, call_stack, locals_base, current_function,
                     for_loop_level>>
  PROVE  Sees
<1>1. OwnParts(loops, frames)
  BY StackParts DEF OwnParts, Agree
<1>2. Counters' = Counters /\ Variables' = Variables /\ Goes
  <2>1. /\ Goes
        /\ Counters = Above(loop_stack, loops[Depth])
        /\ Variables = Above(auxiliary_stack, frames[Depth])
        /\ Counters' = Above(loop_stack', loops[Depth])
        /\ Variables' = Above(auxiliary_stack', frames[Depth])
    BY <1>1, OwnPartsGo, Zenon
  <2>2. loop_stack' = loop_stack /\ auxiliary_stack' = auxiliary_stack
    OBVIOUS
  <2>3. QED
    BY <2>1, <2>2, Zenon
<1>3. QED
  BY <1>2, WithinSeen DEF Sees

\* The loop stack grows, counts or shrinks above what the caller has there.
LEMMA OpensSeen ==
  ASSUME NEW Hs, NEW Ls, RunInv(Hs, Ls), NEW loops, NEW frames, Running(Hs, Ls, loops, frames),
         UNCHANGED <<auxiliary_stack, call_stack, locals_base, current_function>>,
         NEW n \in {1, 2}, loop_stack' \in Seq(Words), Len(loop_stack') = Len(loop_stack) + n,
         for_loop_level' = for_loop_level + n, Agree(loop_stack, loop_stack', Len(loop_stack))
  PROVE  Sees
<1>1. loops[Depth] <= Len(loop_stack) /\ loops[Depth] \in Int /\ Len(loop_stack) \in Int
  BY StackParts
<1>2. Agree(loop_stack, loop_stack', loops[Depth])
  BY <1>1, AgreeLess
<1>3. OwnParts(loops, frames)
  BY <1>2, StackParts DEF OwnParts, Agree
<1>4. /\ Goes /\ Variables' = Variables
      /\ Counters = Above(loop_stack, loops[Depth]) /\ Counters' = Above(loop_stack', loops[Depth])
  <2>1. /\ Goes
        /\ Counters = Above(loop_stack, loops[Depth])
        /\ Variables = Above(auxiliary_stack, frames[Depth])
        /\ Counters' = Above(loop_stack', loops[Depth])
        /\ Variables' = Above(auxiliary_stack', frames[Depth])
    BY <1>3, OwnPartsGo, Zenon
  <2>2. auxiliary_stack' = auxiliary_stack
    OBVIOUS
  <2>3. QED
    BY <2>1, <2>2, Zenon
<1>5. /\ loops[Depth] \in 0..Len(loop_stack) /\ Len(loop_stack') >= Len(loop_stack)
      /\ loop_stack \in Seq(Words)
  BY StackParts
<1>6. /\ Len(Counters') - Len(Counters) = Len(loop_stack') - Len(loop_stack)
      /\ SubSeq(Counters', 1, Len(Counters)) = Counters
  BY <1>4, <1>5, AboveGrows
<1>7. Len(Counters') - Len(Counters) \in {1, 2}
  BY <1>1, <1>6
<1>8. QED
  BY <1>4, <1>6, <1>7, OpenSeen DEF Sees

LEMMA CountsSeen ==
  ASSUME NEW Hs, NEW Ls, RunInv(Hs, Ls), NEW loops, NEW frames, Running(Hs, Ls, loops, frames),
         UNCHANGED <<auxiliary_stack, call_stack, locals_base, current_function, for_loop_level>>,
         for_loop_level > 0, loop_stack' \in Seq(Words), Len(loop_stack') = Len(loop_stack),
         Agree(loop_stack, loop_stack', Len(loop_stack) - 1)
  PROVE  Sees
<1>1. /\ loops[Depth] <= Len(loop_stack) - 1 /\ loops[Depth] \in Nat /\ Len(loop_stack) \in Nat
      /\ loop_stack \in Seq(Words)
  BY StackParts
<1>2. Agree(loop_stack, loop_stack', loops[Depth])
  BY <1>1, AgreeLess
<1>3. OwnParts(loops, frames)
  BY <1>2, StackParts DEF OwnParts, Agree
<1>4. /\ Goes /\ Variables' = Variables
      /\ Counters = Above(loop_stack, loops[Depth]) /\ Counters' = Above(loop_stack', loops[Depth])
  <2>1. /\ Goes
        /\ Counters = Above(loop_stack, loops[Depth])
        /\ Variables = Above(auxiliary_stack, frames[Depth])
        /\ Counters' = Above(loop_stack', loops[Depth])
        /\ Variables' = Above(auxiliary_stack', frames[Depth])
    BY <1>3, OwnPartsGo, Zenon
  <2>2. auxiliary_stack' = auxiliary_stack
    OBVIOUS
  <2>3. QED
    BY <2>1, <2>2, Zenon
<1>5. /\ loops[Depth] \in 0..Len(loop_stack)
      /\ Len(loop_stack) \in (loops[Depth] + 1)..Len(loop_stack)
      /\ ChangedAt(loop_stack', loop_stack, Len(loop_stack))
  BY <1>1 DEF Agree, ChangedAt
<1>10. /\ Len(Counters) = Len(loop_stack) - loops[Depth]
       /\ PartChanged(Counters', Counters, Len(loop_stack) - loops[Depth])
  BY <1>1, <1>4, <1>5, AboveChanges, Zenon
<1>6. /\ Len(Counters') = Len(Counters) /\ Len(Counters) = Len(loop_stack) - loops[Depth]
      /\ Counters # <<>> /\ Counters' # <<>>
      /\ Counters' = [Counters EXCEPT ![Len(loop_stack) - loops[Depth]]
                                         = Counters'[Len(loop_stack) - loops[Depth]]]
  BY <1>10, Zenon DEF PartChanged
<1>7. Last(Counters') = Counters'[Len(loop_stack) - loops[Depth]]
  BY <1>6 DEF Last
<1>8. Counters' = [Counters EXCEPT ![Len(Counters)] = Last(Counters')]
  BY <1>6, <1>7, Zenon
<1>9. QED
  BY <1>4, <1>6, <1>8, CountSeen DEF Sees

LEMMA ClosesSeen ==
  ASSUME NEW Hs, NEW Ls, RunInv(Hs, Ls), NEW loops, NEW frames, Running(Hs, Ls, loops, frames),
         UNCHANGED <<auxiliary_stack, call_stack, locals_base, current_function>>,
         NEW n \in {1, 2}, for_loop_level >= n, loop_stack' \in Seq(Words),
         CutTo(loop_stack', loop_stack, Len(loop_stack) - n),
         for_loop_level' = for_loop_level - n
  PROVE  Sees
<1>1. /\ loops[Depth] <= Len(loop_stack) - n /\ loops[Depth] \in Nat /\ Len(loop_stack) \in Nat
      /\ loop_stack \in Seq(Words) /\ loops[Depth] = Len(loop_stack) - for_loop_level
      /\ for_loop_level \in Nat
  BY StackParts
<1>2. Len(loop_stack') = Len(loop_stack) - n /\ Agree(loop_stack, loop_stack', Len(loop_stack) - n)
  BY DEF CutTo, Agree
<1>3. Agree(loop_stack, loop_stack', loops[Depth])
  BY <1>1, <1>2, AgreeLess
<1>4. OwnParts(loops, frames)
  BY <1>1, <1>2, <1>3, StackParts DEF OwnParts, Agree
<1>5. /\ Goes /\ Variables' = Variables
      /\ Counters = Above(loop_stack, loops[Depth]) /\ Counters' = Above(loop_stack', loops[Depth])
  <2>1. /\ Goes
        /\ Counters = Above(loop_stack, loops[Depth])
        /\ Variables = Above(auxiliary_stack, frames[Depth])
        /\ Counters' = Above(loop_stack', loops[Depth])
        /\ Variables' = Above(auxiliary_stack', frames[Depth])
    BY <1>4, OwnPartsGo, Zenon
  <2>2. auxiliary_stack' = auxiliary_stack
    OBVIOUS
  <2>3. QED
    BY <2>1, <2>2, Zenon
<1>6. loops[Depth] \in 0..Len(loop_stack) /\ n \in Nat /\ n <= Len(loop_stack) - loops[Depth]
  BY <1>1
<1>7. PartCut(Counters', Counters, n)
  BY <1>1, <1>5, <1>6, AboveCut, Zenon
<1>9. n <= Len(Counters) /\ Counters' = SubSeq(Counters, 1, Len(Counters) - n)
  BY <1>7, Zenon DEF PartCut
<1>8. QED
  BY <1>5, <1>9, CloseSeen DEF Sees

LEMMA AssignsSeen ==
  ASSUME NEW Hs, NEW Ls, RunInv(Hs, Ls), NEW loops, NEW frames, Running(Hs, Ls, loops, frames),
         UNCHANGED <<loop_stack, call_stack, locals_base, current_function, for_loop_level>>,
         auxiliary_stack' \in Seq(Words),
         NEW j \in (locals_base + 1)..Len(auxiliary_stack),
         ChangedAt(auxiliary_stack', auxiliary_stack, j)
  PROVE  Sees
<1>1. /\ frames[Depth] = locals_base /\ frames[Depth] \in Nat /\ Len(auxiliary_stack) \in Nat
      /\ auxiliary_stack \in Seq(Words) /\ frames[Depth] <= Len(auxiliary_stack)
  BY StackParts
<1>2. /\ Agree(auxiliary_stack, auxiliary_stack', frames[Depth])
      /\ Len(auxiliary_stack') = Len(auxiliary_stack)
  BY <1>1 DEF Agree, ChangedAt
<1>3. OwnParts(loops, frames)
  BY <1>2, StackParts DEF OwnParts, Agree
<1>4. /\ Goes /\ Counters' = Counters
      /\ Variables = Above(auxiliary_stack, frames[Depth])
      /\ Variables' = Above(auxiliary_stack', frames[Depth])
  <2>1. /\ Goes
        /\ Counters = Above(loop_stack, loops[Depth])
        /\ Variables = Above(auxiliary_stack, frames[Depth])
        /\ Counters' = Above(loop_stack', loops[Depth])
        /\ Variables' = Above(auxiliary_stack', frames[Depth])
    BY <1>3, OwnPartsGo, Zenon
  <2>2. loop_stack' = loop_stack
    OBVIOUS
  <2>3. QED
    BY <2>1, <2>2, Zenon
<1>5. frames[Depth] \in 0..Len(auxiliary_stack) /\ j \in (frames[Depth] + 1)..Len(auxiliary_stack)
  BY <1>1
<1>8. PartChanged(Variables', Variables, j - frames[Depth])
  BY <1>1, <1>4, <1>5, AboveChanges, Zenon
<1>6. /\ j - frames[Depth] \in DOMAIN Variables
      /\ Variables' = [Variables EXCEPT ![j - frames[Depth]] = Variables'[j - frames[Depth]]]
  BY <1>8, Zenon DEF PartChanged
<1>7. QED
  BY <1>4, <1>6, AssignSeen DEF Sees

\* The instructions that leave the side stacks alone, or stop the program.
LEMMA MainSeen ==
  ASSUME NEW Hs, NEW Ls, RunInv(Hs, Ls), NEW ops, Fetch(ops), NEW stack, OnMain(stack)
  PROVE  Sees
<1>1. PICK loops, frames : Running(Hs, Ls, loops, frames)
  BY FetchFacts
<1>2. UNCHANGED <<auxiliary_stack, loop_stack, call_stack, locals_base, current_function,
                  for_loop_level>>
  BY DEF OnMain
<1>3. QED
  BY <1>1, <1>2, AloneSeen

LEMMA PushSeen ==
  ASSUME NEW Hs, NEW Ls, RunInv(Hs, Ls), RunPush
  PROVE  Sees
<1>1. Fetch({W_OP_PUSH8, W_OP_PUSH_INT8})
  BY DEF RunPush
<1>2. (\E how : Stop(how)) \/ \E stack : OnMain(stack)
  BY Zenon DEF RunPush
<1>3. QED
  BY <1>1, <1>2, StopSeen, MainSeen, Zenon

LEMMA PopSeen ==
  ASSUME NEW Hs, NEW Ls, RunInv(Hs, Ls), RunPop
  PROVE  Sees
<1>1. Fetch({W_OP_POP})
  BY DEF RunPop
<1>2. (\E how : Stop(how)) \/ \E stack : OnMain(stack)
  BY Zenon DEF RunPop
<1>3. QED
  BY <1>1, <1>2, StopSeen, MainSeen, Zenon

LEMMA DupeSeen ==
  ASSUME NEW Hs, NEW Ls, RunInv(Hs, Ls), RunDupe
  PROVE  Sees
<1>1. Fetch({W_OP_DUPE})
  BY DEF RunDupe
<1>2. (\E how : Stop(how)) \/ \E stack : OnMain(stack)
  BY Zenon DEF RunDupe
<1>3. QED
  BY <1>1, <1>2, StopSeen, MainSeen, Zenon

LEMMA JumpSeen ==
  ASSUME NEW Hs, NEW Ls, RunInv(Hs, Ls), RunJump
  PROVE  Sees
<1>1. PICK loops, frames : Running(Hs, Ls, loops, frames)
  BY FetchFacts DEF RunJump
<1>2. CASE \E how : Stop(how)
  BY <1>2, StopSeen, Zenon
<1>3. CASE UNCHANGED <<input, run_status, stacks, locals_base, current_function, for_loop_level>>
  BY <1>1, <1>3, AloneSeen DEF stacks
<1>4. QED
  BY <1>2, <1>3 DEF RunJump

LEMMA ConditionalJumpSeen ==
  ASSUME NEW Hs, NEW Ls, RunInv(Hs, Ls), RunConditionalJump
  PROVE  Sees
<1>1. Fetch({W_OP_JUMP_COND, W_OP_JUMP_NCOND})
  BY DEF RunConditionalJump
<1>2. PICK loops, frames : Running(Hs, Ls, loops, frames)
  BY <1>1, FetchFacts
<1>3. CASE \E how : Stop(how)
  BY <1>3, StopSeen, Zenon
<1>4. CASE \E stack : OnMain(stack)
  BY <1>1, <1>4, MainSeen, Zenon
<1>5. CASE UNCHANGED <<input, run_status, auxiliary_stack, loop_stack, call_stack, locals_base,
                       current_function, for_loop_level>>
  BY <1>2, <1>5, AloneSeen
<1>6. QED
  BY <1>3, <1>4, <1>5 DEF RunConditionalJump

LEMMA GetLoopVarSeen ==
  ASSUME NEW Hs, NEW Ls, RunInv(Hs, Ls), RunGetLoopVar
  PROVE  Sees
<1>1. Fetch({W_OP_GET_LOOP_VAR})
  BY DEF RunGetLoopVar
<1>2. (\E how : Stop(how)) \/ \E stack : OnMain(stack)
  BY Zenon DEF RunGetLoopVar
<1>3. QED
  BY <1>1, <1>2, StopSeen, MainSeen, Zenon

LEMMA LocalGetSeen ==
  ASSUME NEW Hs, NEW Ls, RunInv(Hs, Ls), RunLocalGet
  PROVE  Sees
<1>1. Fetch({W_OP_LOCAL_GET})
  BY DEF RunLocalGet
<1>2. (\E how : Stop(how)) \/ \E stack : OnMain(stack)
  BY Zenon DEF RunLocalGet
<1>3. QED
  BY <1>1, <1>2, StopSeen, MainSeen, Zenon

\* What OnLoops leaves of the side stacks.
LEMMA OnLoopsLeaves ==
  ASSUME NEW main, NEW stack, NEW level, NEW jumps, OnLoops(main, stack, level, jumps)
  PROVE  \/ \E how : Stop(how)
         \/ /\ UNCHANGED <<auxiliary_stack, call_stack, locals_base, current_function>>
            /\ loop_stack' = stack /\ for_loop_level' = level
BY DEF OnLoops

LEMMA ForStartSeen ==
  ASSUME NEW Hs, NEW Ls, RunInv(Hs, Ls), RunForStart, InterpreterAssumption
  PROVE  Sees
<1>1. PICK loops, frames : Running(Hs, Ls, loops, frames)
  BY FetchFacts DEF RunForStart
<1>2. /\ Opcode = At(Body(current_function), ip) /\ Opcode \in W_OP_FOR_STARTS
      /\ run_status = "running"
  BY <1>1, OpcodeIs DEF RunForStart
<1>3. Takes(current_function, ip) = 1
  BY <1>2, Effects
<1>4. main_stack # <<>> /\ Last(main_stack) \in Words
  BY <1>1, <1>3, NotEmpty
<1>5. PICK count \in Nat : count = Last(main_stack)
  BY <1>4 DEF Words
<1>6. PICK slots : slots = IF Opcode = W_OP_FOR_DEC_START THEN <<count>> ELSE <<count, 0>>
  OBVIOUS
<1>7. /\ count = 0 => OnLoops(Pop1(main_stack), loop_stack, for_loop_level, TRUE)
      /\ count > 0 /\ PushFails(loop_stack, Len(slots)) => Stop("overflow")
      /\ count > 0 /\ ~PushFails(loop_stack, Len(slots)) =>
           OnLoops(Pop1(main_stack), loop_stack \o slots, for_loop_level + Len(slots), FALSE)
  BY <1>4, <1>5, <1>6, ForStartCases, Zenon
<1>8. loop_stack \in Seq(Words) /\ Len(loop_stack) \in Nat
  BY <1>1, StackParts
<1>9. count \in Words /\ 0 \in Words
  BY <1>4, <1>5 DEF Words, InterpreterAssumption
<1>10. slots \in Seq(Words) /\ Len(slots) \in {1, 2}
  BY <1>6, <1>9
<1>11. CASE OnLoops(Pop1(main_stack), loop_stack, for_loop_level, TRUE)
  BY <1>1, <1>11, OnLoopsLeaves, StopSeen, AloneSeen
<1>12. CASE Stop("overflow")
  BY <1>12, StopSeen
<1>13. CASE OnLoops(Pop1(main_stack), loop_stack \o slots, for_loop_level + Len(slots), FALSE)
  <2>1. CASE \E how : Stop(how)
    BY <2>1, StopSeen, Zenon
  <2>2. CASE /\ UNCHANGED <<auxiliary_stack, call_stack, locals_base, current_function>>
             /\ loop_stack' = loop_stack \o slots /\ for_loop_level' = for_loop_level + Len(slots)
    <3>1. /\ loop_stack \o slots \in Seq(Words)
          /\ Len(loop_stack \o slots) = Len(loop_stack) + Len(slots)
          /\ \A i \in 1..(Len(loop_stack) + Len(slots)) :
               (loop_stack \o slots)[i] = IF i <= Len(loop_stack) THEN loop_stack[i]
                                          ELSE slots[i - Len(loop_stack)]
      BY <1>8, <1>10, ConcatProperties
    <3>2. \A i \in 1..Len(loop_stack) : loop_stack[i] = (loop_stack \o slots)[i]
      BY <1>8, <1>10, <3>1
    <3>3. Agree(loop_stack, loop_stack', Len(loop_stack))
      BY <2>2, <3>2 DEF Agree
    <3>4. QED
      BY <1>1, <1>10, <2>2, <3>1, <3>3, OpensSeen
  <2>3. QED
    BY <1>13, <2>1, <2>2, OnLoopsLeaves
<1>14. count = 0 \/ count > 0
  BY <1>5
<1>15. QED
  BY <1>7, <1>11, <1>12, <1>13, <1>14, Zenon

\* The innermost loop goes on, or ends.
LEMMA UpdateSeen ==
  ASSUME NEW Hs, NEW Ls, RunInv(Hs, Ls), InterpreterAssumption, run_status = "running",
         NEW loops, NEW frames, Running(Hs, Ls, loops, frames), Opcode \in W_OP_FOR_UPDATES,
         NEW slots \in {1, 2}, slots = IF Opcode = W_OP_FOR_DEC THEN 1 ELSE 2
  PROVE  /\ Len(loop_stack) > slots /\ Len(loop_stack) \in Nat
         /\ \A counter \in Words :
              OnLoops(main_stack, Append(Pop1(loop_stack), counter), for_loop_level, TRUE) => Sees
         /\ \A left \in Seq(Words) :
              CutTo(left, loop_stack, Len(loop_stack) - slots) =>
                (OnLoops(main_stack, left, for_loop_level - slots, FALSE) => Sees)
<1>1. for_loop_level >= slots /\ Len(loop_stack) > slots /\ Len(loop_stack) \in Nat
  BY UpdateKeeps
<1>2. loop_stack \in Seq(Words) /\ loop_stack # <<>> /\ for_loop_level \in Nat
  BY <1>1, StackParts
<1>3. /\ Pop1(loop_stack) \in Seq(Words) /\ Len(Pop1(loop_stack)) = Len(loop_stack) - 1
      /\ \A i \in 1..(Len(loop_stack) - 1) : Pop1(loop_stack)[i] = loop_stack[i]
  BY <1>2, TopFacts
<1>4. ASSUME NEW counter \in Words,
             OnLoops(main_stack, Append(Pop1(loop_stack), counter), for_loop_level, TRUE)
      PROVE  Sees
  <2> DEFINE stack == Append(Pop1(loop_stack), counter)
  <2>1. /\ stack \in Seq(Words) /\ Len(stack) = Len(Pop1(loop_stack)) + 1
        /\ \A i \in 1..Len(Pop1(loop_stack)) : stack[i] = Pop1(loop_stack)[i]
    BY <1>3, PushFacts
  <2> HIDE DEF stack
  <2>2. Len(stack) = Len(loop_stack) /\ Agree(loop_stack, stack, Len(loop_stack) - 1)
    BY <1>1, <1>3, <2>1 DEF Agree
  <2>3. CASE \E how : Stop(how)
    BY <2>3, StopSeen, Zenon
  <2>4. CASE /\ UNCHANGED <<auxiliary_stack, call_stack, locals_base, current_function>>
             /\ loop_stack' = stack /\ for_loop_level' = for_loop_level
    <3>1. for_loop_level > 0
      BY <1>1, <1>2
    <3>2. QED
      BY <2>1, <2>2, <2>4, <3>1, CountsSeen
  <2>5. QED
    BY <1>4, <2>3, <2>4, OnLoopsLeaves DEF stack
<1>5. ASSUME NEW left \in Seq(Words), CutTo(left, loop_stack, Len(loop_stack) - slots),
             OnLoops(main_stack, left, for_loop_level - slots, FALSE)
      PROVE  Sees
  <2>1. CASE \E how : Stop(how)
    BY <2>1, StopSeen, Zenon
  <2>2. CASE /\ UNCHANGED <<auxiliary_stack, call_stack, locals_base, current_function>>
             /\ loop_stack' = left /\ for_loop_level' = for_loop_level - slots
    BY <1>1, <1>5, <2>2, ClosesSeen
  <2>3. QED
    BY <1>5, <2>1, <2>2, OnLoopsLeaves
<1>6. QED
  BY <1>1, <1>4, <1>5

LEMMA ForDecSeen ==
  ASSUME NEW Hs, NEW Ls, RunInv(Hs, Ls), RunForDec, InterpreterAssumption
  PROVE  Sees
<1>1. PICK loops, frames : Running(Hs, Ls, loops, frames)
  BY FetchFacts DEF RunForDec
<1> DEFINE counter == (Last(loop_stack) - 1) % WordBase
<1>2. Opcode = W_OP_FOR_DEC /\ run_status = "running"
  BY <1>1, OpcodeIs DEF RunForDec
<1>3. Opcode \in W_OP_FOR_UPDATES
  BY <1>2 DEF W_OP_FOR_UPDATES
<1>4. /\ Len(loop_stack) > 1 /\ Len(loop_stack) \in Nat
      /\ \A value \in Words :
           OnLoops(main_stack, Append(Pop1(loop_stack), value), for_loop_level, TRUE) => Sees
      /\ \A left \in Seq(Words) :
           CutTo(left, loop_stack, Len(loop_stack) - 1) =>
             (OnLoops(main_stack, left, for_loop_level - 1, FALSE) => Sees)
  BY <1>1, <1>2, <1>3, UpdateSeen
<1>5. loop_stack \in Seq(Words) /\ loop_stack # <<>>
  BY <1>4 DEF RunInv, StacksOK
<1>6. /\ Last(loop_stack) \in Words /\ Pop1(loop_stack) \in Seq(Words)
      /\ CutTo(Pop1(loop_stack), loop_stack, Len(loop_stack) - 1)
  BY <1>5, TopFacts DEF CutTo, Agree
<1>7. Last(loop_stack) - 1 \in Int
  BY <1>6 DEF Words
<1>8. counter \in Words
  BY <1>7, WordModulo
<1>9. CASE counter > 0
  <2>1. OnLoops(main_stack, Append(Pop1(loop_stack), counter), for_loop_level, TRUE)
    BY <1>5, <1>9 DEF RunForDec
  <2>2. QED
    BY <1>4, <1>8, <2>1
<1>10. CASE ~(counter > 0)
  <2>1. OnLoops(main_stack, Pop1(loop_stack), for_loop_level - 1, FALSE)
    BY <1>5, <1>10 DEF RunForDec
  <2>2. QED
    BY <1>4, <1>6, <2>1
<1>11. QED
  BY <1>9, <1>10

LEMMA ForIncSeen ==
  ASSUME NEW Hs, NEW Ls, RunInv(Hs, Ls), RunForInc, InterpreterAssumption
  PROVE  Sees
<1>1. PICK loops, frames : Running(Hs, Ls, loops, frames)
  BY FetchFacts DEF RunForInc
<1> DEFINE counter == (Last(loop_stack) + 1) % WordBase
           target == loop_stack[Len(loop_stack) - 1]
<1>2. Opcode = W_OP_FOR_INC /\ run_status = "running"
  BY <1>1, OpcodeIs DEF RunForInc
<1>3. Opcode \in W_OP_FOR_UPDATES /\ Opcode # W_OP_FOR_DEC
  BY <1>2 DEF W_OP_FOR_UPDATES, W_OP_FOR_DEC, W_OP_FOR_INC
<1>4. /\ Len(loop_stack) > 2 /\ Len(loop_stack) \in Nat
      /\ \A value \in Words :
           OnLoops(main_stack, Append(Pop1(loop_stack), value), for_loop_level, TRUE) => Sees
      /\ \A left \in Seq(Words) :
           CutTo(left, loop_stack, Len(loop_stack) - 2) =>
             (OnLoops(main_stack, left, for_loop_level - 2, FALSE) => Sees)
  BY <1>1, <1>2, <1>3, UpdateSeen
<1>5. loop_stack \in Seq(Words) /\ loop_stack # <<>>
  BY <1>4 DEF RunInv, StacksOK
<1>6. /\ Last(loop_stack) \in Words /\ Pop1(loop_stack) \in Seq(Words)
      /\ Len(Pop1(loop_stack)) = Len(loop_stack) - 1
      /\ \A i \in 1..(Len(loop_stack) - 1) : Pop1(loop_stack)[i] = loop_stack[i]
  BY <1>5, TopFacts
<1>7. Last(loop_stack) + 1 \in Int
  BY <1>6 DEF Words
<1>8. counter \in Words
  BY <1>7, WordModulo
<1> HIDE DEF counter
<1>20. ~(Len(loop_stack) < 2) /\ Len(loop_stack) >= 2
  BY <1>4
<1>9. CASE counter < target
  <2>1. OnLoops(main_stack, Append(Pop1(loop_stack), counter), for_loop_level, TRUE)
    BY <1>20, <1>9, Zenon DEF RunForInc, counter
  <2>2. QED
    BY <1>4, <1>8, <2>1
<1>10. CASE ~(counter < target)
  <2>1. OnLoops(main_stack, Pop1(Pop1(loop_stack)), for_loop_level - 2, FALSE)
    BY <1>20, <1>10, Zenon DEF RunForInc, counter
  <2>2. Pop1(loop_stack) # <<>>
    BY <1>4, <1>6, EmptySeq
  <2>3. /\ Pop1(Pop1(loop_stack)) \in Seq(Words)
        /\ Len(Pop1(Pop1(loop_stack))) = Len(loop_stack) - 1 - 1
        /\ \A i \in 1..(Len(loop_stack) - 1 - 1) :
             Pop1(Pop1(loop_stack))[i] = Pop1(loop_stack)[i]
    BY <1>6, <2>2, TopFacts
  <2>4. Len(loop_stack) - 1 - 1 = Len(loop_stack) - 2
        /\ \A i \in 1..(Len(loop_stack) - 2) : i \in 1..(Len(loop_stack) - 1)
    BY <1>4
  <2>5. CutTo(Pop1(Pop1(loop_stack)), loop_stack, Len(loop_stack) - 2)
    BY <1>6, <2>3, <2>4 DEF CutTo, Agree
  <2>6. QED
    BY <1>4, <2>1, <2>3, <2>5
<1>11. QED
  BY <1>9, <1>10

LEMMA LocalSetSeen ==
  ASSUME NEW Hs, NEW Ls, RunInv(Hs, Ls), RunLocalSet, InterpreterAssumption
  PROVE  Sees
<1>1. PICK loops, frames : Running(Hs, Ls, loops, frames)
  BY FetchFacts DEF RunLocalSet
<1> DEFINE f == current_function
           index == read_u16(Code, ip + 1)
           j == locals_base + index + 1
<1>2. /\ Opcode = W_OP_LOCAL_SET /\ run_status = "running" /\ Opcode = At(Body(f), ip)
  BY <1>1, OpcodeIs DEF RunLocalSet
<1>3. Takes(f, ip) = 1
  BY <1>2, Effects
<1>4. /\ index \in Nat /\ LocalSize(index) = 1 /\ locals_base \in Nat
      /\ locals_base + index + 1 \in 1..Len(auxiliary_stack)
  BY <1>1, <1>2, LocalFacts
<1>5. /\ main_stack # <<>> /\ Len(main_stack) \in Nat \ {0} /\ Last(main_stack) \in Words
  BY <1>1, <1>3, NotEmpty
<1>6. ~(Len(main_stack) < LocalSize(index)) /\ LocalSize(index) # 0
  BY <1>4, <1>5
<1>7. /\ auxiliary_stack' = [auxiliary_stack EXCEPT ![locals_base + index + 1] = Last(main_stack)]
      /\ UNCHANGED <<input, run_status, loop_stack, call_stack, locals_base, current_function,
                     for_loop_level>>
  BY <1>6, Zenon DEF RunLocalSet
<1>8. auxiliary_stack \in Seq(Words) /\ Len(auxiliary_stack) \in Nat
  BY <1>1, StackParts
<1>9. /\ auxiliary_stack' \in Seq(Words)
      /\ Len(auxiliary_stack') = Len(auxiliary_stack)
      /\ \A i \in 1..Len(auxiliary_stack) :
           auxiliary_stack'[i] = IF i = j THEN Last(main_stack) ELSE auxiliary_stack[i]
  BY <1>4, <1>5, <1>7, <1>8, ExceptSeq
<1>10. j \in (locals_base + 1)..Len(auxiliary_stack)
  BY <1>4, <1>8
<1> HIDE DEF j, index
<1>11. ChangedAt(auxiliary_stack', auxiliary_stack, j)
  BY <1>9 DEF ChangedAt
<1>12. UNCHANGED <<loop_stack, call_stack, locals_base, current_function, for_loop_level>>
  BY <1>7
<1>13. QED
  BY <1>1, <1>9, <1>10, <1>11, <1>12, AssignsSeen

-----------------------------------------------------------------------------
(* Calls and returns, as Activations has them.                             *)

\* The bases with one more are those of the stacks after call.
LEMMA EntersSeen ==
  ASSUME StacksOK, NEW f, NEW next, Entered(f, next), LocalsSize(f) \in Nat,
         NEW loops, NEW frames,
         Stacked(Depth, loop_stack, auxiliary_stack, loops, frames),
         Based(Depth, loop_stack, for_loop_level, auxiliary_stack, locals_base, loops, frames)
  PROVE  /\ Promised!Enter /\ Len(Seen) = Depth
         /\ Last(Seen').back = [func |-> current_function, ip |-> next + 1]
<1> DEFINE depth == Depth
           loops2 == [n \in 1..(depth + 1) |-> IF n = depth + 1 THEN Len(loop_stack) + 1
                                               ELSE loops[n]]
           frames2 == [n \in 1..(depth + 1) |-> IF n = depth + 1 THEN Len(auxiliary_stack) + 1
                                                ELSE frames[n]]
<1>1. /\ depth \in Nat /\ depth = Len(call_stack)
      /\ loop_stack \in Seq(Words) /\ auxiliary_stack \in Seq(Words)
      /\ Len(loop_stack) \in Nat /\ Len(auxiliary_stack) \in Nat
      /\ loops \in [1..depth -> Nat \ {0}] /\ frames \in [1..depth -> Nat \ {0}]
      /\ \A n \in 1..depth : loops[n] <= Len(loop_stack) /\ frames[n] <= Len(auxiliary_stack)
  BY LenProperties DEF Stacked, Depth
<1>2. /\ call_stack' = Append(call_stack, [func |-> current_function, ip |-> next,
                                           height |-> Len(main_stack)])
      /\ loop_stack' = Append(loop_stack, for_loop_level)
      /\ for_loop_level' = 0 /\ current_function' = f /\ ip' = 0
      /\ locals_base' = Len(auxiliary_stack) + 1
      /\ Len(auxiliary_stack') = Len(auxiliary_stack) + 1 + LocalsSize(f)
      /\ auxiliary_stack'[Len(auxiliary_stack) + 1] = locals_base
      /\ loop_stack' \in Seq(Words) /\ auxiliary_stack' \in Seq(Words)
  BY DEF Entered, StacksOK
<1>3. /\ \A i \in 1..Len(call_stack) : call_stack'[i] = call_stack[i]
      /\ call_stack'[Len(call_stack) + 1]
           = [func |-> current_function, ip |-> next, height |-> Len(main_stack)]
      /\ Len(call_stack') = Len(call_stack) + 1
      /\ \A i \in 1..Len(loop_stack) : loop_stack'[i] = loop_stack[i]
      /\ loop_stack'[Len(loop_stack) + 1] = for_loop_level
      /\ \A i \in 1..Len(auxiliary_stack) : auxiliary_stack'[i] = auxiliary_stack[i]
  BY EnteredStacks
<1>4. Len(loop_stack') = Len(loop_stack) + 1
  <2>1. Len(Append(loop_stack, for_loop_level)) = Len(loop_stack) + 1
    BY <1>1
  <2>2. QED
    BY <1>2, <2>1
<1>5. /\ loops2 \in [1..(depth + 1) -> Nat \ {0}]
      /\ loops2[depth + 1] = Len(loop_stack) + 1 /\ \A n \in 1..depth : loops2[n] = loops[n]
  <2>1. Len(loop_stack) + 1 \in Nat \ {0}
    BY <1>1
  <2>2. QED
    BY <1>1, <2>1, OneMore
<1>6. /\ frames2 \in [1..(depth + 1) -> Nat \ {0}]
      /\ frames2[depth + 1] = Len(auxiliary_stack) + 1
      /\ \A n \in 1..depth : frames2[n] = frames[n]
  <2>1. Len(auxiliary_stack) + 1 \in Nat \ {0}
    BY <1>1
  <2>2. QED
    BY <1>1, <2>1, OneMore
<1> HIDE DEF depth, loops2, frames2
<1>7. ASSUME NEW n \in 1..depth
      PROVE  /\ loops2[n] = loops2[n + 1] - 1 - loop_stack'[loops2[n + 1]]
             /\ frames2[n] = auxiliary_stack'[frames2[n + 1]]
  <2>1. CASE n = depth
    <3>1. depth > 0
      BY <1>1
    <3>2. loops[depth] = Len(loop_stack) - for_loop_level /\ frames[depth] = locals_base
      BY <3>1 DEF Based, depth
    <3>3. /\ loops2[n] = Len(loop_stack) - for_loop_level /\ loops2[n + 1] = Len(loop_stack) + 1
          /\ loop_stack'[loops2[n + 1]] = for_loop_level
      BY <1>3, <1>5, <2>1, <3>2
    <3>4. loops2[n] = loops2[n + 1] - 1 - loop_stack'[loops2[n + 1]]
      BY <1>1, <3>3
    <3>5. frames2[n] = auxiliary_stack'[frames2[n + 1]]
      BY <1>2, <1>6, <2>1, <3>2
    <3>6. QED
      BY <3>4, <3>5
  <2>2. CASE n # depth
    <3>1. n \in 1..(depth - 1) /\ n + 1 \in 1..depth
      BY <1>1, <2>2
    <3>2. /\ loops[n] = loops[n + 1] - 1 - loop_stack[loops[n + 1]]
          /\ frames[n] = auxiliary_stack[frames[n + 1]]
      BY <3>1 DEF Based, depth
    <3>3. loops[n + 1] \in 1..Len(loop_stack) /\ frames[n + 1] \in 1..Len(auxiliary_stack)
      BY <1>1, <3>1
    <3>4. /\ loop_stack'[loops[n + 1]] = loop_stack[loops[n + 1]]
          /\ auxiliary_stack'[frames[n + 1]] = auxiliary_stack[frames[n + 1]]
      BY <1>3, <3>3
    <3>5. /\ loops2[n] = loops[n] /\ loops2[n + 1] = loops[n + 1]
          /\ frames2[n] = frames[n] /\ frames2[n + 1] = frames[n + 1]
      BY <1>5, <1>6, <3>1
    <3>6. QED
      BY <3>2, <3>4, <3>5, Zenon
  <2>3. QED
    BY <2>1, <2>2
<1>8. Based(depth + 1, loop_stack', for_loop_level', auxiliary_stack', locals_base',
            loops2, frames2)
  <2>1. depth + 1 \in Nat /\ (depth + 1) - 1 = depth
    BY <1>1
  <2>2. loops2[depth + 1] = Len(loop_stack') - for_loop_level'
    BY <1>1, <1>2, <1>4, <1>5
  <2>3. frames2[depth + 1] = locals_base'
    BY <1>2, <1>6
  <2>4. QED
    BY <1>5, <1>6, <1>7, <2>1, <2>2, <2>3 DEF Based
<1>9. Seen = Pieces(loops, frames, call_stack, loop_stack, auxiliary_stack, current_function)
  BY SeenIs DEF Depth
<1>10. Seen' = Pieces(loops2, frames2, call_stack', loop_stack', auxiliary_stack', f)
  <2>1. Len(call_stack') = depth + 1
    BY <1>1, <1>3
  <2>2. Based(Len(call_stack'), loop_stack', for_loop_level', auxiliary_stack', locals_base',
              loops2, frames2)
    BY <1>8, <2>1, Zenon
  <2>3. QED
    BY <1>2, <2>2, SeenNext
<1>11. /\ Len(call_stack') = depth + 1 /\ Agree(call_stack', call_stack, depth)
       /\ call_stack'[depth + 1].func = current_function /\ call_stack'[depth + 1].ip = next
  BY <1>1, <1>3 DEF Agree
<1>12. /\ Agree(loop_stack, loop_stack', Len(loop_stack))
       /\ Agree(auxiliary_stack, auxiliary_stack', Len(auxiliary_stack))
       /\ Agree(loops2, loops, depth) /\ Agree(frames2, frames, depth)
  BY <1>3, <1>5, <1>6 DEF Agree
<1>13. Len(auxiliary_stack') > Len(auxiliary_stack)
  BY <1>1, <1>2
<1>14. Stacked(depth, loop_stack, auxiliary_stack, loops, frames)
  BY DEF depth
<1>15. PiecesMore(Seen, Seen', depth, f,
                  [func |-> call_stack'[depth + 1].func, ip |-> call_stack'[depth + 1].ip + 1])
  BY <1>1, <1>2, <1>4, <1>5, <1>6, <1>9, <1>10, <1>11, <1>12, <1>13, <1>14, PiecesEnter, Zenon
<1>16. /\ Len(Seen) = depth /\ Len(Seen') = Len(Seen) + 1 /\ SubSeq(Seen', 1, Len(Seen)) = Seen
       /\ Last(Seen').loops = <<>> /\ Last(Seen').func = f
       /\ Last(Seen').back = [func |-> call_stack'[depth + 1].func,
                              ip |-> call_stack'[depth + 1].ip + 1]
  BY <1>15, Zenon DEF PiecesMore
<1>17. Here'.func = f /\ Here'.ip = 0
  BY <1>2 DEF Here
<1>18. Promised!Enter
  BY <1>16, <1>17, EnterSeen
<1>19. QED
  BY <1>11, <1>16, <1>18 DEF depth

LEMMA StartSeen ==
  ASSUME NEW Hs, NEW Ls, RunInv(Hs, Ls), RunStart, InterpreterAssumption
  PROVE  Sees
<1>1. Idle /\ Typing(Hs, Ls) /\ StacksOK /\ run_status = "idle"
  BY DEF RunInv, RunStart
<1> DEFINE next == Len(w_code[1])
<1>2. /\ w_code # <<>> /\ 0 \in Functions /\ next \in Nat
  <2>1. w_code \in Seq(Seq(Nat)) /\ w_code # <<>>
    BY <1>1 DEF Typing
  <2>2. Len(w_code) \in Nat \ {0}
    BY <2>1, EmptySeq
  <2>3. w_code[1] \in Seq(Nat)
    BY <2>1, <2>2, ElementOfSeq
  <2>4. QED
    BY <2>1, <2>2, <2>3, LenProperties DEF Functions
<1>3. LocalsSize(0) \in Nat
  <2>1. Len(locals[0 + 1]) \in Nat
    BY <1>1, <1>2 DEF Typing
  <2>2. QED
    BY <2>1 DEF LocalsSize
<1>4. /\ auxiliary_stack = <<>> /\ loop_stack = <<>> /\ call_stack = <<>>
      /\ locals_base = 0 /\ current_function = 0 /\ for_loop_level = 0
      /\ Len(auxiliary_stack) = 0 /\ Len(loop_stack) = 0 /\ Depth = 0
  BY <1>1 DEF Idle, Depth
<1>5. CASE Entered(0, next)
  <2> DEFINE none == [n \in 1..0 |-> 1]
  <2>1. none \in [1..Depth -> Nat \ {0}]
    BY <1>4
  <2> HIDE DEF none
  <2>2. \A n : n \notin 1..Depth
    BY <1>4
  <2>3. loop_stack \in Seq(Words) /\ auxiliary_stack \in Seq(Words)
    BY <1>1 DEF StacksOK
  <2>4. Stacked(Depth, loop_stack, auxiliary_stack, none, none)
    BY <1>4, <2>1, <2>2, <2>3 DEF Stacked
  <2>5. Based(Depth, loop_stack, for_loop_level, auxiliary_stack, locals_base, none, none)
    BY <1>4, <2>1 DEF Based
  <2>6. Promised!Enter /\ Len(Seen) = Depth
    BY <1>1, <1>3, <1>5, <2>4, <2>5, EntersSeen
  <2>7. Seen = <<>>
    BY <1>4 DEF Seen
  <2>8. QED
    BY <2>6, <2>7, BeginSeen DEF Sees
<1>6. Entered(0, next) \/ Stop("overflow") \/ Stop("out_of_bounds")
  <2>1. Call(0, next)
    BY DEF RunStart
  <2>2. /\ current_function \in Nat /\ for_loop_level \in 0..Len(loop_stack)
        /\ locals_base \in 0..Len(auxiliary_stack)
    BY <1>4
  <2>3. QED
    BY <1>1, <1>2, <1>3, <2>1, <2>2, CallEnters
<1>7. QED
  BY <1>5, <1>6, StopSeen

LEMMA CallStepSeen ==
  ASSUME NEW Hs, NEW Ls, RunInv(Hs, Ls), RunCall, InterpreterAssumption
  PROVE  Sees
<1>1. PICK loops, frames : Running(Hs, Ls, loops, frames)
  BY FetchFacts DEF RunCall
<1> DEFINE f == At(Code, ip + 1)
<1>2. /\ LocalsSize(f) \in Nat /\ for_loop_level \in 0..Len(loop_stack)
      /\ locals_base \in 0..Len(auxiliary_stack)
  BY <1>1, CallFacts
<1>3. StacksOK /\ current_function \in Nat /\ ip + 1 \in Nat /\ ip \in Nat
  BY <1>1 DEF RunInv, Running, Functions
<1>4. Call(f, ip + 1)
  BY DEF RunCall
<1> HIDE DEF f
<1>5. Entered(f, ip + 1) \/ Stop("overflow") \/ Stop("out_of_bounds")
  BY <1>2, <1>3, <1>4, CallEnters
<1>6. CASE Entered(f, ip + 1)
  <2>1. /\ Stacked(Depth, loop_stack, auxiliary_stack, loops, frames)
        /\ Based(Depth, loop_stack, for_loop_level, auxiliary_stack, locals_base, loops, frames)
    BY <1>1, ActivationsAre
  <2>2. /\ Promised!Enter /\ Len(Seen) = Depth
        /\ Last(Seen').back = [func |-> current_function, ip |-> ip + 1 + 1]
    BY <1>2, <1>3, <1>6, <2>1, EntersSeen
  <2>3. Depth > 0
    BY <1>1 DEF Running
  <2>4. Seen # <<>>
    BY <2>2, <2>3
  <2>5. ip + 1 + 1 = ip + 2 /\ Here.func = current_function /\ Here.ip = ip
    BY <1>3 DEF Here
  <2>6. Last(Seen').back = [func |-> Here.func, ip |-> Here.ip + 2]
    BY <2>2, <2>5
  <2>7. QED
    BY <2>2, <2>4, <2>6, CallSeen DEF Sees
<1>7. QED
  BY <1>5, <1>6, StopSeen

LEMMA RetSeen ==
  ASSUME NEW Hs, NEW Ls, RunInv(Hs, Ls), RunRet, InterpreterAssumption
  PROVE  Sees
<1>1. PICK loops, frames : Running(Hs, Ls, loops, frames)
  BY FetchFacts DEF RunRet
<1> DEFINE depth == Depth
           caller == call_stack[depth]
           loops2 == [n \in 1..(depth - 1) |-> loops[n]]
           frames2 == [n \in 1..(depth - 1) |-> frames[n]]
<1>2. Returned(caller, loops, frames)
  BY <1>1, RetReturns
<1>3. /\ for_loop_level' = loop_stack[loops[depth]]
      /\ locals_base' = auxiliary_stack[frames[depth]]
      /\ current_function' = caller.func /\ ip' = caller.ip + 1
  BY <1>2 DEF Returned
<1>4. /\ Len(call_stack') = depth - 1
      /\ \A i \in 1..(depth - 1) : call_stack'[i] = call_stack[i]
      /\ Len(loop_stack') = loops[depth] - 1
      /\ \A i \in 1..(loops[depth] - 1) : loop_stack'[i] = loop_stack[i]
      /\ Len(auxiliary_stack') = frames[depth] - 1
      /\ \A i \in 1..(frames[depth] - 1) : auxiliary_stack'[i] = auxiliary_stack[i]
      /\ StacksOK'
  BY <1>1, <1>2, ReturnedStacks DEF RunInv, InterpreterAssumption
<1>5. /\ Stacked(depth, loop_stack, auxiliary_stack, loops, frames)
      /\ Based(depth, loop_stack, for_loop_level, auxiliary_stack, locals_base, loops, frames)
  BY <1>1, ActivationsAre
<1>6. depth \in Nat /\ depth > 0 /\ depth = Len(call_stack)
  BY <1>1 DEF Running, Depth
<1>7. \A n \in 1..depth : /\ loops[n] \in Nat \ {0} /\ frames[n] \in Nat \ {0}
                          /\ n < depth => loops[n] < loops[depth] /\ frames[n] < frames[depth]
  BY <1>1, BasesBelow
<1>8. /\ \A n \in 1..(depth - 1) : n \in 1..depth /\ loops2[n] = loops[n] /\ frames2[n] = frames[n]
      /\ loops2 \in [1..(depth - 1) -> Nat \ {0}] /\ frames2 \in [1..(depth - 1) -> Nat \ {0}]
  <2>1. \A n \in 1..(depth - 1) : n \in 1..depth
    BY <1>6
  <2>2. QED
    BY <1>7, <2>1
<1> HIDE DEF depth, loops2, frames2, caller
<1>9. \A n \in 1..(depth - 1) : /\ loops[n] = loops[n + 1] - 1 - loop_stack[loops[n + 1]]
                                /\ frames[n] = auxiliary_stack[frames[n + 1]]
  BY <1>5, Zenon DEF Based
<1>10. ASSUME NEW n \in 1..((depth - 1) - 1)
       PROVE  /\ loops2[n] = loops2[n + 1] - 1 - loop_stack'[loops2[n + 1]]
              /\ frames2[n] = auxiliary_stack'[frames2[n + 1]]
  <2>1. n \in 1..(depth - 1) /\ n + 1 \in 1..(depth - 1) /\ n + 1 \in 1..depth /\ n + 1 < depth
        /\ depth \in 1..depth
    BY <1>6
  <2>2. /\ loops[n + 1] \in Nat \ {0} /\ frames[n + 1] \in Nat \ {0}
        /\ loops[depth] \in Nat \ {0} /\ frames[depth] \in Nat \ {0}
        /\ loops[n + 1] < loops[depth] /\ frames[n + 1] < frames[depth]
    BY <1>7, <2>1
  <2>3. loops[n + 1] \in 1..(loops[depth] - 1) /\ frames[n + 1] \in 1..(frames[depth] - 1)
    BY <2>2
  <2>4. /\ loop_stack'[loops[n + 1]] = loop_stack[loops[n + 1]]
        /\ auxiliary_stack'[frames[n + 1]] = auxiliary_stack[frames[n + 1]]
    BY <1>4, <2>3
  <2>5. /\ loops2[n] = loops[n] /\ loops2[n + 1] = loops[n + 1]
        /\ frames2[n] = frames[n] /\ frames2[n + 1] = frames[n + 1]
    BY <1>8, <2>1
  <2>6. /\ loops[n] = loops[n + 1] - 1 - loop_stack[loops[n + 1]]
        /\ frames[n] = auxiliary_stack[frames[n + 1]]
    BY <1>9, <2>1
  <2>7. QED
    BY <2>4, <2>5, <2>6, Zenon
<1>11. Based(depth - 1, loop_stack', for_loop_level', auxiliary_stack', locals_base',
             loops2, frames2)
  <2>1. depth - 1 \in Nat
    BY <1>6
  <2>2. ASSUME depth - 1 > 0
        PROVE  /\ loops2[depth - 1] = Len(loop_stack') - for_loop_level'
               /\ frames2[depth - 1] = locals_base'
    <3>1. depth - 1 \in 1..(depth - 1) /\ depth - 1 + 1 = depth
      BY <1>6, <2>2
    <3>2. /\ loops2[depth - 1] = loops[depth - 1] /\ frames2[depth - 1] = frames[depth - 1]
      BY <1>8, <3>1
    <3>3. /\ loops[depth - 1] = loops[depth] - 1 - loop_stack[loops[depth]]
          /\ frames[depth - 1] = auxiliary_stack[frames[depth]]
      BY <1>9, <3>1
    <3>4. QED
      BY <1>3, <1>4, <3>2, <3>3
  <2>3. QED
    BY <1>8, <1>10, <2>1, <2>2 DEF Based
<1>12. Seen = Pieces(loops, frames, call_stack, loop_stack, auxiliary_stack, current_function)
  BY <1>5, <1>6, SeenIs
<1>13. Seen' = Pieces(loops2, frames2, call_stack', loop_stack', auxiliary_stack', caller.func)
  <2>1. Based(Len(call_stack'), loop_stack', for_loop_level', auxiliary_stack', locals_base',
              loops2, frames2)
    BY <1>4, <1>11, Zenon
  <2>2. QED
    BY <1>3, <2>1, SeenNext
<1>14. /\ CutTo(call_stack', call_stack, depth - 1)
       /\ CutTo(loop_stack', loop_stack, loops[depth] - 1)
       /\ CutTo(auxiliary_stack', auxiliary_stack, frames[depth] - 1)
       /\ Agree(loops2, loops, depth - 1) /\ Agree(frames2, frames, depth - 1)
       /\ loop_stack' \in Seq(Words) /\ auxiliary_stack' \in Seq(Words)
  BY <1>4, <1>8 DEF CutTo, Agree, StacksOK
<1>15. caller.func = call_stack[depth].func
  BY DEF caller
<1>16. PiecesLess(Seen, Seen', [func |-> call_stack[depth].func, ip |-> call_stack[depth].ip + 1])
  BY <1>5, <1>6, <1>12, <1>13, <1>14, <1>15, PiecesReturn, Zenon
<1>17. Here' = [func |-> call_stack[depth].func, ip |-> call_stack[depth].ip + 1]
  BY <1>3 DEF Here, caller
<1>18. Seen # <<>> /\ Seen' = SubSeq(Seen, 1, Len(Seen) - 1) /\ Here' = Last(Seen).back
  BY <1>16, <1>17, Zenon DEF PiecesLess
<1>19. QED
  BY <1>18, ReturnSeen DEF Sees

-----------------------------------------------------------------------------
(* The refinement.                                                         *)

\* A step of the interpreter is a step of Activations, or one it does not see.
LEMMA StepSeen ==
  ASSUME NEW Hs, NEW Ls, RunInv(Hs, Ls), [RunStep]_vars, InterpreterAssumption
  PROVE  [Promised!Next]_(Promised!vars)
<1>1. CASE UNCHANGED vars
  <2>1. UNCHANGED <<stacks, registers>>
    BY <1>1 DEF vars
  <2>2. QED
    BY <2>1, SeenStays
<1>2. CASE RunStep
  <2>1. Sees
    BY <1>2, StartSeen, PushSeen, PopSeen, DupeSeen, JumpSeen, ConditionalJumpSeen, ForStartSeen,
       ForDecSeen, ForIncSeen, GetLoopVarSeen, LocalGetSeen, LocalSetSeen, CallStepSeen, RetSeen,
       StopSeen DEF RunStep, RunEnd, RunExit
  <2>2. QED
    BY <2>1 DEF Sees
<1>3. QED
  BY <1>1, <1>2

LEMMA InitSeen ==
  ASSUME RunInit
  PROVE  Promised!Init
BY DEF RunInit, Promised!Init

\* The three side stacks implement a stack of activations: a step of a typed program
\* changes the loop counters and the local variables of the youngest only, a call saves
\* where it goes on, and a return gives the caller everything back as it was.
THEOREM ActivationsApartIfTyped ==
  ASSUME InterpreterAssumption
  PROVE  TypedSpec => KeepsActivationsApart
<1>1. TypedInv /\ [RunStep]_vars => [Promised!Next]_(Promised!vars)
  BY StepSeen DEF TypedInv
<1>2. RunInit => Promised!Init
  BY InitSeen
<1>3. TypedSpec => []TypedInv
  BY TypedInvariant
<1>4. QED
  BY <1>1, <1>2, <1>3, PTL DEF TypedSpec, KeepsActivationsApart, Promised!Spec

=============================================================================
