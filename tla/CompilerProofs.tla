--------------------------- MODULE CompilerProofs ----------------------------
(***************************************************************************)
(* Proofs about the compiler, for every bound on the program, every set of *)
(* names, literals and signatures and every byte size: the type invariant, *)
(* and that for_loop_level and the current function always are what the    *)
(* open constructs say.                                                    *)
(*                                                                         *)
(* The three invariants are proved together, as IInv.  TypeOK alone is not *)
(* inductive: ForEnd lowers for_loop_level, which stays a natural number   *)
(* only because the level is at least the slots of the innermost loop      *)
(* (LevelsNest), and FunctionEnd goes back to the function its frame names,*)
(* which is in the table only because every frame's is (FunctionsNest).    *)
(***************************************************************************)
EXTENDS Compiler, SequenceTheorems, TLAPS

IInv == TypeOK /\ LevelsNest /\ FunctionsNest

-----------------------------------------------------------------------------
(* Operands and blocks.                                                    *)

\* write_u16 writes two bytes whatever the value: a negative one is truncated.
LEMMA U16Type ==
  ASSUME NEW v \in Int
  PROVE  /\ U16(v) \in Seq(Nat)
         /\ U16(v)[1] \in Nat
         /\ U16(v)[2] \in Nat
<1>1. v % ByteBase \in Nat
  BY ByteBaseAssumption
<1>2. (v \div ByteBase) % ByteBase \in Nat
  BY ByteBaseAssumption
<1>3. QED
  BY <1>1, <1>2 DEF U16

\* An assignment to an element of a sequence, by a name the lemmas need not open.
Replaced(seq, i, e) == [seq EXCEPT ![i] = e]

\* Assigning to an element leaves a sequence a sequence, and does nothing to it
\* when there is no such element.
LEMMA ReplacedType ==
  ASSUME NEW S, NEW seq \in Seq(S), NEW i \in Int, NEW e \in S
  PROVE  /\ Replaced(seq, i, e) \in Seq(S)
         /\ Len(Replaced(seq, i, e)) = Len(seq)
<1>1. CASE i \in 1..Len(seq)
  BY <1>1, ExceptSeq DEF Replaced
<1>2. CASE i \notin 1..Len(seq)
  <2>1. DOMAIN seq = 1..Len(seq) /\ seq = [j \in DOMAIN seq |-> seq[j]]
    BY LenProperties
  <2>2. Replaced(seq, i, e) = [j \in DOMAIN seq |-> IF j = i THEN e ELSE seq[j]]
    BY Zenon DEF Replaced
  <2>3. \A j \in DOMAIN seq : (IF j = i THEN e ELSE seq[j]) = seq[j]
    BY <1>2, <2>1, Zenon
  <2>4. Replaced(seq, i, e) = seq
    BY <2>1, <2>2, <2>3, Zenon
  <2>5. QED
    BY <2>4
<1>3. QED
  BY <1>1, <1>2

\* overwrite_s16 leaves a block of bytes a block of bytes, wherever it writes.
LEMMA OverwriteType ==
  ASSUME NEW block \in Seq(Nat), NEW i \in Int, NEW v \in Int
  PROVE  overwrite_s16(block, i, v) \in Seq(Nat)
<1>1. PICK low \in Nat, high \in Nat : low = U16(v)[1] /\ high = U16(v)[2]
  BY U16Type
<1>2. i + 1 \in Int /\ i + 2 \in Int
  OBVIOUS
<1>3. Replaced(block, i + 1, low) \in Seq(Nat)
  BY <1>2, ReplacedType
<1>4. Replaced(Replaced(block, i + 1, low), i + 2, high) \in Seq(Nat)
  BY <1>2, <1>3, ReplacedType
<1>5. overwrite_s16(block, i, v) = Replaced(Replaced(block, i + 1, low), i + 2, high)
  BY <1>1, Zenon DEF overwrite_s16, Replaced
<1>6. QED
  BY <1>4, <1>5

LEMMA PatchedType ==
  ASSUME NEW block \in Seq(Nat), NEW at \in Int, NEW jump \in Int
  PROVE  Patched(block, at, jump) \in Seq(Nat)
BY OverwriteType DEF Patched

LEMMA SetBlockType ==
  ASSUME TypeOK, NEW block \in Seq(Nat), SetBlock(block)
  PROVE  /\ t_code' \in Seq(Seq(Nat))
         /\ Len(t_code') = Len(t_code)
<1>1. t_code' = Replaced(t_code, func_index + 1, block)
  BY Zenon DEF SetBlock, Replaced
<1>2. t_code \in Seq(Seq(Nat)) /\ func_index + 1 \in Int
  BY DEF TypeOK
<1>3. QED
  BY <1>1, <1>2, ReplacedType

\* emit_* extends one block and leaves the table of functions as long as it was.
LEMMA EmitType ==
  ASSUME TypeOK, NEW bytes \in Seq(Nat), Emit(bytes)
  PROVE  /\ t_code' \in Seq(Seq(Nat))
         /\ Len(t_code') = Len(t_code)
<1>1. Block \o bytes \in Seq(Nat)
  BY ConcatProperties, ElementOfSeq DEF TypeOK, Block
<1>2. SetBlock(Block \o bytes)
  BY Zenon DEF Emit, SetBlock, Block
<1>3. QED
  BY <1>1, <1>2, SetBlockType

\* add_jump extends one table, of a construct of the current function.
LEMMA AddJumpsType ==
  ASSUME TypeOK, Top.func = func_index, NEW dests \in SUBSET Nat, AddJumps(dests)
  PROVE  /\ t_jumps' \in Seq(SUBSET Nat)
         /\ Len(t_jumps') = Len(t_jumps)
<1>1. t_jumps \in Seq(SUBSET Nat) /\ func_index + 1 \in 1..Len(t_jumps)
  <2>1. /\ t_jumps \in Seq(SUBSET Nat)
        /\ func_index \in 0..(Len(t_code) - 1)
        /\ Len(t_jumps) \in {Len(t_code)}
    BY DEF TypeOK
  <2>2. QED
    BY <2>1, LenProperties
<1>2. t_jumps' = Replaced(t_jumps, func_index + 1, t_jumps[func_index + 1] \cup dests)
  BY Zenon DEF AddJumps, Replaced
<1>3. t_jumps[func_index + 1] \cup dests \in SUBSET Nat
  BY <1>1, ElementOfSeq
<1>4. func_index + 1 \in Int
  BY <1>1
<1>5. QED
  BY <1>1, <1>2, <1>3, <1>4, ReplacedType

LEMMA CountType ==
  ASSUME TypeOK
  PROVE  /\ Block \in Seq(Nat)
         /\ Count \in Nat
BY ElementOfSeq, LenProperties DEF TypeOK, Block, Count

-----------------------------------------------------------------------------
(* The stack of open constructs.                                           *)

\* LevelsNest and FunctionsNest, of a stack of frames `c' that leads to the level
\* `level' and the function `func' of `count'.
Nested(c, level, func, count) ==
  /\ \A i \in 1..Len(c) :
       /\ c[i].level = IF i = 1 THEN 0 ELSE c[i - 1].level + SlotsOf(c[i - 1])
       /\ c[i].func = IF i = 1 THEN 0 ELSE FunctionOf(c[i - 1])
       /\ {c[i].func, FunctionOf(c[i])} \subseteq 0..(count - 1)
  /\ level = IF c = <<>> THEN 0 ELSE c[Len(c)].level + SlotsOf(c[Len(c)])
  /\ func = IF c = <<>> THEN 0 ELSE FunctionOf(c[Len(c)])

LEMMA NestedIsIInv ==
  /\ IInv <=> TypeOK /\ Nested(ctx, for_loop_level, func_index, Len(t_code))
  /\ IInv' <=> TypeOK' /\ Nested(ctx', for_loop_level', func_index', Len(t_code'))
BY DEF IInv, LevelsNest, FunctionsNest, Nested, Top

LEMMA FrameType ==
  ASSUME NEW frame \in Frames
  PROVE  /\ SlotsOf(frame) \in Nat
         /\ FunctionOf(frame) \in Nat
BY DEF Frames, SlotsOf, FunctionOf

\* Opening a construct at the current level, in the current function.
LEMMA NestedPush ==
  ASSUME NEW c \in Seq(Frames), NEW level, NEW func, NEW count \in Nat,
         Nested(c, level, func, count),
         NEW frame \in Frames, frame.level = level, frame.func = func,
         NEW more \in Nat, count <= more,
         {func, FunctionOf(frame)} \subseteq 0..(more - 1)
  PROVE  /\ Append(c, frame) \in Seq(Frames)
         /\ Nested(Append(c, frame), level + SlotsOf(frame), FunctionOf(frame), more)
<1> DEFINE d == Append(c, frame)
<1>1. /\ d \in Seq(Frames)
      /\ Len(d) = Len(c) + 1
      /\ Len(c) \in Nat
      /\ d # <<>>
      /\ \A i \in 1..Len(c) : d[i] = c[i]
      /\ d[Len(c) + 1] = frame
  BY LenProperties
<1>2. c = <<>> <=> Len(c) = 0
  BY EmptySeq
<1> HIDE DEF d
<1>3. ASSUME NEW i \in 1..Len(d)
      PROVE  /\ d[i].level = IF i = 1 THEN 0 ELSE d[i - 1].level + SlotsOf(d[i - 1])
             /\ d[i].func = IF i = 1 THEN 0 ELSE FunctionOf(d[i - 1])
             /\ {d[i].func, FunctionOf(d[i])} \subseteq 0..(more - 1)
  <2>1. CASE i \in 1..Len(c)
    <3>1. d[i] = c[i] /\ (i # 1 => d[i - 1] = c[i - 1])
      BY SMTT(20), <1>1, <2>1
    <3>2. {c[i].func, FunctionOf(c[i])} \subseteq 0..(more - 1)
      BY SMTT(20), <2>1 DEF Nested
    <3>3. QED
      BY SMTT(30), <2>1, <3>1, <3>2 DEF Nested
  <2>2. CASE i = Len(c) + 1
    <3>1. d[i] = frame /\ (i # 1 => d[i - 1] = c[Len(c)])
      BY <1>1, <2>2
    <3>2. QED
      BY <1>1, <1>2, <2>2, <3>1 DEF Nested
  <2>3. QED
    BY <1>1, <2>1, <2>2
<1>4. QED
  BY <1>1, <1>3 DEF Nested, d

\* Going on to the next part of the innermost construct.
LEMMA NestedRewrite ==
  ASSUME NEW c \in Seq(Frames), c # <<>>, NEW level, NEW func, NEW count \in Nat,
         Nested(c, level, func, count),
         NEW frame \in Frames, frame.level = c[Len(c)].level, frame.func = c[Len(c)].func,
         FunctionOf(frame) = FunctionOf(c[Len(c)])
  PROVE  /\ [c EXCEPT ![Len(c)] = frame] \in Seq(Frames)
         /\ Nested([c EXCEPT ![Len(c)] = frame], frame.level + SlotsOf(frame), func, count)
<1> DEFINE d == [c EXCEPT ![Len(c)] = frame]
<1>1. Len(c) \in 1..Len(c)
  BY EmptySeq
<1>2. /\ d \in Seq(Frames)
      /\ Len(d) = Len(c)
      /\ \A i \in 1..Len(c) : d[i] = IF i = Len(c) THEN frame ELSE c[i]
  BY <1>1, ExceptSeq
<1>3. d # <<>>
  BY <1>1, <1>2, EmptySeq
<1> HIDE DEF d
<1>4. ASSUME NEW i \in 1..Len(d)
      PROVE  /\ d[i].level = IF i = 1 THEN 0 ELSE d[i - 1].level + SlotsOf(d[i - 1])
             /\ d[i].func = IF i = 1 THEN 0 ELSE FunctionOf(d[i - 1])
             /\ {d[i].func, FunctionOf(d[i])} \subseteq 0..(count - 1)
  <2>1. /\ d[i].level = c[i].level
        /\ d[i].func = c[i].func
        /\ FunctionOf(d[i]) = FunctionOf(c[i])
    BY <1>2
  <2>2. i # 1 => d[i - 1] = c[i - 1]
    BY <1>2
  <2>3. {c[i].func, FunctionOf(c[i])} \subseteq 0..(count - 1)
    BY <1>2 DEF Nested
  <2>4. QED
    BY <1>2, <2>1, <2>2, <2>3 DEF Nested
<1>5. d[Len(d)] = frame
  BY <1>1, <1>2
<1>6. func = FunctionOf(frame)
  BY DEF Nested
<1>7. QED
  BY <1>2, <1>3, <1>4, <1>5, <1>6 DEF Nested, d

\* Closing the innermost construct.
LEMMA NestedPop ==
  ASSUME NEW c \in Seq(Frames), c # <<>>, NEW level, NEW func, NEW count \in Nat,
         Nested(c, level, func, count)
  PROVE  /\ SubSeq(c, 1, Len(c) - 1) \in Seq(Frames)
         /\ Nested(SubSeq(c, 1, Len(c) - 1), c[Len(c)].level, c[Len(c)].func, count)
<1> DEFINE d == SubSeq(c, 1, Len(c) - 1)
<1>1. Len(c) \in 1..Len(c)
  BY EmptySeq
<1>2. \A i \in 1..(Len(c) - 1) : c[i] \in Frames
  BY <1>1, ElementOfSeq
<1>3. /\ d \in Seq(Frames)
      /\ Len(d) = Len(c) - 1
      /\ \A i \in 1..(Len(c) - 1) : d[i] = c[i]
  <2> DEFINE m == Len(c) - 1
  <2>1. m \in Nat /\ \A i \in 1..m : c[i] \in Frames
    BY <1>1, <1>2
  <2> HIDE DEF m
  <2>2. /\ SubSeq(c, 1, m) \in Seq(Frames)
        /\ Len(SubSeq(c, 1, m)) = m
        /\ \A i \in 1..m : SubSeq(c, 1, m)[i] = c[i]
    BY <2>1, SubSeqProperties
  <2>3. QED
    BY <2>2 DEF m
<1>4. d = <<>> <=> Len(c) = 1
  <2>1. d # <<>> => Len(d) \in Nat \ {0}
    BY <1>3, EmptySeq
  <2>2. d = <<>> => Len(d) = 0
    BY EmptySeq
  <2>3. QED
    BY <1>1, <1>3, <2>1, <2>2
<1> HIDE DEF d
<1>5. ASSUME NEW i \in 1..Len(d)
      PROVE  /\ d[i].level = IF i = 1 THEN 0 ELSE d[i - 1].level + SlotsOf(d[i - 1])
             /\ d[i].func = IF i = 1 THEN 0 ELSE FunctionOf(d[i - 1])
             /\ {d[i].func, FunctionOf(d[i])} \subseteq 0..(count - 1)
  <2>1. d[i] = c[i] /\ i \in 1..Len(c) /\ (i # 1 => d[i - 1] = c[i - 1])
    BY <1>1, <1>3
  <2>2. {c[i].func, FunctionOf(c[i])} \subseteq 0..(count - 1)
    BY <2>1 DEF Nested
  <2>3. QED
    BY <2>1, <2>2 DEF Nested
<1>6. Len(c) # 1 => d[Len(d)] = c[Len(c) - 1]
  BY <1>1, <1>3
<1>7. /\ c[Len(c)].level = IF Len(c) = 1 THEN 0 ELSE c[Len(c) - 1].level + SlotsOf(c[Len(c) - 1])
      /\ c[Len(c)].func = IF Len(c) = 1 THEN 0 ELSE FunctionOf(c[Len(c) - 1])
  BY <1>1 DEF Nested
<1>8. /\ c[Len(c)].level = IF d = <<>> THEN 0 ELSE d[Len(d)].level + SlotsOf(d[Len(d)])
      /\ c[Len(c)].func = IF d = <<>> THEN 0 ELSE FunctionOf(d[Len(d)])
  BY <1>4, <1>6, <1>7
<1>9. Nested(d, c[Len(c)].level, c[Len(c)].func, count)
  BY <1>5, <1>8 DEF Nested
<1>10. QED
  BY <1>3, <1>9 DEF d

-----------------------------------------------------------------------------
(* What the actions do to the stack of constructs.                         *)

LEMMA InnermostConstruct ==
  ASSUME IInv, NEW kinds, In(kinds)
  PROVE  /\ ctx # <<>>
         /\ Top \in Frames
         /\ Top.kind \in kinds
         /\ for_loop_level = Top.level + SlotsOf(Top)
         /\ func_index = FunctionOf(Top)
         /\ Top.func \in 0..(Len(t_code) - 1)
<1>1. Len(ctx) \in 1..Len(ctx) /\ ctx # <<>>
  BY EmptySeq DEF IInv, TypeOK, In
<1>2. Top \in Frames
  BY <1>1, ElementOfSeq DEF IInv, TypeOK, Top
<1>3. Top.func \in 0..(Len(t_code) - 1)
  BY <1>1 DEF IInv, FunctionsNest, Top
<1>4. QED
  BY <1>1, <1>2, <1>3 DEF IInv, LevelsNest, FunctionsNest, In

LEMMA FrameFields ==
  ASSUME TypeOK, NEW kind \in Kinds, NEW start \in Nat, NEW body \in Nat
  PROVE  /\ Frame(kind, start, body) \in Frames
         /\ Frame(kind, start, body).kind = kind
         /\ Frame(kind, start, body).body = body
         /\ Frame(kind, start, body).level = for_loop_level
         /\ Frame(kind, start, body).func = func_index
<1>1. for_loop_level \in Nat /\ func_index \in Nat
  BY LenProperties DEF TypeOK
<1>2. QED
  BY <1>1 DEF Frame, Frames

LEMMA ForFrameFields ==
  ASSUME TypeOK, NEW name \in Names \cup {NoName}, NEW slots \in {1, 2}
  PROVE  /\ ForFrame(name, slots) \in Frames
         /\ ForFrame(name, slots).kind = "for_count"
         /\ ForFrame(name, slots).level = for_loop_level
         /\ ForFrame(name, slots).func = func_index
<1>1. for_loop_level \in Nat /\ func_index \in Nat
  BY LenProperties DEF TypeOK
<1>2. QED
  BY <1>1 DEF ForFrame, Frame, Frames, Kinds

\* Enter, of a construct that is not a function definition.
LEMMA Opened ==
  ASSUME IInv, NEW frame \in Frames, Enter(frame),
         frame.level = for_loop_level, frame.func = func_index,
         frame.kind \notin {"for_body", "func"},
         UNCHANGED <<func_index, for_loop_level>>, Len(t_code') = Len(t_code)
  PROVE  /\ ctx' \in Seq(Frames)
         /\ Nested(ctx', for_loop_level', func_index', Len(t_code'))
<1>1. SlotsOf(frame) = 0 /\ FunctionOf(frame) = func_index
  BY DEF SlotsOf, FunctionOf
<1>2. /\ ctx \in Seq(Frames)
      /\ for_loop_level \in Nat
      /\ Len(t_code) \in Nat
      /\ func_index \in 0..(Len(t_code) - 1)
  BY LenProperties DEF IInv, TypeOK
<1>3. Nested(ctx, for_loop_level, func_index, Len(t_code))
  BY NestedIsIInv
<1>4. /\ Append(ctx, frame) \in Seq(Frames)
      /\ Nested(Append(ctx, frame), for_loop_level + SlotsOf(frame), FunctionOf(frame),
                Len(t_code))
  BY <1>1, <1>2, <1>3, NestedPush
<1>5. QED
  BY <1>1, <1>2, <1>4 DEF Enter

\* Become, of a construct that is not a function definition.
LEMMA WentOn ==
  ASSUME IInv, ctx # <<>>, Top \in Frames, Top.kind # "func",
         NEW kind \in Kinds \ {"func"}, NEW start \in Nat, NEW body \in Nat,
         Become(kind, start, body),
         for_loop_level' = Top.level + (IF kind = "for_body" THEN Top.slots ELSE 0),
         UNCHANGED func_index, Len(t_code') = Len(t_code)
  PROVE  /\ ctx' \in Seq(Frames)
         /\ Nested(ctx', for_loop_level', func_index', Len(t_code'))
<1> DEFINE frame == [Top EXCEPT !.kind = kind, !.start = start, !.body = body]
<1>1. /\ frame \in Frames
      /\ frame.level = Top.level
      /\ frame.func = Top.func
      /\ FunctionOf(frame) = FunctionOf(Top)
      /\ for_loop_level' = frame.level + SlotsOf(frame)
  BY DEF Frames, FunctionOf, SlotsOf
<1>2. ctx' = [ctx EXCEPT ![Len(ctx)] = frame]
  BY DEF Become, Top
<1> HIDE DEF frame
<1>3. ctx \in Seq(Frames) /\ Len(t_code) \in Nat
  BY LenProperties DEF IInv, TypeOK
<1>4. Nested(ctx, for_loop_level, func_index, Len(t_code))
  BY NestedIsIInv
<1>5. /\ [ctx EXCEPT ![Len(ctx)] = frame] \in Seq(Frames)
      /\ Nested([ctx EXCEPT ![Len(ctx)] = frame], frame.level + SlotsOf(frame), func_index,
                Len(t_code))
  BY <1>1, <1>3, <1>4, NestedRewrite DEF Top
<1>6. QED
  BY <1>1, <1>2, <1>5

\* Leave.
LEMMA Closed ==
  ASSUME IInv, ctx # <<>>, Leave,
         for_loop_level' = Top.level, func_index' = Top.func, Len(t_code') = Len(t_code)
  PROVE  /\ ctx' \in Seq(Frames)
         /\ Nested(ctx', for_loop_level', func_index', Len(t_code'))
<1>1. ctx \in Seq(Frames) /\ Len(t_code) \in Nat
  BY LenProperties DEF IInv, TypeOK
<1>2. Nested(ctx, for_loop_level, func_index, Len(t_code))
  BY NestedIsIInv
<1>3. QED
  BY <1>1, <1>2, NestedPop DEF Leave, Top

-----------------------------------------------------------------------------
(* Shapes that several actions have in common.                             *)

LEMMA OperandType ==
  ASSUME NEW op \in Nat, NEW v \in Int
  PROVE  <<op>> \o U16(v) \in Seq(Nat)
BY U16Type, ConcatProperties

\* One entry per function.
LEMMA TablesOfTypeOK ==
  ASSUME TypeOK
  PROVE  /\ Len(t_code) \in Nat
         /\ Len(t_jumps) = Len(t_code)
         /\ Len(sigs) = Len(t_code)
         /\ Len(locals) = Len(t_code)
         /\ Len(max_for_loop_level) = Len(t_code)
BY LenProperties DEF TypeOK

\* An action that leaves the open constructs alone.
LEMMA ConstructsKept ==
  ASSUME IInv, TypeOK', UNCHANGED <<ctx, for_loop_level, func_index>>,
         Len(t_code') = Len(t_code)
  PROVE  IInv'
BY NestedIsIInv

\* An action that only appends code.
LEMMA CodeAppended ==
  ASSUME IInv, NEW bytes \in Seq(Nat), Emit(bytes), NextPhrase,
         UNCHANGED <<status, ctx, end_addr, func_index, for_loop_level, symbols, t_jumps,
                     tables>>
  PROVE  IInv'
<1>1. TypeOK
  BY DEF IInv
<1>2. t_code' \in Seq(Seq(Nat)) /\ Len(t_code') = Len(t_code)
  BY <1>1, EmitType
<1>3. TypeOK'
  BY <1>1, <1>2 DEF TypeOK, NextPhrase, tables
<1>4. QED
  BY <1>2, <1>3, ConstructsKept

\* An action that stops the compilation.
LEMMA Failed ==
  ASSUME IInv, Fail, phrases' \in Nat
  PROVE  IInv'
<1>1. TypeOK' /\ Len(t_code') = Len(t_code)
  BY DEF IInv, TypeOK, Fail, tables, Statuses
<1>2. QED
  BY <1>1, ConstructsKept DEF Fail

\* The end of compile_conditional.
LEMMA ConditionalClosed ==
  ASSUME IInv, In({"then", "else", "elif"}),
         NEW start \in Nat, NEW else_start \in Nat, NEW end \in Nat,
         CloseConditional(start, else_start, end), phrases' \in Nat
  PROVE  IInv'
<1> DEFINE skip  == else_start - start - 1
           leap  == end - (else_start - 3) - 1
           jumps == IF else_start = end THEN {else_start} ELSE {else_start, end}
           skipped == Patched(Block, start, skip)
           patched == IF else_start = end THEN skipped
                      ELSE Patched(skipped, else_start - 3, leap)
<1>1. TypeOK
  BY DEF IInv
<1>2. /\ ctx # <<>>
      /\ Top.kind \in {"then", "else", "elif"}
      /\ for_loop_level = Top.level + SlotsOf(Top)
      /\ func_index = FunctionOf(Top)
      /\ Top \in Frames
  BY InnermostConstruct
<1>3. for_loop_level = Top.level /\ func_index = Top.func
  BY <1>2 DEF SlotsOf, FunctionOf, Frames
<1>4. patched \in Seq(Nat)
  <2>1. skipped \in Seq(Nat)
    BY <1>1, CountType, PatchedType
  <2>2. Patched(skipped, else_start - 3, leap) \in Seq(Nat)
    BY <2>1, PatchedType
  <2>3. QED
    BY <2>1, <2>2
<1>5. CASE InS16(skip) /\ (else_start = end \/ InS16(leap))
  <2>1. /\ SetBlock(patched)
        /\ AddJumps(jumps)
        /\ end_addr' = end
        /\ status' = "returning"
        /\ Leave
        /\ UNCHANGED <<func_index, for_loop_level, symbols, tables>>
    BY <1>5 DEF CloseConditional
  <2> HIDE DEF patched
  <2>2. t_code' \in Seq(Seq(Nat)) /\ Len(t_code') = Len(t_code)
    BY <1>1, <1>4, <2>1, SetBlockType
  <2>3. t_jumps' \in Seq(SUBSET Nat) /\ Len(t_jumps') = Len(t_jumps)
    <3>1. jumps \in SUBSET Nat
      OBVIOUS
    <3>2. QED
      BY <1>1, <1>3, <2>1, <3>1, AddJumpsType
  <2>4. /\ ctx' \in Seq(Frames)
        /\ Nested(ctx', for_loop_level', func_index', Len(t_code'))
    BY <1>2, <1>3, <2>1, <2>2, Closed
  <2>5. TypeOK'
    BY <1>1, <2>1, <2>2, <2>3, <2>4 DEF TypeOK, tables, Statuses
  <2>6. QED
    BY <2>4, <2>5, NestedIsIInv
<1>6. CASE ~(InS16(skip) /\ (else_start = end \/ InS16(leap)))
  <2>1. Fail
    BY <1>6 DEF CloseConditional, Fail
  <2>2. QED
    BY <2>1, Failed
<1>7. QED
  BY <1>5, <1>6

-----------------------------------------------------------------------------
(* Every action keeps IInv.                                                *)

LEMMA OpcodeTypes ==
  {T_OP_NOP, T_OP_PUSH8, T_OP_PUSH_INT8, T_OP_POP, T_OP_DUPE, T_OP_EXIT,
   T_OP_FOR_DEC_START, T_OP_FOR_DEC, T_OP_FOR_INC_START, T_OP_FOR_INC,
   T_OP_GET_LOOP_VAR, T_OP_JUMP, T_OP_JUMP_COND, T_OP_JUMP_NCOND,
   T_OP_LOCAL_GET, T_OP_LOCAL_SET, T_OP_CALL8, T_OP_RET} \subseteq Nat
BY DEF T_OP_NOP, T_OP_PUSH8, T_OP_PUSH_INT8, T_OP_POP, T_OP_DUPE, T_OP_EXIT,
       T_OP_FOR_DEC_START, T_OP_FOR_DEC, T_OP_FOR_INC_START, T_OP_FOR_INC,
       T_OP_GET_LOOP_VAR, T_OP_JUMP, T_OP_JUMP_COND, T_OP_JUMP_NCOND,
       T_OP_LOCAL_GET, T_OP_LOCAL_SET, T_OP_CALL8, T_OP_RET

LEMMA InitKeeps ==
  ASSUME Init
  PROVE  IInv
<1>1. TypeOK
  <2>1. None \in Symbols
    BY DEF Symbols, None
  <2>2. QED
    BY <2>1 DEF Init, TypeOK, Statuses
<1>2. QED
  BY <1>1 DEF Init, IInv, LevelsNest, FunctionsNest

\* Literals, simple tokens and symbols.
LEMMA CompileIntegerKeeps ==
  ASSUME IInv, NEW op \in LiteralOps, NEW v \in Literals, CompileInteger(op, v)
  PROVE  IInv'
<1>1. op \in Nat /\ v \in Nat
  <2>1. op \in {T_OP_PUSH8, T_OP_PUSH_INT8} /\ v \in 0..(ByteBase - 1)
    BY CompilerAssumption
  <2>2. QED
    BY <2>1, OpcodeTypes, ByteBaseAssumption
<1>2. <<op, v>> \in Seq(Nat)
  BY <1>1
<1>3. QED
  BY <1>2, CodeAppended DEF CompileInteger

LEMMA CompileSimpleKeeps ==
  ASSUME IInv, NEW op \in SimpleOps, CompileSimple(op)
  PROVE  IInv'
<1>1. op \in Nat
  <2>1. op \in {T_OP_POP, T_OP_DUPE, T_OP_EXIT, T_OP_RET}
    BY CompilerAssumption
  <2>2. QED
    BY <2>1, OpcodeTypes
<1>2. <<op>> \in Seq(Nat)
  BY <1>1
<1>3. QED
  BY <1>2, CodeAppended DEF CompileSimple

LEMMA CompileSymbolKeeps ==
  ASSUME IInv, NEW n \in Names, CompileSymbol(n)
  PROVE  IInv'
<1>1. /\ symbols[n] \in Symbols
      /\ symbols[n].kind # "none"
      /\ for_loop_level \in Nat
  BY DEF IInv, TypeOK, CompileSymbol, SymbolRefused
<1>2. symbols[n].arg \in Nat /\ symbols[n].arg \in Int /\ symbols[n].kind \in {"loop_var", "func", "var"}
  BY <1>1 DEF Symbols
<1>3. for_loop_level - symbols[n].arg \in Int
  BY <1>1, <1>2
<1>4. SymbolCode(symbols[n]) \in Seq(Nat)
  <2>1. CASE symbols[n].kind = "loop_var"
    BY <1>3, <2>1, OperandType, OpcodeTypes DEF SymbolCode
  <2>2. CASE symbols[n].kind = "func"
    <3>1. <<T_OP_CALL8, symbols[n].arg>> \in Seq(Nat)
      BY <1>2, OpcodeTypes
    <3>2. QED
      BY <2>2, <3>1 DEF SymbolCode
  <2>3. CASE symbols[n].kind = "var"
    BY <1>2, <2>3, OperandType, OpcodeTypes DEF SymbolCode
  <2>4. QED
    BY <1>2, <2>1, <2>2, <2>3
<1>5. QED
  BY <1>4, CodeAppended DEF CompileSymbol

LEMMA CompileAssignmentKeeps ==
  ASSUME IInv, NEW n \in VarNames, CompileAssignment(n)
  PROVE  IInv'
<1>1. symbols[n].arg \in Int
  BY DEF IInv, TypeOK, Symbols, Names
<1>2. <<T_OP_LOCAL_SET>> \o U16(symbols[n].arg) \in Seq(Nat)
  BY <1>1, OperandType, OpcodeTypes
<1>3. QED
  BY <1>2, CodeAppended DEF CompileAssignment

LEMMA CompileVarKeeps ==
  ASSUME IInv, NEW n \in VarNames, CompileVar(n)
  PROVE  IInv'
<1>1. TypeOK
  BY DEF IInv
<1>2. func_index + 1 \in 1..Len(locals) /\ func_index \in Nat
  BY <1>1, TablesOfTypeOK DEF TypeOK
<1>3. locals[func_index + 1] \in Seq({IntType})
  BY <1>1, <1>2, ElementOfSeq DEF TypeOK
<1>4. locals' \in Seq(Seq({IntType})) /\ Len(locals') = Len(locals)
  <2>1. Append(locals[func_index + 1], IntType) \in Seq({IntType})
    BY <1>3
  <2>2. QED
    BY <1>1, <1>2, <2>1, ExceptSeq DEF TypeOK, CompileVar
<1>5. symbols' \in [Names -> Symbols]
  <2>1. Symbol("var", Len(locals[func_index + 1]), func_index) \in Symbols
    BY <1>2, <1>3, LenProperties DEF Symbol, Symbols
  <2>2. QED
    BY <1>1, <2>1 DEF TypeOK, CompileVar
<1>6. TypeOK' /\ Len(t_code') = Len(t_code)
  BY <1>1, <1>4, <1>5, SMTT(40) DEF TypeOK, CompileVar, NextPhrase
<1>7. QED
  BY <1>6, ConstructsKept DEF CompileVar

LEMMA RefusalKeeps ==
  ASSUME IInv, NEW n, RefuseSymbol(n) \/ RefuseAssignment(n)
  PROVE  IInv'
<1>1. phrases' \in Nat
  BY DEF RefuseSymbol, RefuseAssignment, NextPhrase, IInv, TypeOK
<1>2. QED
  BY <1>1, Failed DEF RefuseSymbol, RefuseAssignment

\* Conditionals.
LEMMA CompileIfKeeps ==
  ASSUME IInv, CompileIf
  PROVE  IInv'
<1> DEFINE frame == Frame("if_cond", 0, 0)
<1>1. TypeOK
  BY DEF IInv
<1>2. /\ frame \in Frames
      /\ frame.kind = "if_cond"
      /\ frame.level = for_loop_level
      /\ frame.func = func_index
  BY <1>1, FrameFields DEF Kinds
<1> HIDE DEF frame
<1>3. Enter(frame) /\ UNCHANGED <<func_index, for_loop_level>> /\ Len(t_code') = Len(t_code)
  BY DEF CompileIf, frame
<1>4. /\ ctx' \in Seq(Frames)
      /\ Nested(ctx', for_loop_level', func_index', Len(t_code'))
  BY <1>2, <1>3, Opened
<1>5. TypeOK'
  BY <1>1, <1>4 DEF TypeOK, CompileIf, NextPhrase, tables
<1>6. QED
  BY <1>4, <1>5, NestedIsIInv

\* ConditionalThen and ConditionalElse append a jump and go on.
LEMMA JumpAndGoOn ==
  ASSUME IInv, NEW op \in Nat, Emit(<<op>> \o U16(0)), In({"if_cond", "then", "while_cond"}),
         NEW kind \in Kinds \ {"func", "for_body"}, NEW start \in Nat, NEW body \in Nat,
         Become(kind, start, body), NextPhrase,
         UNCHANGED <<status, end_addr, func_index, for_loop_level, symbols, t_jumps, tables>>
  PROVE  IInv'
<1>1. TypeOK
  BY DEF IInv
<1>2. /\ ctx # <<>>
      /\ Top.kind \in {"if_cond", "then", "while_cond"}
      /\ for_loop_level = Top.level + SlotsOf(Top)
      /\ Top \in Frames
  BY InnermostConstruct
<1>3. for_loop_level' = Top.level + (IF kind = "for_body" THEN Top.slots ELSE 0)
  BY <1>2 DEF SlotsOf, Frames
<1>4. t_code' \in Seq(Seq(Nat)) /\ Len(t_code') = Len(t_code)
  <2>1. <<op>> \o U16(0) \in Seq(Nat)
    BY OperandType
  <2>2. QED
    BY <1>1, <2>1, EmitType
<1>5. /\ ctx' \in Seq(Frames)
      /\ Nested(ctx', for_loop_level', func_index', Len(t_code'))
  BY <1>2, <1>3, <1>4, WentOn
<1>6. TypeOK'
  BY SMTT(30), <1>1, <1>4, <1>5 DEF TypeOK, NextPhrase, tables
<1>7. QED
  BY <1>5, <1>6, NestedIsIInv

LEMMA ConditionalThenKeeps ==
  ASSUME IInv, ConditionalThen
  PROVE  IInv'
<1>1. Count \in Nat
  BY CountType DEF IInv
<1>2. In({"if_cond", "then", "while_cond"})
  BY DEF ConditionalThen, In
<1>3. QED
  BY <1>1, <1>2, JumpAndGoOn, OpcodeTypes DEF ConditionalThen, Kinds

LEMMA ConditionalElseKeeps ==
  ASSUME IInv, ConditionalElse
  PROVE  IInv'
<1>1. Count + 3 \in Nat
  BY CountType DEF IInv
<1>2. In({"if_cond", "then", "while_cond"})
  BY DEF ConditionalElse, In
<1>3. Top.start \in Nat
  BY <1>2, InnermostConstruct DEF Frames
<1>4. QED
  BY <1>1, <1>2, <1>3, JumpAndGoOn, OpcodeTypes DEF ConditionalElse, Kinds

LEMMA ConditionalElifKeeps ==
  ASSUME IInv, ConditionalElif
  PROVE  IInv'
<1> DEFINE frame == [Top EXCEPT !.kind = "elif", !.body = Count + 3]
           outer == [ctx EXCEPT ![Len(ctx)] = frame]
           inner == Frame("if_cond", 0, 0)
<1>1. TypeOK
  BY DEF IInv
<1>2. /\ ctx # <<>>
      /\ Top \in Frames
      /\ Top.kind = "then"
      /\ for_loop_level = Top.level + SlotsOf(Top)
      /\ func_index = FunctionOf(Top)
  BY InnermostConstruct DEF ConditionalElif
<1>3. Count + 3 \in Nat
  BY <1>1, CountType
<1>4. /\ frame \in Frames
      /\ frame.level = Top.level
      /\ frame.func = Top.func
      /\ FunctionOf(frame) = FunctionOf(Top)
      /\ for_loop_level = frame.level + SlotsOf(frame)
  BY <1>2, <1>3 DEF Frames, Kinds, FunctionOf, SlotsOf
<1>5. /\ inner \in Frames
      /\ inner.level = for_loop_level
      /\ inner.func = func_index
      /\ SlotsOf(inner) = 0
      /\ FunctionOf(inner) = func_index
  BY <1>1, FrameFields DEF Kinds, SlotsOf, FunctionOf
<1>6. ctx' = Append(outer, inner)
  BY DEF ConditionalElif, Top
<1> HIDE DEF frame, outer, inner
<1>7. /\ ctx \in Seq(Frames)
      /\ for_loop_level \in Nat
      /\ Len(t_code) \in Nat
      /\ func_index \in 0..(Len(t_code) - 1)
  BY <1>1, LenProperties DEF TypeOK
<1>8. Nested(ctx, for_loop_level, func_index, Len(t_code))
  BY NestedIsIInv
<1>9. outer \in Seq(Frames) /\ Nested(outer, for_loop_level, func_index, Len(t_code))
  BY <1>2, <1>4, <1>7, <1>8, NestedRewrite DEF Top, outer
<1>10. /\ Append(outer, inner) \in Seq(Frames)
       /\ Nested(Append(outer, inner), for_loop_level + SlotsOf(inner), FunctionOf(inner),
                 Len(t_code))
  BY <1>5, <1>7, <1>9, NestedPush
<1>11. /\ Emit(<<T_OP_JUMP>> \o U16(0))
       /\ NextPhrase
       /\ UNCHANGED <<status, end_addr, func_index, for_loop_level, symbols, t_jumps, tables>>
  BY DEF ConditionalElif
<1>12. t_code' \in Seq(Seq(Nat)) /\ Len(t_code') = Len(t_code)
  <2>1. T_OP_JUMP \in Nat
    BY DEF T_OP_JUMP
  <2>2. <<T_OP_JUMP>> \o U16(0) \in Seq(Nat)
    BY <2>1, OperandType
  <2>3. QED
    BY <1>1, <1>11, <2>2, EmitType
<1>13. ctx' \in Seq(Frames) /\ Nested(ctx', for_loop_level', func_index', Len(t_code'))
  <2>1. for_loop_level + SlotsOf(inner) = for_loop_level
    BY <1>5, <1>7
  <2>2. QED
    BY <1>5, <1>6, <1>10, <1>11, <1>12, <2>1
<1>14. TypeOK'
  BY <1>1, <1>11, <1>12, <1>13, SMTT(40) DEF TypeOK, NextPhrase, tables
<1>15. QED
  BY <1>13, <1>14, NestedIsIInv

LEMMA ConditionalEndKeeps ==
  ASSUME IInv, ConditionalEnd
  PROVE  IInv'
<1>1. In({"then", "else", "elif"}) /\ Top \in Frames
  <2>1. In({"then", "else", "elif"})
    BY DEF ConditionalEnd, In
  <2>2. QED
    BY <2>1, InnermostConstruct
<1>2. Count \in Nat /\ Top.start \in Nat /\ Top.body \in Nat
  BY <1>1, CountType DEF IInv, Frames
<1>3. phrases' \in Nat
  BY DEF ConditionalEnd, NextPhrase, IInv, TypeOK
<1>4. QED
  BY <1>1, <1>2, <1>3, ConditionalClosed DEF ConditionalEnd

LEMMA ReturnToElifKeeps ==
  ASSUME IInv, ReturnToElif
  PROVE  IInv'
<1>1. In({"then", "else", "elif"}) /\ Top \in Frames
  <2>1. In({"then", "else", "elif"})
    BY DEF ReturnToElif, In
  <2>2. QED
    BY <2>1, InnermostConstruct
<1>2. end_addr \in Nat /\ Top.start \in Nat /\ Top.body \in Nat
  BY <1>1 DEF IInv, TypeOK, Frames
<1>3. phrases' \in Nat
  BY DEF ReturnToElif, IInv, TypeOK
<1>4. QED
  BY <1>1, <1>2, <1>3, ConditionalClosed DEF ReturnToElif

LEMMA ReturnFromConditionalKeeps ==
  ASSUME IInv, ReturnFromConditional
  PROVE  IInv'
<1>1. TypeOK' /\ Len(t_code') = Len(t_code)
  BY DEF IInv, TypeOK, ReturnFromConditional, tables, Statuses
<1>2. QED
  BY <1>1, ConstructsKept DEF ReturnFromConditional

\* Loops.
LEMMA CompileWhileKeeps ==
  ASSUME IInv, CompileWhile
  PROVE  IInv'
<1> DEFINE frame == Frame("while_cond", Count, 0)
<1>1. TypeOK /\ Count \in Nat
  BY CountType DEF IInv
<1>2. /\ frame \in Frames
      /\ frame.kind = "while_cond"
      /\ frame.level = for_loop_level
      /\ frame.func = func_index
  BY <1>1, FrameFields DEF Kinds
<1> HIDE DEF frame
<1>3. Enter(frame) /\ UNCHANGED <<func_index, for_loop_level>> /\ Len(t_code') = Len(t_code)
  BY DEF CompileWhile, frame
<1>4. /\ ctx' \in Seq(Frames)
      /\ Nested(ctx', for_loop_level', func_index', Len(t_code'))
  BY <1>2, <1>3, Opened
<1>5. TypeOK'
  BY <1>1, <1>4 DEF TypeOK, CompileWhile, NextPhrase, tables
<1>6. QED
  BY <1>4, <1>5, NestedIsIInv

LEMMA WhileDoKeeps ==
  ASSUME IInv, WhileDo
  PROVE  IInv'
<1>1. Count \in Nat
  BY CountType DEF IInv
<1>2. In({"if_cond", "then", "while_cond"})
  BY DEF WhileDo, In
<1>3. Top.start \in Nat
  BY <1>2, InnermostConstruct DEF Frames
<1>4. QED
  BY <1>1, <1>2, <1>3, JumpAndGoOn, OpcodeTypes DEF WhileDo, Kinds

\* The jump back is emitted and the jump over the body patched.
LEMMA LoopedType ==
  ASSUME TypeOK, NEW op \in Nat, NEW back \in Int
  PROVE  /\ Block \o <<op>> \o U16(back) \in Seq(Nat)
         /\ Len(Block \o <<op>> \o U16(back)) \in Nat
<1>1. Block \o <<op>> \in Seq(Nat)
  BY CountType, ConcatProperties
<1>2. Block \o <<op>> \o U16(back) \in Seq(Nat)
  BY <1>1, U16Type, ConcatProperties
<1>3. QED
  BY <1>2, LenProperties

LEMMA WhileEndKeeps ==
  ASSUME IInv, WhileEnd
  PROVE  IInv'
<1> DEFINE looped == Block \o <<T_OP_JUMP>> \o U16(Top.start - Count - 1)
           exit_jump == Len(looped) - Top.body - 1
           patched == Patched(looped, Top.body, exit_jump)
<1>1. TypeOK /\ phrases' \in Nat
  BY DEF IInv, TypeOK, WhileEnd, NextPhrase
<1>2. /\ ctx # <<>>
      /\ Top.kind = "while_body"
      /\ for_loop_level = Top.level + SlotsOf(Top)
      /\ func_index = FunctionOf(Top)
      /\ Top \in Frames
  BY InnermostConstruct DEF WhileEnd
<1>3. for_loop_level = Top.level /\ func_index = Top.func
  BY <1>2 DEF SlotsOf, FunctionOf, Frames
<1>4. Top.start \in Nat /\ Top.body \in Nat
  BY <1>2 DEF Frames
<1>5. looped \in Seq(Nat) /\ Len(looped) \in Nat
  <2>1. T_OP_JUMP \in Nat /\ Top.start - Count - 1 \in Int
    BY <1>1, <1>4, CountType DEF T_OP_JUMP
  <2>2. QED
    BY <1>1, <2>1, LoopedType
<1>6. \/ /\ SetBlock(patched)
         /\ AddJumps({Top.start, Len(looped)})
         /\ Leave
         /\ UNCHANGED <<status, end_addr, func_index, for_loop_level, symbols, tables>>
      \/ Fail
  BY DEF WhileEnd
<1> HIDE DEF looped
<1>7. CASE SetBlock(patched) /\ ~Fail
  <2>1. patched \in Seq(Nat)
    BY <1>4, <1>5, PatchedType
  <2> HIDE DEF patched
  <2>2. t_code' \in Seq(Seq(Nat)) /\ Len(t_code') = Len(t_code)
    BY <1>1, <1>7, <2>1, SetBlockType
  <2>3. t_jumps' \in Seq(SUBSET Nat) /\ Len(t_jumps') = Len(t_jumps)
    <3>1. {Top.start, Len(looped)} \in SUBSET Nat
      BY <1>4, <1>5
    <3>2. QED
      BY <1>1, <1>3, <1>6, <1>7, <3>1, AddJumpsType
  <2>4. /\ ctx' \in Seq(Frames)
        /\ Nested(ctx', for_loop_level', func_index', Len(t_code'))
    BY <1>2, <1>3, <1>6, <1>7, <2>2, Closed
  <2>5. TypeOK'
    BY <1>1, <1>6, <1>7, <2>2, <2>3, <2>4 DEF TypeOK, tables
  <2>6. QED
    BY <2>4, <2>5, NestedIsIInv
<1>8. CASE Fail
  BY <1>1, <1>8, Failed
<1>9. QED
  BY <1>6, <1>7, <1>8

LEMMA CompileForKeeps ==
  ASSUME IInv, CompileFor
  PROVE  IInv'
<1> DEFINE frame == ForFrame(NoName, 1)
<1>1. TypeOK
  BY DEF IInv
<1>2. /\ frame \in Frames
      /\ frame.kind = "for_count"
      /\ frame.level = for_loop_level
      /\ frame.func = func_index
  BY <1>1, ForFrameFields
<1> HIDE DEF frame
<1>3. Enter(frame) /\ UNCHANGED <<func_index, for_loop_level>> /\ Len(t_code') = Len(t_code)
  BY DEF CompileFor, frame
<1>4. /\ ctx' \in Seq(Frames)
      /\ Nested(ctx', for_loop_level', func_index', Len(t_code'))
  BY <1>2, <1>3, Opened
<1>5. TypeOK'
  BY <1>1, <1>4 DEF TypeOK, CompileFor, NextPhrase, tables
<1>6. QED
  BY <1>4, <1>5, NestedIsIInv

LEMMA CompileForVarKeeps ==
  ASSUME IInv, NEW n \in LoopNames, NEW slots \in {1, 2}, CompileForVar(n, slots)
  PROVE  IInv'
<1> DEFINE frame == ForFrame(n, slots)
<1>1. TypeOK /\ for_loop_level \in Nat
  BY DEF IInv, TypeOK
<1>2. /\ frame \in Frames
      /\ frame.kind = "for_count"
      /\ frame.level = for_loop_level
      /\ frame.func = func_index
  BY <1>1, ForFrameFields DEF Names
<1> HIDE DEF frame
<1>3. Enter(frame) /\ UNCHANGED <<func_index, for_loop_level>> /\ Len(t_code') = Len(t_code)
  BY DEF CompileForVar, frame
<1>4. /\ ctx' \in Seq(Frames)
      /\ Nested(ctx', for_loop_level', func_index', Len(t_code'))
  BY <1>2, <1>3, Opened
<1>5. symbols' \in [Names -> Symbols]
  <2>1. Symbol("loop_var", for_loop_level + slots, 0) \in Symbols
    BY <1>1 DEF Symbol, Symbols
  <2>2. QED
    BY <1>1, <2>1 DEF TypeOK, CompileForVar
<1>6. TypeOK'
  BY <1>1, <1>4, <1>5, SMTT(40) DEF TypeOK, CompileForVar, NextPhrase, tables
<1>7. QED
  BY <1>4, <1>6, NestedIsIInv

LEMMA ForDoKeeps ==
  ASSUME IInv, ForDo
  PROVE  IInv'
<1> DEFINE op == IF Top.slots = 1 THEN T_OP_FOR_DEC_START ELSE T_OP_FOR_INC_START
           new == IF for_loop_level' > max_for_loop_level[func_index + 1]
                  THEN for_loop_level' ELSE max_for_loop_level[func_index + 1]
<1>1. TypeOK /\ Count \in Nat
  BY CountType DEF IInv
<1>2. /\ ctx # <<>>
      /\ Top.kind = "for_count"
      /\ for_loop_level = Top.level + SlotsOf(Top)
      /\ Top \in Frames
  BY InnermostConstruct DEF ForDo
<1>3. /\ for_loop_level' = Top.level + (IF "for_body" = "for_body" THEN Top.slots ELSE 0)
      /\ for_loop_level' \in Nat
  BY <1>2 DEF ForDo, SlotsOf, Frames
<1>4. op \in Nat
  BY DEF T_OP_FOR_DEC_START, T_OP_FOR_INC_START
<1>5. /\ Emit(<<op>> \o U16(0))
      /\ Become("for_body", Count, Count + 3)
      /\ max_for_loop_level' = [max_for_loop_level EXCEPT ![func_index + 1] = new]
      /\ NextPhrase
      /\ UNCHANGED <<status, end_addr, func_index, symbols, t_jumps, sigs, locals>>
  BY DEF ForDo
<1> HIDE DEF op
<1>6. t_code' \in Seq(Seq(Nat)) /\ Len(t_code') = Len(t_code)
  <2>1. <<op>> \o U16(0) \in Seq(Nat)
    BY <1>4, OperandType
  <2>2. QED
    BY <1>1, <1>5, <2>1, EmitType
<1>7. /\ max_for_loop_level' \in Seq(Nat)
      /\ Len(max_for_loop_level') = Len(max_for_loop_level)
  <2>1. func_index + 1 \in 1..Len(max_for_loop_level)
    BY <1>1, TablesOfTypeOK DEF TypeOK
  <2>2. max_for_loop_level[func_index + 1] \in Nat
    BY <1>1, <2>1, ElementOfSeq DEF TypeOK
  <2>3. new \in Nat
    BY <1>3, <2>2
  <2> HIDE DEF new
  <2>4. QED
    BY <1>1, <1>5, <2>1, <2>3, ExceptSeq DEF TypeOK
<1>8. /\ ctx' \in Seq(Frames)
      /\ Nested(ctx', for_loop_level', func_index', Len(t_code'))
  <2>1. "for_body" \in Kinds \ {"func"} /\ Count + 3 \in Nat
    BY <1>1 DEF Kinds
  <2>2. QED
    BY <1>1, <1>2, <1>3, <1>5, <1>6, <2>1, WentOn
<1>9. TypeOK'
  <2>1. func_index' \in 0..(Len(t_code') - 1)
    BY <1>1, <1>5, <1>6 DEF TypeOK
  <2>2. {Len(t_jumps'), Len(sigs'), Len(locals'), Len(max_for_loop_level')} = {Len(t_code')}
    BY <1>1, <1>5, <1>6, <1>7, TablesOfTypeOK
  <2>3. /\ status' \in Statuses
        /\ end_addr' \in Nat
        /\ symbols' \in [Names -> Symbols]
        /\ t_jumps' \in Seq(SUBSET Nat)
        /\ sigs' \in Seq([params : Seq({IntType}), rets : Seq({IntType})])
        /\ locals' \in Seq(Seq({IntType}))
        /\ phrases' \in Nat
    BY <1>1, <1>5 DEF TypeOK, NextPhrase
  <2>4. QED
    BY <1>3, <1>6, <1>7, <1>8, <2>1, <2>2, <2>3 DEF TypeOK
<1>10. QED
  BY <1>8, <1>9, NestedIsIInv

LEMMA ForEndKeeps ==
  ASSUME IInv, ForEnd
  PROVE  IInv'
<1> DEFINE update == IF Top.slots = 1 THEN T_OP_FOR_DEC ELSE T_OP_FOR_INC
           looped == Block \o <<update>> \o U16(Top.body - Count - 1)
           skip_jump == Len(looped) - Top.start - 1
           patched == Patched(looped, Top.start, skip_jump)
<1>1. TypeOK /\ phrases' \in Nat
  BY DEF IInv, TypeOK, ForEnd, NextPhrase
<1>2. /\ ctx # <<>>
      /\ Top.kind = "for_body"
      /\ for_loop_level = Top.level + SlotsOf(Top)
      /\ func_index = FunctionOf(Top)
      /\ Top \in Frames
  BY InnermostConstruct DEF ForEnd
<1>3. /\ for_loop_level - Top.slots = Top.level
      /\ Top.level \in Nat
      /\ func_index = Top.func
  BY <1>2 DEF SlotsOf, FunctionOf, Frames
<1>4. Top.start \in Nat /\ Top.body \in Nat
  BY <1>2 DEF Frames
<1>5. looped \in Seq(Nat) /\ Len(looped) \in Nat
  <2>1. update \in Nat /\ Top.body - Count - 1 \in Int
    BY <1>1, <1>4, CountType DEF T_OP_FOR_DEC, T_OP_FOR_INC
  <2> HIDE DEF update
  <2>2. QED
    BY <1>1, <2>1, LoopedType
<1>6. \/ /\ SetBlock(patched)
         /\ AddJumps({Top.body, Len(looped)})
         /\ for_loop_level' = for_loop_level - Top.slots
         /\ Leave
         /\ UNCHANGED <<status, end_addr, func_index, symbols, tables>>
      \/ Fail
  BY DEF ForEnd
<1> HIDE DEF looped
<1>7. CASE SetBlock(patched) /\ ~Fail
  <2>1. patched \in Seq(Nat)
    BY <1>4, <1>5, PatchedType
  <2> HIDE DEF patched
  <2>2. t_code' \in Seq(Seq(Nat)) /\ Len(t_code') = Len(t_code)
    BY <1>1, <1>7, <2>1, SetBlockType
  <2>3. t_jumps' \in Seq(SUBSET Nat) /\ Len(t_jumps') = Len(t_jumps)
    <3>1. {Top.body, Len(looped)} \in SUBSET Nat
      BY <1>4, <1>5
    <3>2. QED
      BY <1>1, <1>3, <1>6, <1>7, <3>1, AddJumpsType
  <2>4. /\ ctx' \in Seq(Frames)
        /\ Nested(ctx', for_loop_level', func_index', Len(t_code'))
    BY <1>2, <1>3, <1>6, <1>7, <2>2, Closed
  <2>5. TypeOK'
    BY <1>1, <1>3, <1>6, <1>7, <2>2, <2>3, <2>4 DEF TypeOK, tables
  <2>6. QED
    BY <2>4, <2>5, NestedIsIInv
<1>8. CASE Fail
  BY <1>1, <1>8, Failed
<1>9. QED
  BY <1>6, <1>7, <1>8

\* Functions.
LEMMA CompileFunctionKeeps ==
  ASSUME IInv, NEW n \in FuncNames, NEW sig \in Signatures, CompileFunction(n, sig)
  PROVE  IInv'
<1> DEFINE frame == Frame("func", 0, Len(t_code))
<1>1. TypeOK
  BY DEF IInv
<1>2. /\ Len(t_code) \in Nat
      /\ for_loop_level \in Nat
      /\ func_index \in 0..(Len(t_code) - 1)
      /\ ctx \in Seq(Frames)
  BY <1>1, LenProperties DEF TypeOK
<1>3. /\ frame \in Frames
      /\ frame.level = for_loop_level
      /\ frame.func = func_index
      /\ SlotsOf(frame) = 0
      /\ FunctionOf(frame) = Len(t_code)
  BY SMTT(30), <1>1, <1>2, FrameFields DEF Kinds, SlotsOf, FunctionOf
<1> HIDE DEF frame
<1>4. /\ t_code' \in Seq(Seq(Nat))
      /\ Len(t_code') = Len(t_code) + 1
  <2>1. <<>> \in Seq(Nat)
    OBVIOUS
  <2>2. t_code' = Append(t_code, <<>>)
    BY DEF CompileFunction
  <2>3. QED
    BY <1>1, <2>1, <2>2 DEF TypeOK
<1>5. /\ t_jumps' \in Seq(SUBSET Nat)
      /\ Len(t_jumps') = Len(t_jumps) + 1
  BY <1>1 DEF TypeOK, CompileFunction
<1>6. /\ sigs' \in Seq([params : Seq({IntType}), rets : Seq({IntType})])
      /\ Len(sigs') = Len(sigs) + 1
  <2>1. sig \in [params : Seq({IntType}), rets : Seq({IntType})]
    BY CompilerAssumption
  <2>2. sigs' = Append(sigs, sig)
    BY DEF CompileFunction
  <2>3. QED
    BY <1>1, <2>1, <2>2 DEF TypeOK
<1>7. /\ locals' \in Seq(Seq({IntType}))
      /\ Len(locals') = Len(locals) + 1
  <2>1. <<>> \in Seq({IntType})
    OBVIOUS
  <2>2. locals' = Append(locals, <<>>)
    BY DEF CompileFunction
  <2>3. QED
    BY <1>1, <2>1, <2>2 DEF TypeOK
<1>8. /\ max_for_loop_level' \in Seq(Nat)
      /\ Len(max_for_loop_level') = Len(max_for_loop_level) + 1
  BY <1>1 DEF TypeOK, CompileFunction
<1>9. symbols' \in [Names -> Symbols]
  <2>1. Symbol("func", Len(t_code), 0) \in Symbols
    BY <1>2 DEF Symbol, Symbols
  <2>2. QED
    BY <1>1, <2>1 DEF TypeOK, CompileFunction
<1>10. Nested(ctx, for_loop_level, func_index, Len(t_code))
  BY NestedIsIInv
<1>11. /\ ctx' = Append(ctx, frame)
       /\ func_index' = Len(t_code)
       /\ NextPhrase
       /\ UNCHANGED <<status, end_addr, for_loop_level>>
  BY DEF CompileFunction, Enter, frame
<1>12. /\ ctx' \in Seq(Frames)
       /\ Nested(ctx', for_loop_level', func_index', Len(t_code'))
  <2>1. /\ Len(t_code) + 1 \in Nat
        /\ Len(t_code) <= Len(t_code) + 1
        /\ {func_index, FunctionOf(frame)} \subseteq 0..((Len(t_code) + 1) - 1)
    BY <1>2, <1>3
  <2>2. /\ Append(ctx, frame) \in Seq(Frames)
        /\ Nested(Append(ctx, frame), for_loop_level + SlotsOf(frame), FunctionOf(frame),
                  Len(t_code) + 1)
    BY <1>2, <1>3, <1>10, <2>1, NestedPush
  <2>3. for_loop_level + SlotsOf(frame) = for_loop_level
    BY <1>2, <1>3
  <2>4. QED
    BY <1>3, <1>4, <1>11, <2>2, <2>3
<1>13. TypeOK'
  <2>1. func_index' \in 0..(Len(t_code') - 1)
    BY <1>2, <1>4, <1>11
  <2>2. {Len(t_jumps'), Len(sigs'), Len(locals'), Len(max_for_loop_level')} = {Len(t_code')}
    BY <1>1, <1>4, <1>5, <1>6, <1>7, <1>8, TablesOfTypeOK
  <2>3. /\ status \in Statuses
        /\ end_addr \in Nat
        /\ for_loop_level \in Nat
        /\ phrases \in Nat
    BY <1>1 DEF TypeOK
  <2>4. phrases' \in Nat
    BY <1>11, <2>3 DEF NextPhrase
  <2>5. QED
    BY <1>4, <1>5, <1>6, <1>7, <1>8, <1>9, <1>11, <1>12, <2>1, <2>2, <2>3, <2>4
       DEF TypeOK
<1>14. QED
  BY <1>12, <1>13, NestedIsIInv

LEMMA FunctionEndKeeps ==
  ASSUME IInv, FunctionEnd
  PROVE  IInv'
<1> DEFINE bytes == IF NeedsRet THEN <<T_OP_RET>> ELSE <<>>
<1>1. TypeOK
  BY DEF IInv
<1>2. /\ ctx # <<>>
      /\ Top.kind = "func"
      /\ for_loop_level = Top.level + SlotsOf(Top)
      /\ Top.func \in 0..(Len(t_code) - 1)
      /\ Top \in Frames
  BY InnermostConstruct DEF FunctionEnd
<1>3. for_loop_level = Top.level
  BY <1>2 DEF SlotsOf, Frames
<1>4. bytes \in Seq(Nat)
  BY DEF T_OP_RET
<1>5. /\ Emit(bytes)
      /\ func_index' = Top.func
      /\ Leave
      /\ NextPhrase
      /\ UNCHANGED <<status, end_addr, for_loop_level, symbols, t_jumps, tables>>
  BY DEF FunctionEnd
<1> HIDE DEF bytes
<1>6. t_code' \in Seq(Seq(Nat)) /\ Len(t_code') = Len(t_code)
  BY <1>1, <1>4, <1>5, EmitType
<1>7. /\ ctx' \in Seq(Frames)
      /\ Nested(ctx', for_loop_level', func_index', Len(t_code'))
  BY <1>2, <1>3, <1>5, <1>6, Closed
<1>8. TypeOK'
  BY SMTT(30), <1>1, <1>2, <1>5, <1>6, <1>7 DEF TypeOK, NextPhrase, tables
<1>9. QED
  BY <1>7, <1>8, NestedIsIInv

LEMMA FinishKeeps ==
  ASSUME IInv, Finish
  PROVE  IInv'
<1>1. TypeOK
  BY DEF IInv
<1>2. <<T_OP_RET>> \in Seq(Nat)
  BY DEF T_OP_RET
<1>3. t_code' \in Seq(Seq(Nat)) /\ Len(t_code') = Len(t_code)
  BY <1>1, <1>2, EmitType DEF Finish
<1>4. TypeOK'
  BY <1>1, <1>3 DEF TypeOK, Finish, tables, Statuses
<1>5. QED
  BY <1>3, <1>4, ConstructsKept DEF Finish

LEMMA UnexpectedKeeps ==
  ASSUME IInv, Unexpected
  PROVE  IInv'
<1>1. phrases' \in Nat
  BY DEF IInv, TypeOK, Unexpected
<1>2. QED
  BY <1>1, Failed DEF Unexpected

LEMMA StutterKeeps ==
  ASSUME IInv, UNCHANGED vars
  PROVE  IInv'
<1>1. TypeOK' /\ Len(t_code') = Len(t_code)
  BY DEF IInv, TypeOK, vars, tables
<1>2. QED
  BY <1>1, ConstructsKept DEF vars

\* The inductive step.
LEMMA NextKeeps ==
  ASSUME IInv, [Next]_vars
  PROVE  IInv'
<1>1. CASE \E op \in LiteralOps : \E v \in Literals : CompileInteger(op, v)
  BY <1>1, CompileIntegerKeeps
<1>2. CASE \E op \in SimpleOps : CompileSimple(op)
  BY <1>2, CompileSimpleKeeps
<1>3. CASE \E n \in Names : CompileSymbol(n)
  BY <1>3, CompileSymbolKeeps
<1>4. CASE \/ \E n \in Names : RefuseSymbol(n)
           \/ \E n \in VarNames : RefuseAssignment(n)
  BY <1>4, RefusalKeeps
<1>5. CASE \E n \in VarNames : CompileVar(n)
  BY <1>5, CompileVarKeeps
<1>6. CASE \E n \in VarNames : CompileAssignment(n)
  BY <1>6, CompileAssignmentKeeps
<1>7. CASE \/ CompileIf \/ ConditionalThen \/ ConditionalElse \/ ConditionalElif
           \/ ConditionalEnd \/ ReturnToElif \/ ReturnFromConditional
  BY <1>7, CompileIfKeeps, ConditionalThenKeeps, ConditionalElseKeeps, ConditionalElifKeeps,
     ConditionalEndKeeps, ReturnToElifKeeps, ReturnFromConditionalKeeps
<1>8. CASE CompileWhile \/ WhileDo \/ WhileEnd
  BY <1>8, CompileWhileKeeps, WhileDoKeeps, WhileEndKeeps
<1>9. CASE CompileFor \/ ForDo \/ ForEnd
  BY <1>9, CompileForKeeps, ForDoKeeps, ForEndKeeps
<1>10. CASE \E n \in LoopNames : \E slots \in {1, 2} : CompileForVar(n, slots)
  BY <1>10, CompileForVarKeeps
<1>11. CASE \E n \in FuncNames : \E sig \in Signatures : CompileFunction(n, sig)
  BY <1>11, CompileFunctionKeeps
<1>12. CASE FunctionEnd \/ Finish \/ Unexpected
  BY <1>12, FunctionEndKeeps, FinishKeeps, UnexpectedKeeps
<1>13. CASE Stopped \/ UNCHANGED vars
  BY <1>13, StutterKeeps DEF Stopped
<1>14. QED
  BY <1>1, <1>2, <1>3, <1>4, <1>5, <1>6, <1>7, <1>8, <1>9, <1>10, <1>11, <1>12, <1>13
     DEF Next, Step

-----------------------------------------------------------------------------
(* The theorems.                                                           *)

LEMMA Inductive == Spec => []IInv
<1>1. Init => IInv
  BY InitKeeps
<1>2. IInv /\ [Next]_vars => IInv'
  BY NextKeeps
<1>3. QED
  BY <1>1, <1>2, PTL DEF Spec

\* The compiler's fields hold what they can hold, and its tables keep one entry
\* per function: in particular no `end' lowers for_loop_level below zero, and
\* func_index always is an index of the table.
THEOREM TypeCorrect == Spec => []TypeOK
<1>1. IInv => TypeOK
  BY DEF IInv
<1>2. QED
  BY <1>1, Inductive, PTL

\* for_loop_level is the sum of the slots of the `for' bodies that are open,
\* however deep constructs nest: compile_for_loop, the only one to raise it, gives
\* back exactly what it took.
THEOREM LevelsAlwaysNest == Spec => []LevelsNest
<1>1. IInv => LevelsNest
  BY DEF IInv
<1>2. QED
  BY <1>1, Inductive, PTL

\* The function that code is appended to is the innermost one whose definition is
\* open: enter_function and leave_function match up.
THEOREM FunctionsAlwaysNest == Spec => []FunctionsNest
<1>1. IInv => FunctionsNest
  BY DEF IInv
<1>2. QED
  BY <1>1, Inductive, PTL

\* What `compile' appends the final RET to is function 0, with no counted loop
\* open: Finish never ends the wrong function.
THEOREM FinishesFunctionZero == Spec => [][Finish => func_index = 0 /\ for_loop_level = 0]_vars
<1>1. IInv /\ Finish => func_index = 0 /\ for_loop_level = 0
  BY DEF IInv, LevelsNest, FunctionsNest, Finish
<1>2. QED
  BY <1>1, Inductive, PTL
===============================================================================
