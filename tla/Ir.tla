---------------------------------- MODULE Ir ----------------------------------
(***************************************************************************)
(* The intermediate representation shared by the compiler, the type        *)
(* checker and the interpreter: an ir_block is a string of bytes, holding  *)
(* one-byte opcodes each followed by its little-endian operand.            *)
(*                                                                         *)
(* A block is a sequence of bytes.  The C code indexes it from 0; At hides *)
(* the difference.  Only the instructions of the modelled subset are       *)
(* named; their numbers are the ones the X-macro lists give them, because  *)
(* the code does compare operand bytes with opcodes (check_last_instruction*)
(* in compiler.c) and does decode operand bytes as opcodes when a jump     *)
(* lands inside an instruction.                                            *)
(***************************************************************************)
EXTENDS Integers, Sequences

CONSTANT ByteBase   \* Number of values of a byte: 256 in the program.

ASSUME ByteBaseAssumption == /\ ByteBase \in Nat
                             /\ ByteBase >= 4
                             /\ ByteBase % 2 = 0

-----------------------------------------------------------------------------
(* T-code: the typed instructions the compiler emits.                      *)

T_OP_NOP           == 0
T_OP_PUSH8         == 1
T_OP_PUSH_INT8     == 5
T_OP_POP           == 17
T_OP_DUPE          == 25
T_OP_EXIT          == 27
T_OP_FOR_DEC_START == 28
T_OP_FOR_DEC       == 29
T_OP_FOR_INC_START == 30
T_OP_FOR_INC       == 31
T_OP_GET_LOOP_VAR  == 32
T_OP_JUMP          == 35
T_OP_JUMP_COND     == 36
T_OP_JUMP_NCOND    == 37
T_OP_LOCAL_GET     == 40
T_OP_LOCAL_SET     == 41
T_OP_CALL8         == 111
T_OP_RET           == 117

T_OP_FOR_STARTS  == {T_OP_FOR_DEC_START, T_OP_FOR_INC_START}
T_OP_FOR_UPDATES == {T_OP_FOR_DEC, T_OP_FOR_INC}

is_t_jump(op) == op \in {T_OP_JUMP, T_OP_JUMP_COND, T_OP_JUMP_NCOND}
                        \cup T_OP_FOR_STARTS \cup T_OP_FOR_UPDATES

\* The length of a T instruction, opcode included, as the write_immediate_*
\* function that emits it fixes it.
t_instruction_size(op) ==
  CASE is_t_jump(op) \/ op \in {T_OP_GET_LOOP_VAR, T_OP_LOCAL_GET, T_OP_LOCAL_SET} -> 3
    [] op \in {T_OP_PUSH8, T_OP_PUSH_INT8, T_OP_CALL8} -> 2
    [] OTHER -> 1

-----------------------------------------------------------------------------
(* W-code: the untyped instructions the type checker emits.                *)

W_OP_NOP           == 0
W_OP_PUSH8         == 1
W_OP_PUSH_INT8     == 5
W_OP_POP           == 17
W_OP_DUPE          == 31
W_OP_EXIT          == 38
W_OP_FOR_DEC_START == 39
W_OP_FOR_DEC       == 40
W_OP_FOR_INC_START == 41
W_OP_FOR_INC       == 42
W_OP_GET_LOOP_VAR  == 43
W_OP_JUMP          == 52
W_OP_JUMP_COND     == 53
W_OP_JUMP_NCOND    == 54
W_OP_LOCAL_GET     == 61
W_OP_LOCAL_SET     == 62
W_OP_CALL8         == 154
W_OP_RET           == 160

W_OP_FOR_STARTS  == {W_OP_FOR_DEC_START, W_OP_FOR_INC_START}
W_OP_FOR_UPDATES == {W_OP_FOR_DEC, W_OP_FOR_INC}

is_w_jump(op) == op \in {W_OP_JUMP, W_OP_JUMP_COND, W_OP_JUMP_NCOND}
                        \cup W_OP_FOR_STARTS \cup W_OP_FOR_UPDATES

get_w_instruction_size(op) ==
  CASE is_w_jump(op) \/ op \in {W_OP_GET_LOOP_VAR, W_OP_LOCAL_GET, W_OP_LOCAL_SET} -> 3
    [] op \in {W_OP_PUSH8, W_OP_PUSH_INT8, W_OP_CALL8} -> 2
    [] OTHER -> 1

-----------------------------------------------------------------------------
(* Bytes and operands.                                                     *)

At(block, i) == block[i + 1]

Words16 == ByteBase * ByteBase

\* Mutant: the bound of an unsigned operand.
InS16_Unsigned(v) == 0 <= v /\ v < Words16

InS16(v) == -(Words16 \div 2) <= v /\ v < Words16 \div 2

\* write_u16: the two bytes of a 16-bit operand, low byte first.  A value that
\* does not fit is truncated, as the conversion to uint16_t truncates it.
U16(v) == <<v % ByteBase, (v \div ByteBase) % ByteBase>>

read_u16(block, i) == At(block, i) + ByteBase * At(block, i + 1)

read_s16(block, i) == LET u == read_u16(block, i)
                      IN  IF u < Words16 \div 2 THEN u ELSE u - Words16

overwrite_s16(block, i, v) == [block EXCEPT ![i + 1] = U16(v)[1],
                                            ![i + 2] = U16(v)[2]]

\* A jump is measured from the byte after the opcode.
JumpDest(block, ip) == ip + 1 + read_s16(block, ip + 1)

-----------------------------------------------------------------------------
(* Reading a block back, for the properties.                               *)

\* The offsets at which an instruction of `block' starts, when it is decoded
\* from its first byte on with the instruction lengths `size'.
InstructionStarts(block, size(_)) ==
  LET start[n \in 0..Len(block)] ==
        IF n = 0 THEN 0
        ELSE LET ip == start[n - 1]
             IN  IF ip < Len(block) THEN ip + size(At(block, ip)) ELSE ip
  IN  {start[n] : n \in DOMAIN start} \cap 0..(Len(block) - 1)

TStarts(block) == InstructionStarts(block, t_instruction_size)
WStarts(block) == InstructionStarts(block, get_w_instruction_size)

TJumps(block) == {ip \in TStarts(block) : is_t_jump(At(block, ip))}
WJumps(block) == {ip \in WStarts(block) : is_w_jump(At(block, ip))}
===============================================================================
