------------------------------- MODULE Codegen --------------------------------
(***************************************************************************)
(* The code generator of src/generator.c: the x86-64 instructions it       *)
(* writes for a W-instruction.                                             *)
(*                                                                         *)
(* The two topmost words of the main stack are kept in rax and rdx, the    *)
(* others in memory at rsp; every instruction finds and leaves them there. *)
(*                                                                         *)
(* Not modelled: the floating point instructions, and the routines         *)
(* decode_utf8 and its like.                                               *)
(***************************************************************************)
EXTENDS Processor

Upto(n, x(_)) == [i \in 1..n |-> x(i)]

\* generate_popn and generate_dupen
generate_popn(n) ==
  IF n = 1 THEN <<mov(rdx, rax), pop(rax)>>
  ELSE (IF n >= 3 THEN <<X2("lea", rsp, Mem("rsp", n - 2))>> ELSE <<>>) \o <<pop(rdx), pop(rax)>>
generate_dupen(n) ==
  IF n = 1 THEN <<push(rax), mov(rax, rdx)>>
  ELSE <<push(rax), push(rdx)>> \o Upto(n - 2, LAMBDA i : push(Mem("rsp", n - 1)))

\* Mutant: the low fields come first.
generate_pack_instruction_Reversed(sizes) ==
  LET n == Len(sizes)
      Field(i) == <<X2("shl_bytes", rdx, Imm(sizes[i])), X2("xor", rdx, rax), pop(rax)>>
  IN FlattenSeq(Upto(n - 1, LAMBDA i : Field(i)))

\* generate_pack_instruction: from the last field but one down to the first.
generate_pack_instruction(sizes) ==
  LET n == Len(sizes)
      Field(i) == <<X2("shl_bytes", rdx, Imm(sizes[i])), X2("xor", rdx, rax), pop(rax)>>
  IN FlattenSeq(Upto(n - 1, LAMBDA i : Field(n - i)))
generate_unpack_instruction(sizes) ==
  LET Field(i) == <<push(rax),
                    IF sizes[i] = 4 THEN Wide(32, mov(rax, rdx))
                    ELSE Wide(8 * sizes[i], X2("movzx", rax, rdx)),
                    X2("shr_bytes", rdx, Imm(sizes[i]))>>
  IN FlattenSeq(Upto(Len(sizes) - 1, Field))

\* Offsets and sizes in a pack are in bytes.
generate_pack_field_get(offset, size) ==
  <<push(rax), mov(rax, rdx)>>
    \o (IF offset > 0 THEN <<X2("shr_bytes", rdx, Imm(offset))>> ELSE <<>>)
    \o (CASE size = 8 -> <<>>
          [] size = 4 -> <<Wide(32, mov(rdx, rdx))>>
          [] OTHER    -> <<Wide(8 * size, X2("movzx", rdx, rdx))>>)
generate_pack_field_set(offset, size) ==
  LET mask == Span(64) - 1 - (2^(size * Bits[8]) - 1) * 2^(offset * Bits[8])
  IN (IF offset > 0 THEN <<X2("shl_bytes", rdx, Imm(offset))>> ELSE <<>>)
       \o (IF mask < Span(32) \div 2 THEN <<X2("and", rax, Imm(mask))>>
           ELSE <<mov(rcx, Imm(mask)), X2("and", rax, rcx)>>)
       \o <<X2("xor", rdx, rax), pop(rax)>>

generate_comp_field_get(offset) ==
  <<push(rax), mov(rax, rdx)>>
    \o (IF offset > 1 THEN <<mov(rdx, Mem("rsp", offset - 2))>> ELSE <<>>)
generate_comp_field_set(offset) ==
  CASE offset > 2 -> <<mov(Mem("rsp", offset - 2), rdx), mov(rdx, rax), pop(rax)>>
    [] offset = 2 -> <<X2("xchg", rax, rdx), pop(rcx)>>
    [] OTHER      -> <<pop(rax)>>

\* When one word is left above the subcomp, rdx is not loaded.
generate_subcomp_get(offset, size) ==
  IF size = 1 THEN generate_comp_field_get(offset)
  ELSE <<push(rax), push(rdx)>> \o Upto(size - 2, LAMBDA i : push(Mem("rsp", offset - 1)))
         \o (IF offset >= size + 1 THEN <<mov(rax, Mem("rsp", offset - 1))>> ELSE <<>>)
         \o (IF offset >= size + 2 THEN <<mov(rdx, Mem("rsp", offset - 2))>> ELSE <<>>)
generate_subcomp_set(offset, size) ==
  IF size = 1 THEN generate_comp_field_set(offset)
  ELSE Upto(size - 2, LAMBDA i : pop(Mem("rsp", offset - 4)))
         \o (IF offset >= size + 1 THEN <<mov(Mem("rsp", offset - size), rdx), pop(rdx)>>
             ELSE <<pop(rcx)>>)
         \o (IF offset >= size + 2 THEN <<mov(Mem("rsp", offset - size + 1), rax), pop(rax)>>
             ELSE <<pop(rcx)>>)
-----------------------------------------------------------------------------
\* generate_swap_comps: blocks of words are moved through rcx, and the smaller of
\* two that overlap is saved below the stack.

Moved(from, to) == <<mov(rcx, from), mov(to, rcx)>>

shift_block_down(size, count) ==
  FlattenSeq(Upto(size - 2, LAMBDA i : Moved(Mem("rsp", size - 2 - i), Mem("rsp", size - 2 - i + count))))
    \o (IF size >= 2 THEN <<mov(Mem("rsp", count - 1), rax)>> ELSE <<>>)
    \o (IF count >= 2 THEN <<mov(Mem("rsp", count - 2), rdx)>> ELSE <<mov(rax, rdx)>>)
shift_block_up(size, count) ==
  (IF count >= 2 THEN <<mov(rdx, Mem("rsp", count - 2))>> ELSE <<mov(rdx, rax)>>)
    \o (IF size >= 2 THEN <<mov(rax, Mem("rsp", count - 1))>> ELSE <<>>)
    \o FlattenSeq(Upto(size - 2, LAMBDA i : Moved(Mem("rsp", i - 1 + count), Mem("rsp", i - 1))))

\* The words of a block that are in registers, and those that are in memory.
InRegisters(start) == CASE start = 0 -> 2 [] start = 1 -> 1 [] OTHER -> 0
save_block(start, size) ==
  (IF start = 0 THEN <<mov(Mem("rsp", -size), rdx)>> ELSE <<>>)
    \o (IF start <= 1 THEN <<mov(Mem("rsp", -(size - 1 + start)), rax)>> ELSE <<>>)
    \o FlattenSeq([j \in 1..size - InRegisters(start) |->
          LET i == InRegisters(start) + j - 1
          IN Moved(Mem("rsp", start + i - 2), Mem("rsp", -(size - i)))])
restore_block(start, size) ==
  (IF start = 0 THEN <<mov(rdx, Mem("rsp", -size))>> ELSE <<>>)
    \o (IF start <= 1 THEN <<mov(rax, Mem("rsp", -(size - 1 + start)))>> ELSE <<>>)
    \o FlattenSeq([j \in 1..size - InRegisters(start) |->
          LET i == InRegisters(start) + j - 1
          IN Moved(Mem("rsp", -(size - i)), Mem("rsp", start + i - 2))])

\* Two blocks of the same size.
exchange_blocks(size) ==
  LET Exchange(i) == <<mov(rcx, Mem("rsp", i - 2)), mov(r8, Mem("rsp", i + size - 2)),
                       mov(Mem("rsp", i - 2), r8), mov(Mem("rsp", i + size - 2), rcx)>>
  IN <<mov(rcx, rdx), mov(rdx, Mem("rsp", size - 2)), mov(Mem("rsp", size - 2), rcx),
       mov(rcx, rax), mov(rax, Mem("rsp", size - 1)), mov(Mem("rsp", size - 1), rcx)>>
     \o FlattenSeq(Upto(size - 2, LAMBDA i : Exchange(i + 1)))

generate_swap_comps(lhs, rhs) ==
  CASE lhs = 1 /\ rhs = 1 -> <<mov(rcx, rax), mov(rax, rdx), mov(rdx, rcx)>>
    [] lhs = 1 /\ rhs > 1 ->
         <<mov(r8, Mem("rsp", rhs - 2))>> \o shift_block_down(rhs, 1) \o <<mov(rdx, r8)>>
    [] lhs > 1 /\ rhs = 1 ->
         <<mov(r8, rdx)>> \o shift_block_up(lhs, 1) \o <<mov(Mem("rsp", lhs - 2), r8)>>
    [] lhs > 1 /\ rhs = lhs -> exchange_blocks(rhs)
    [] lhs > 1 /\ lhs < rhs ->
         save_block(rhs, lhs) \o shift_block_down(rhs, lhs) \o restore_block(0, lhs)
    [] OTHER -> save_block(0, rhs) \o shift_block_up(lhs, rhs) \o restore_block(lhs, rhs)
-----------------------------------------------------------------------------
\* Arrays.  Only an element of a power of two of words has code that an assembler
\* takes: there is no `mul' with a constant.

\* Mutant: the index is not scaled by the size of the elements.
ScaleIndex_Never(words) == <<X1("neg", rdx)>>
ScaleIndex(words) ==
  (IF words > 1 THEN <<X2("shl", rdx, Imm(CHOOSE k \in 0..words : words = 2^k))>> ELSE <<>>)
    \o <<X1("neg", rdx)>>
generate_array_get(count, words) ==
  ScaleIndex(words)
    \o <<X2("lea_rdx", rcx, Mem("rsp", (count - 1) * words)), X2("cmp", rcx, rsp),
         If("cmov", "e", rdx, rax), If("cmov", "ne", rdx, Mem("rcx", -1))>>
    \o (IF words <= 1 THEN <<>>
        ELSE <<push(rax), mov(rax, Mem("rcx", 0))>>
               \o Upto(words - 2, LAMBDA i : push(Mem("rcx", words - 1 - i))))
generate_array_set(count, words) ==
  ScaleIndex(words)
    \o <<X2("lea_rdx", rcx, Mem("rsp", count * words - 1)), mov(Mem("rcx", 0), rax)>>
    \o Upto(words - 1, LAMBDA i : pop(Mem("rcx", i)))
    \o <<pop(rdx), pop(rax)>>
-----------------------------------------------------------------------------
\* Operators.

\* After the instruction the word under the operands is in rax again.
Comparison(cc) ==
  <<X2("cmp", rax, rdx), If("set", cc, rax, rax), Wide(8, X2("movzx", rdx, rax)), pop(rax)>>
Condition == [EQUALS |-> "e", NOT_EQUALS |-> "ne", LESS_THAN |-> "l", LESS_EQUALS |-> "le",
              GREATER_THAN |-> "g", GREATER_EQUALS |-> "ge", LOWER_THAN |-> "b",
              LOWER_SAME |-> "be", HIGHER_THAN |-> "a", HIGHER_SAME |-> "ae"]

\* r8 is the absolute value of the divisor; r10, the comment says, minus its sign.
Edivmod ==
  <<mov(rcx, rdx), mov(r8, rcx), X1("neg", r8), If("cmov", "s", r8, rcx),
    If("set", "g", r9, r9), Wide(8, X2("movzx", r9, r9)),
    If("set", "l", r10, r10), Wide(8, X2("movzx", r10, r10)), X2("sub", r10, r9),
    X1("cqo", rdx), X1("idiv", rcx), X2("add", r10, rax), X2("add", r8, rdx),
    X2("test", rdx, rdx), If("cmov", "s", rax, r10), If("cmov", "s", rdx, r8)>>

Test(cc) == <<X2("test", rdx, rdx), If("set", cc, rdx, rdx), Wide(8, X2("movzx", rdx, rdx))>>
ToCodepoint ==
  <<mov(rcx, Imm(0)), X2("test", rdx, rdx), Wide(32, If("cmov", "s", rdx, rcx)),
    mov(rcx, Imm(UnicodeMax)), Wide(32, X2("cmp", rdx, rcx)), If("cmov", "a", rdx, rcx)>>

\* The word under the top is kept in r12, and rsp in rbp, across the call.
\* Mutant: it is kept in r8.
Printing_InR8(before) ==
  <<mov(r8, rax)>> \o before
    \o <<mov(rbp, rsp), X1("and_spl", rsp), X2("lea", rsp, Mem("rsp", -4)),
         X1("call_printf", rcx), mov(rsp, rbp), mov(rdx, r8), pop(rax)>>
Printing(before) ==
  <<mov(r12, rax)>> \o before
    \o <<mov(rbp, rsp), X1("and_spl", rsp), X2("lea", rsp, Mem("rsp", -4)),
         X1("call_printf", rcx), mov(rsp, rbp), mov(rdx, r12), pop(rax)>>
PrintString ==
  <<mov(r8, rax), mov(rcx, Imm(Formats.string)), mov(rbp, rsp), X1("and_spl", rsp),
    X2("lea", rsp, Mem("rsp", -4)), X1("call_printf", rcx), mov(rsp, rbp), pop(rdx), pop(rax)>>

PrintAssembly(op) ==
  CASE op = "PRINT"     -> Printing(<<mov(rcx, Imm(Formats.u64))>>)
    [] op = "PRINT_INT" -> Printing(<<mov(rcx, Imm(Formats.s64))>>)
    [] op = "PRINT_BOOL" ->
         Printing(<<mov(rcx, Imm(Formats.bool_false)), mov(rax, Imm(Formats.bool_true)),
                    X2("test", rdx, rdx), If("cmov", "ne", rcx, rax)>>)
    [] op = "PRINT_CHAR" ->
         Printing(<<mov(char_print_buf, rdx), X2("lea", rdx, char_print_buf),
                    mov(rcx, Imm(Formats.char))>>)
    [] op = "PRINT_STRING" -> PrintString

ExtensionAssembly(w) ==
  LET r == IF w.under THEN rax ELSE rdx
  IN <<Wide(WidthOf(w.op), X2(IF w.op \in SignExtensions THEN "movsx" ELSE "movzx", r, r))>>

DivisionAssembly(op) ==
  CASE op = "DIVMOD"  -> <<mov(rcx, rdx), X2("xor", rdx, rdx), X1("div", rcx)>>
    [] op = "IDIVMOD" -> <<mov(rcx, rdx), X1("cqo", rdx), X1("idiv", rcx)>>
    [] op = "EDIVMOD" -> Edivmod

PackAssembly(w) ==
  IF w.op = "PACK" THEN generate_pack_instruction(w.sizes) ELSE generate_unpack_instruction(w.sizes)

FieldAssembly(w) ==
  CASE w.op = "PACK_FIELD_GET" -> generate_pack_field_get(w.n, w.m)
    [] w.op = "PACK_FIELD_SET" -> generate_pack_field_set(w.n, w.m)
    [] w.op = "COMP_FIELD_GET" -> generate_comp_field_get(w.n)
    [] w.op = "COMP_FIELD_SET" -> generate_comp_field_set(w.n)
    [] w.op = "COMP_SUBCOMP_GET" -> generate_subcomp_get(w.n, w.m)
    [] w.op = "COMP_SUBCOMP_SET" -> generate_subcomp_set(w.n, w.m)
    [] w.op = "ARRAY_GET" -> generate_array_get(w.n, w.m)
    [] w.op = "ARRAY_SET" -> generate_array_set(w.n, w.m)

Prints == {"PRINT", "PRINT_INT", "PRINT_BOOL", "PRINT_CHAR", "PRINT_STRING"}
Fields ==
  {"PACK_FIELD_GET", "PACK_FIELD_SET", "COMP_FIELD_GET", "COMP_FIELD_SET",
   "COMP_SUBCOMP_GET", "COMP_SUBCOMP_SET", "ARRAY_GET", "ARRAY_SET"}

PushAssembly(n) == <<push(rax), mov(rax, rdx), mov(rdx, Imm(n))>>

Assembly(w) ==
  CASE w.op = "PUSH"  -> PushAssembly(w.n)
    [] w.op = "POPN"  -> generate_popn(w.n)
    [] w.op = "DUPEN" -> generate_dupen(w.n)
    [] w.op = "ADD"   -> <<X2("add", rdx, rax), pop(rax)>>
    \* a + (-b)
    [] w.op = "SUB"   -> <<X1("neg", rdx), X2("add", rdx, rax), pop(rax)>>
    [] w.op = "MULT"  -> <<X2("imul", rdx, rax), pop(rax)>>
    [] w.op = "AND"   -> <<X2("test", rax, rax), If("cmov", "e", rdx, rax), pop(rax)>>
    [] w.op = "OR"    -> <<X2("test", rax, rax), If("cmov", "ne", rdx, rax), pop(rax)>>
    [] w.op \in DOMAIN Condition -> Comparison(Condition[w.op])
    [] w.op \in Divisions -> DivisionAssembly(w.op)
    [] w.op = "NEG"     -> <<X1("neg", rdx)>>
    [] w.op = "NOT"     -> Test("e")
    [] w.op = "ICONVB"  -> Test("ne")
    [] w.op = "ICONVC32" -> ToCodepoint
    [] w.op \in SignExtensions \cup ZeroExtensions -> ExtensionAssembly(w)
    [] w.op \in Prints -> PrintAssembly(w.op)
    [] w.op = "EXIT" -> <<mov(rcx, rdx), X1("call_ExitProcess", rcx)>>
    [] w.op = "SWAP_COMPS" -> generate_swap_comps(w.n, w.m)
    [] w.op \in {"PACK", "UNPACK"} -> PackAssembly(w)
    [] w.op \in Fields -> FieldAssembly(w)

Generated(code) == FlattenSeq([k \in DOMAIN code |-> Assembly(code[k])])

NotGenerated ==
  FloatArithmetic \cup FloatComparisons \cup
  {"ICONVF", "NEGF", "FPROM", "FDEM", "FCONVI", "FCONVB", "DEREF", "PRINT_FLOAT",
   "CHAR_8CONV32", "CHAR_16CONV32", "CHAR_32CONV8", "CHAR_32CONV16"}
-----------------------------------------------------------------------------
\* A machine whose main stack is s.  Two words lie under it: what was in rax and
\* rdx when the program began.  The memory further up is not the program's.
Loaded(s) ==
  LET all == <<Unknown, Unknown>> \o s
      n == Len(s)
  IN [reg |-> [r \in Registers |->
                 CASE r = "rsp" -> -n [] r = "rax" -> all[n + 1] [] r = "rdx" -> all[n + 2]
                   [] r = "data" -> 4 [] OTHER -> Unknown],
      mem |-> [a \in (-n - 8)..8 |-> IF a \in -n..-1 THEN all[-a] ELSE Unknown],
      flags |-> <<0, 0>>, out |-> <<>>, trapped |-> FALSE]

\* The main stack of a machine, with the two words under it.
Unloaded(m) ==
  [i \in 1..-m.reg["rsp"] |-> m.mem[-i]] \o <<m.reg["rax"], m.reg["rdx"]>>

\* What the machine leaves is the stack s and the output.
Leaves(m, s, out) == Unloaded(m) = <<Unknown, Unknown>> \o s /\ m.out = out
=============================================================================
