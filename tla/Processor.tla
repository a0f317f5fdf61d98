------------------------------- MODULE Processor -------------------------------
(***************************************************************************)
(* The x86-64 instructions that src/generator.c writes, as the processor   *)
(* runs them, with the calls to printf and ExitProcess.  None of it is     *)
(* under src/.                                                             *)
(*                                                                         *)
(* Memory is counted in words: [rsp+8*k] is Mem("rsp", k).  A register     *)
(* holds a word of Bits[64] bits, or an address; addresses are not scaled. *)
(***************************************************************************)
EXTENDS WordOps

Reg(r)    == [kind |-> "reg", name |-> r, k |-> 0]
Mem(b, k) == [kind |-> "mem", name |-> b, k |-> k]
Imm(v)    == [kind |-> "imm", name |-> "", k |-> v]

rax == Reg("rax")
rdx == Reg("rdx")
rcx == Reg("rcx")
r8  == Reg("r8")
r9  == Reg("r9")
r10 == Reg("r10")
r12 == Reg("r12")
rbp == Reg("rbp")
rsp == Reg("rsp")
char_print_buf == Mem("data", 0)
Registers == {"rax", "rdx", "rcx", "r8", "r9", "r10", "r12", "rbp", "rsp", "data"}

\* An instruction; n is the width it works on, cc the condition it asks for.
X2(op, dst, src) == [op |-> op, dst |-> dst, src |-> src, n |-> 64, cc |-> ""]
X1(op, dst)      == X2(op, dst, dst)
Wide(n, x)       == [x EXCEPT !.n = n]   \* edx, dx or dl for rdx
If(op, cc, dst, src) == [X2(op, dst, src) EXCEPT !.cc = cc]

mov(dst, src) == X2("mov", dst, src)
push(src)     == X1("push", src)
pop(dst)      == X1("pop", dst)
-----------------------------------------------------------------------------
\* What is in a register or in memory that nobody has put there.
Unknown == Span(64) - 1

Value(m, o) ==
  CASE o.kind = "reg" -> m.reg[o.name]
    [] o.kind = "mem" -> m.mem[m.reg[o.name] + o.k]
    [] o.kind = "imm" -> o.k
Put(m, o, v) ==
  IF o.kind = "reg" THEN [m EXCEPT !.reg[o.name] = v]
  ELSE [m EXCEPT !.mem[m.reg[o.name] + o.k] = v]

\* The flags are kept as the two numbers that were compared last.
Holds(cc, flags) ==
  LET a == flags[1]  b == flags[2]
      x == SignedValue(64, a)  y == SignedValue(64, b)
  IN CASE cc = "e"  -> a = b   [] cc = "ne" -> a # b
       [] cc = "l"  -> x < y   [] cc = "le" -> x <= y
       [] cc = "g"  -> x > y   [] cc = "ge" -> x >= y
       [] cc = "b"  -> a < b   [] cc = "be" -> a <= b
       [] cc = "a"  -> a > b   [] cc = "ae" -> a >= b
       [] cc = "s"  -> SignedValue(64, InWord(a - b)) < 0

Bit(w, i) == (w \div 2^i) % 2
Bitwise2(f(_, _), a, b) ==
  FoldSet(LAMBDA i, sum : sum + 2^i * f(Bit(a, i), Bit(b, i)), 0, 0..(Bits[64] - 1))
Xor(a, b) == Bitwise2(LAMBDA x, y : (x + y) % 2, a, b)
And(a, b) == Bitwise2(LAMBDA x, y : x * y, a, b)

\* div and idiv of rdx:rax.
Divide(m, op, divisor) ==
  LET both == m.reg["rdx"] * Span(64) + m.reg["rax"]
      Signed128 == IF m.reg["rdx"] < Span(64) \div 2 THEN both ELSE both - Span(64) * Span(64)
      x == IF op = "div" THEN both ELSE Signed128
      y == IF op = "div" THEN divisor ELSE SignedValue(64, divisor)
      Fit == IF op = "div" THEN AllWords ELSE -(Span(64) \div 2)..(Span(64) \div 2 - 1)
  IN IF y = 0 \/ Quotient(x, y) \notin Fit THEN [m EXCEPT !.trapped = TRUE]
     ELSE [m EXCEPT !.reg["rax"] = InWord(Quotient(x, y)),
                    !.reg["rdx"] = InWord(Remainder(x, y))]

\* A call to printf(format, value): the format is in rcx, the value in rdx.  The
\* callee may change these registers, and the memory below the caller's stack
\* with the four words the caller sets aside.
Formats == [u64 |-> "u64", s64 |-> "s64", bool_false |-> "false", bool_true |-> "true",
            char |-> "char", string |-> "string"]
CallPrintf(m) ==
  LET v == m.reg["rdx"]  format == m.reg["rcx"]
      Changed == {"rax", "rdx", "rcx", "r8", "r9", "r10"}
  IN [m EXCEPT
        !.out = CASE format = Formats.s64        -> <<SignedValue(64, v)>>
                  [] format = Formats.bool_true  -> <<1>>
                  [] format = Formats.bool_false -> <<0>>
                  [] format = Formats.char       -> <<m.mem[v]>>
                  [] format \in {Formats.u64, Formats.string} -> <<v>>,
        !.reg = [r \in Registers |-> IF r \in Changed THEN Unknown ELSE @[r]],
        !.mem = [a \in DOMAIN @ |-> IF a < m.reg["rsp"] + 4 THEN Unknown ELSE @[a]]]

Exec(m, x) ==
  LET a == Value(m, x.dst)  b == Value(m, x.src)
      Narrowed(v) == IF x.n = 32 THEN v % Span(32) ELSE v
      ByBytes == 2^(x.src.k * Bits[8])
  IN CASE x.op = "mov"  -> Put(m, x.dst, Narrowed(b))
       [] x.op = "push" -> Put([m EXCEPT !.reg["rsp"] = @ - 1], Mem("rsp", 0), a)
       [] x.op = "pop"  -> Put([m EXCEPT !.reg["rsp"] = @ + 1], x.dst, m.mem[m.reg["rsp"]])
       [] x.op = "xchg" -> Put(Put(m, x.dst, b), x.src, a)
       [] x.op = "lea"  -> Put(m, x.dst, m.reg[x.src.name] + x.src.k)
       [] x.op = "lea_rdx" ->   \* lea dst, [src+rdx*8]
            Put(m, x.dst, m.reg[x.src.name] + x.src.k + SignedValue(64, m.reg["rdx"]))
       [] x.op = "and_spl" -> [m EXCEPT !.reg["rsp"] = @ - (@ % 2)]   \* and spl, 0F0h
       [] x.op = "add"  -> Put(m, x.dst, InWord(a + b))
       [] x.op = "sub"  -> Put(m, x.dst, InWord(a - b))
       [] x.op = "imul" -> Put(m, x.dst, InWord(a * b))
       [] x.op = "xor"  -> Put(m, x.dst, Xor(a, b))
       [] x.op = "and"  -> Put(m, x.dst, And(a, b))
       [] x.op = "shl"  -> Put(m, x.dst, InWord(a * 2^b))
       [] x.op = "shl_bytes" -> Put(m, x.dst, InWord(a * ByBytes))
       [] x.op = "shr_bytes" -> Put(m, x.dst, a \div ByBytes)
       [] x.op = "neg"  -> [Put(m, x.dst, InWord(-a)) EXCEPT !.flags = <<0, a>>]
       [] x.op = "cmp"  -> [m EXCEPT !.flags = <<Narrowed(a), Narrowed(b)>>]
       [] x.op = "test" -> [m EXCEPT !.flags = <<a, 0>>]
       [] x.op = "cmov" -> Put(m, x.dst, Narrowed(IF Holds(x.cc, m.flags) THEN b ELSE a))
       [] x.op = "set"  -> Put(m, x.dst, (a - (a % Span(8))) + Truth(Holds(x.cc, m.flags)))
       [] x.op = "movzx" -> Put(m, x.dst, b % Span(x.n))
       [] x.op = "movsx" -> Put(m, x.dst, InWord(SignedValue(x.n, b)))
       [] x.op = "cqo"  -> Put(m, x.dst, IF SignedValue(64, m.reg["rax"]) < 0 THEN InWord(-1) ELSE 0)
       [] x.op \in {"div", "idiv"} -> Divide(m, x.op, a)
       [] x.op = "call_printf" -> CallPrintf(m)
       [] x.op = "call_ExitProcess" -> [m EXCEPT !.out = <<SignedValue(32, m.reg["rcx"])>>]

RunAssembly(code, m) ==
  LET after[k \in 0..Len(code)] ==   \* the first k instructions
        IF k = 0 THEN m
        ELSE LET before == after[k - 1]
             IN IF before.trapped THEN before ELSE Exec(before, code[k])
  IN after[Len(code)]
=============================================================================
