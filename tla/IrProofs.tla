------------------------------ MODULE IrProofs -------------------------------
(***************************************************************************)
(* Proofs about the code blocks of src/ir.c, for every block and every byte*)
(* size: where the instructions of a block begin, what an operand that is  *)
(* emitted or patched reads as, and what appending an instruction and      *)
(* patching a jump leave as it was.                                        *)
(*                                                                         *)
(* TStarts follows the instructions of a block from offset 0 by recursion. *)
(* Its value is characterised without recursion: it is the one set that    *)
(* Decodes holds of.  Two such sets are equal because the least offset in  *)
(* which they differ would have a predecessor in which they do not.        *)
(***************************************************************************)
EXTENDS Ir, SequenceTheorems, WellFoundedInduction, TLAPS

\* The order of the natural numbers, as a relation.
Less == {pair \in Nat \X Nat : pair[1] < pair[2]}

LEMMA LeastElement ==
  ASSUME NEW S, S \subseteq Nat, S # {}
  PROVE  \E m \in S : \A k \in S : m <= k
<1>1. IsWellFoundedOn(Less, Nat)
  BY NatLessThanWellFounded DEF OpToRel, Less
<1>2. PICK m \in S : \A k \in S : ~(<<k, m>> \in Less)
  BY <1>1, WFMin, Zenon
<1>3. ASSUME NEW k \in S PROVE m <= k
  <2>1. ~(<<k, m>> \in Less)
    BY <1>2
  <2>2. QED
    BY <2>1 DEF Less
<1>4. QED
  BY <1>3

LEMMA SetInduction ==
  ASSUME NEW S, 0 \in S, \A n \in Nat : n \in S => n + 1 \in S
  PROVE  Nat \subseteq S
<1>1. SUFFICES ASSUME Nat \ S # {} PROVE FALSE
  OBVIOUS
<1>2. PICK m \in Nat \ S : \A k \in Nat \ S : m <= k
  BY <1>1, LeastElement
<1>3. m - 1 \in Nat /\ m - 1 \in S
  BY <1>2
<1>4. QED
  BY <1>2, <1>3

-----------------------------------------------------------------------------
(* Following instructions.                                                 *)

\* The length of an instruction of T-code or of W-code, and what follows the one at
\* ip.
SizeIn(code, op) == IF code = "t" THEN t_instruction_size(op) ELSE get_w_instruction_size(op)

After(code, block, ip) == ip + SizeIn(code, At(block, ip))

LEMMA SizeInType ==
  ASSUME NEW code, NEW op
  PROVE  SizeIn(code, op) \in {1, 2, 3}
<1>1. t_instruction_size(op) \in {1, 2, 3}
  BY DEF t_instruction_size
<1>2. get_w_instruction_size(op) \in {1, 2, 3}
  BY DEF get_w_instruction_size
<1>3. QED
  BY <1>1, <1>2 DEF SizeIn

LEMMA AfterType ==
  ASSUME NEW code, NEW block, NEW ip \in Nat
  PROVE  After(code, block, ip) \in Nat /\ After(code, block, ip) > ip
BY SizeInType DEF After

\* The walk over a block: where it is after n instructions.
WalkStep(code, block, len, ip) == IF ip < len THEN After(code, block, ip) ELSE ip

\* f is the walk of n instructions from offset 0.
Walk(f, n, code, block, len) ==
  f = [k \in 0..n |-> IF k = 0 THEN 0 ELSE WalkStep(code, block, len, f[k - 1])]

LEMMA WalkStepType ==
  ASSUME NEW code, NEW block, NEW len, NEW ip \in Nat
  PROVE  WalkStep(code, block, len, ip) \in Nat
BY AfterType DEF WalkStep

LEMMA WalkFrom ==
  ASSUME NEW code, NEW block, NEW len, NEW n \in Nat, NEW f, Walk(f, n, code, block, len)
  PROVE  f[0] = 0
<1>1. 0 \in 0..n
  OBVIOUS
<1>2. f[0] = IF 0 = 0 THEN 0 ELSE WalkStep(code, block, len, f[0 - 1])
  BY <1>1, Zenon DEF Walk
<1>3. QED
  BY <1>2, Zenon

LEMMA WalkIs ==
  ASSUME NEW code, NEW block, NEW len, NEW n \in Nat, NEW f, Walk(f, n, code, block, len)
  PROVE  \A k \in Nat : k < n => f[k + 1] = WalkStep(code, block, len, f[k])
<1>1. SUFFICES ASSUME NEW k \in Nat, k < n
               PROVE  f[k + 1] = WalkStep(code, block, len, f[k])
  OBVIOUS
<1>2. k + 1 \in 0..n /\ k + 1 # 0 /\ (k + 1) - 1 = k
  BY <1>1
<1>3. \A i \in 0..n : f[i] = IF i = 0 THEN 0 ELSE WalkStep(code, block, len, f[i - 1])
  BY Zenon DEF Walk
<1>4. QED
  BY <1>2, <1>3

LEMMA WalkType ==
  ASSUME NEW code, NEW block, NEW len, NEW n \in Nat, NEW f, Walk(f, n, code, block, len)
  PROVE  f \in [0..n -> Nat]
<1> DEFINE I == {k \in Nat : k <= n => f[k] \in Nat}
<1>1. 0 \in I
  <2>1. f[0] = 0
    BY WalkFrom
  <2>2. QED
    BY <2>1
<1>2. ASSUME NEW k \in Nat, k \in I PROVE k + 1 \in I
  <2>1. SUFFICES ASSUME k + 1 <= n PROVE f[k + 1] \in Nat
    OBVIOUS
  <2>2. f[k] \in Nat /\ k < n
    BY <1>2, <2>1
  <2>3. f[k + 1] = WalkStep(code, block, len, f[k])
    BY <2>2, WalkIs
  <2>4. QED
    BY <2>2, <2>3, WalkStepType
<1> HIDE DEF I
<1>3. Nat \subseteq I
  BY <1>1, <1>2, SetInduction
<1>4. \A k \in 0..n : f[k] \in Nat
  BY <1>3 DEF I
<1>5. f = [k \in 0..n |-> f[k]]
  BY DEF Walk
<1>6. QED
  BY <1>4, <1>5

LEMMA WalkExists ==
  ASSUME NEW code, NEW block, NEW len, NEW n \in Nat
  PROVE  \E f : Walk(f, n, code, block, len)
<1> DEFINE S == {k \in Nat : \E f : Walk(f, k, code, block, len)}
<1>1. 0 \in S
  <2> DEFINE f == [k \in 0..0 |-> 0]
  <2>1. Walk(f, 0, code, block, len)
    BY DEF Walk
  <2>2. QED
    BY <2>1
<1>2. ASSUME NEW k \in Nat, k \in S PROVE k + 1 \in S
  <2>1. PICK f : Walk(f, k, code, block, len)
    BY <1>2
  <2> DEFINE g == [i \in 0..(k + 1) |->
                     IF i = k + 1 THEN WalkStep(code, block, len, f[k]) ELSE f[i]]
  <2>2. ASSUME NEW i \in 0..(k + 1)
        PROVE  g[i] = IF i = 0 THEN 0 ELSE WalkStep(code, block, len, g[i - 1])
    <3>1. CASE i = 0
      BY <2>1, <3>1, WalkFrom
    <3>2. CASE i = k + 1
      BY <3>2
    <3>3. CASE i # 0 /\ i # k + 1
      <4>1. i - 1 \in Nat /\ i - 1 < k /\ (i - 1) + 1 = i
        BY <3>3
      <4>2. f[i] = WalkStep(code, block, len, f[i - 1])
        <5>1. \A j \in Nat : j < k => f[j + 1] = WalkStep(code, block, len, f[j])
          BY <2>1, WalkIs
        <5>2. QED
          BY <4>1, <5>1
      <4>3. g[i] = f[i] /\ g[i - 1] = f[i - 1]
        BY <3>3
      <4>4. QED
        BY <3>3, <4>2, <4>3
    <3>4. QED
      BY <3>1, <3>2, <3>3
  <2>3. DOMAIN g = 0..(k + 1) /\ g = [i \in 0..(k + 1) |-> g[i]]
    OBVIOUS
  <2> HIDE DEF g
  <2>4. Walk(g, k + 1, code, block, len)
    BY <2>2, <2>3 DEF Walk
  <2>5. \E h : Walk(h, k + 1, code, block, len)
    BY <2>4
  <2>6. k + 1 \in Nat
    OBVIOUS
  <2>7. QED
    BY <2>5, <2>6
<1> HIDE DEF S
<1>3. Nat \subseteq S
  BY <1>1, <1>2, SetInduction
<1>4. QED
  BY <1>3 DEF S

-----------------------------------------------------------------------------
(* What the recursion computes.                                            *)

\* S is where the instructions of a block of length len begin.
Decodes(S, code, block, len) ==
  /\ S \subseteq 0..(len - 1)
  /\ len > 0 => 0 \in S
  /\ \A ip \in S : After(code, block, ip) \in S \/ After(code, block, ip) >= len
  /\ \A ip \in S : ip = 0 \/ \E before \in S : After(code, block, before) = ip

LEMMA DecodesOnce ==
  ASSUME NEW code, NEW block, NEW len \in Nat,
         NEW S, Decodes(S, code, block, len), NEW T, Decodes(T, code, block, len)
  PROVE  S = T
<1> DEFINE D == {ip \in Nat : ~(ip \in S <=> ip \in T)}
<1>1. SUFFICES ASSUME D # {} PROVE FALSE
  <2>1. S \subseteq Nat /\ T \subseteq Nat
    BY DEF Decodes
  <2>2. QED
    BY <2>1
<1>2. PICK m \in D : \A k \in D : m <= k
  <2>1. D \subseteq Nat
    OBVIOUS
  <2> HIDE DEF D
  <2>2. QED
    BY <1>1, <2>1, LeastElement
<1>3. m \in 0..(len - 1) /\ m # 0
  BY <1>2 DEF Decodes
<1>4. \A k \in 0..(m - 1) : k \in S <=> k \in T
  BY <1>2
<1>5. \A ip \in S \cup T : ip \in Nat /\ After(code, block, ip) > ip
  BY AfterType DEF Decodes
<1>6. ASSUME m \in S PROVE m \in T
  <2>1. PICK before \in S : After(code, block, before) = m
    BY <1>3, <1>6 DEF Decodes
  <2>2. before \in 0..(m - 1)
    BY <1>3, <1>5, <2>1
  <2>3. QED
    BY <1>3, <1>4, <2>1, <2>2 DEF Decodes
<1>7. ASSUME m \in T PROVE m \in S
  <2>1. PICK before \in T : After(code, block, before) = m
    BY <1>3, <1>7 DEF Decodes
  <2>2. before \in 0..(m - 1)
    BY <1>3, <1>5, <2>1
  <2>3. QED
    BY <1>3, <1>4, <2>1, <2>2 DEF Decodes
<1>8. QED
  BY <1>2, <1>6, <1>7

\* The offsets that a walk comes to.
Reached(f, len) == {f[n] : n \in 0..len} \cap 0..(len - 1)

LEMMA WalkDecodes ==
  ASSUME NEW code, NEW block, NEW len \in Nat, NEW f, Walk(f, len, code, block, len)
  PROVE  Decodes(Reached(f, len), code, block, len)
<1> DEFINE S == {f[n] : n \in 0..len} \cap 0..(len - 1)
<1>1. f[0] = 0 /\ f \in [0..len -> Nat]
  <2>1. f[0] = 0
    BY WalkFrom
  <2>2. f \in [0..len -> Nat]
    BY WalkType
  <2>3. QED
    BY <2>1, <2>2
<1>2. \A n \in Nat : n < len => f[n + 1] = WalkStep(code, block, len, f[n])
  BY WalkIs
<1>3. \A n \in 0..len : f[n] >= n \/ f[n] >= len
  <2> DEFINE I == {n \in Nat : n <= len => f[n] >= n \/ f[n] >= len}
  <2>1. 0 \in I
    BY <1>1
  <2>2. ASSUME NEW n \in Nat, n \in I PROVE n + 1 \in I
    <3>1. SUFFICES ASSUME n + 1 <= len PROVE f[n + 1] >= n + 1 \/ f[n + 1] >= len
      OBVIOUS
    <3>2. f[n] \in Nat /\ (f[n] >= n \/ f[n] >= len)
      BY <1>1, <2>2, <3>1
    <3>3. f[n + 1] = WalkStep(code, block, len, f[n])
      BY <1>2, <3>1
    <3>4. After(code, block, f[n]) > f[n] /\ After(code, block, f[n]) \in Nat
      BY <3>2, AfterType
    <3>5. QED
      BY <3>2, <3>3, <3>4 DEF WalkStep
  <2> HIDE DEF I
  <2>3. Nat \subseteq I
    BY <2>1, <2>2, SetInduction
  <2>4. QED
    BY <2>3 DEF I
<1>4. ASSUME NEW ip \in S
      PROVE  After(code, block, ip) \in S \/ After(code, block, ip) >= len
  <2>1. PICK n \in 0..len : f[n] = ip
    OBVIOUS
  <2>2. n < len /\ n + 1 \in 0..len /\ n \in Nat
    BY <1>1, <1>3, <2>1
  <2>3. ip < len
    OBVIOUS
  <2>4. f[n + 1] = After(code, block, ip)
    BY <1>2, <2>1, <2>2, <2>3 DEF WalkStep
  <2>5. f[n + 1] \in Nat
    BY <1>1, <2>2
  <2>6. QED
    BY <2>2, <2>4, <2>5
<1>5. ASSUME NEW ip \in S, ip # 0 PROVE \E before \in S : After(code, block, before) = ip
  <2>1. PICK n \in 0..len : f[n] = ip
    OBVIOUS
  <2>2. n - 1 \in Nat /\ n - 1 < len /\ (n - 1) + 1 = n /\ n - 1 \in 0..len
    BY <1>1, <1>5, <2>1
  <2>3. f[n] = WalkStep(code, block, len, f[n - 1])
    BY <1>2, <2>2
  <2>4. ip < len /\ f[n - 1] \in Nat
    BY <1>1, <2>2
  <2>5. f[n - 1] < len /\ ip = After(code, block, f[n - 1])
    BY <2>1, <2>3, <2>4 DEF WalkStep
  <2>6. f[n - 1] \in S
    BY <2>2, <2>4, <2>5
  <2>7. QED
    BY <2>5, <2>6
<1>6. len > 0 => 0 \in S
  BY <1>1
<1>7. S \subseteq 0..(len - 1)
  OBVIOUS
<1> HIDE DEF S
<1>8. Decodes(S, code, block, len)
  BY <1>4, <1>5, <1>6, <1>7 DEF Decodes
<1>9. QED
  BY <1>8 DEF S, Reached

LEMMA TStartsDecode ==
  ASSUME NEW block \in Seq(Nat)
  PROVE  Decodes(TStarts(block), "t", block, Len(block))
<1> DEFINE len == Len(block)
           step(start) == [n \in 0..len |->
                             IF n = 0 THEN 0
                             ELSE LET ip == start[n - 1]
                                  IN  IF ip < len
                                      THEN ip + t_instruction_size(At(block, ip)) ELSE ip]
           start == CHOOSE start : start = step(start)
<1>1. len \in Nat
  BY LenProperties
<1>2. TStarts(block) = {start[n] : n \in DOMAIN start} \cap 0..(len - 1)
  BY Zenon DEF TStarts, InstructionStarts
<1> HIDE DEF len
<1>3. \A f, k : WalkStep("t", block, len, f[k])
                  = LET ip == f[k]
                    IN  IF ip < len THEN ip + t_instruction_size(At(block, ip)) ELSE ip
  BY DEF WalkStep, After, SizeIn
<1>4. ASSUME NEW f PROVE Walk(f, len, "t", block, len) <=> f = step(f)
  <2>1. step(f) = [k \in 0..len |-> IF k = 0 THEN 0 ELSE WalkStep("t", block, len, f[k - 1])]
    BY <1>3
  <2>2. QED
    BY <2>1, Zenon DEF Walk
<1>5. \E f : f = step(f)
  BY <1>1, <1>4, WalkExists, Zenon
<1>6. start = step(start)
  BY <1>5, Zenon
<1> HIDE DEF start, step
<1>7. Walk(start, len, "t", block, len)
  BY <1>4, <1>6, Zenon
<1>8. DOMAIN start = 0..len
  BY <1>7, Zenon DEF Walk
<1>9. Decodes(TStarts(block), "t", block, len)
  <2>1. TStarts(block) = Reached(start, len)
    BY <1>2, <1>8, Zenon DEF Reached
  <2>2. Decodes(Reached(start, len), "t", block, len)
    BY <1>1, <1>7, WalkDecodes
  <2>3. QED
    BY <2>1, <2>2, Zenon
<1>10. QED
  BY <1>9 DEF len

LEMMA WStartsDecode ==
  ASSUME NEW block \in Seq(Nat)
  PROVE  Decodes(WStarts(block), "w", block, Len(block))
<1> DEFINE len == Len(block)
           step(start) == [n \in 0..len |->
                             IF n = 0 THEN 0
                             ELSE LET ip == start[n - 1]
                                  IN  IF ip < len
                                      THEN ip + get_w_instruction_size(At(block, ip)) ELSE ip]
           start == CHOOSE start : start = step(start)
<1>1. len \in Nat
  BY LenProperties
<1>2. WStarts(block) = {start[n] : n \in DOMAIN start} \cap 0..(len - 1)
  BY Zenon DEF WStarts, InstructionStarts
<1> HIDE DEF len
<1>3. \A f, k : WalkStep("w", block, len, f[k])
                  = LET ip == f[k]
                    IN  IF ip < len THEN ip + get_w_instruction_size(At(block, ip)) ELSE ip
  BY DEF WalkStep, After, SizeIn
<1>4. ASSUME NEW f PROVE Walk(f, len, "w", block, len) <=> f = step(f)
  <2>1. step(f) = [k \in 0..len |-> IF k = 0 THEN 0 ELSE WalkStep("w", block, len, f[k - 1])]
    BY <1>3
  <2>2. QED
    BY <2>1, Zenon DEF Walk
<1>5. \E f : f = step(f)
  BY <1>1, <1>4, WalkExists, Zenon
<1>6. start = step(start)
  BY <1>5, Zenon
<1> HIDE DEF start, step
<1>7. Walk(start, len, "w", block, len)
  BY <1>4, <1>6, Zenon
<1>8. DOMAIN start = 0..len
  BY <1>7, Zenon DEF Walk
<1>9. Decodes(WStarts(block), "w", block, len)
  <2>1. WStarts(block) = Reached(start, len)
    BY <1>2, <1>8, Zenon DEF Reached
  <2>2. Decodes(Reached(start, len), "w", block, len)
    BY <1>1, <1>7, WalkDecodes
  <2>3. QED
    BY <2>1, <2>2, Zenon
<1>10. QED
  BY <1>9 DEF len

-----------------------------------------------------------------------------
(* Whole blocks.                                                           *)

\* The block is a whole number of instructions, which begin at S.
Whole(S, code, block) ==
  /\ S \subseteq 0..(Len(block) - 1)
  /\ 0 \in S \cup {Len(block)}
  /\ \A ip \in S : After(code, block, ip) \in S \cup {Len(block)}
  /\ \A ip \in S \cup {Len(block)} :
       ip = 0 \/ \E before \in S : After(code, block, before) = ip
  /\ \A ip, other \in S : other <= ip \/ other >= After(code, block, ip)

LEMMA WholeDecodes ==
  ASSUME NEW code, NEW block \in Seq(Nat), NEW S, Whole(S, code, block)
  PROVE  Decodes(S, code, block, Len(block))
BY LenProperties DEF Whole, Decodes

\* TStarts finds the instructions of a block: it is the one set of offsets that
\* begins at 0, goes on from each instruction to the next, and has nothing else.
LEMMA StartsAreTheInstructions ==
  ASSUME NEW block \in Seq(Nat), NEW S
  PROVE  Decodes(S, "t", block, Len(block)) <=> S = TStarts(block)
BY TStartsDecode, DecodesOnce, LenProperties

\* Code of either kind: "t" or "w".
Starts(code, block) == IF code = "t" THEN TStarts(block) ELSE WStarts(block)
IsJump(code, op)    == IF code = "t" THEN is_t_jump(op) ELSE is_w_jump(op)
JumpsIn(code, block) == {ip \in Starts(code, block) : IsJump(code, At(block, ip))}

LEMMA StartsDecode ==
  ASSUME NEW code \in {"t", "w"}, NEW block \in Seq(Nat)
  PROVE  Decodes(Starts(code, block), code, block, Len(block))
BY TStartsDecode, WStartsDecode DEF Starts

LEMMA WholeIsStarts ==
  ASSUME NEW code \in {"t", "w"}, NEW block \in Seq(Nat), NEW S, Whole(S, code, block)
  PROVE  Starts(code, block) = S
BY WholeDecodes, StartsDecode, DecodesOnce, LenProperties

LEMMA AppendAt ==
  ASSUME NEW block \in Seq(Nat), NEW bytes \in Seq(Nat)
  PROVE  /\ block \o bytes \in Seq(Nat)
         /\ Len(block \o bytes) = Len(block) + Len(bytes)
         /\ \A i \in 0..(Len(block) - 1) : At(block \o bytes, i) = At(block, i)
         /\ \A i \in 0..(Len(bytes) - 1) : At(block \o bytes, Len(block) + i) = At(bytes, i)
BY ConcatProperties, LenProperties DEF At

LEMMA AppendWhole ==
  ASSUME NEW code, NEW block \in Seq(Nat), NEW bytes \in Seq(Nat), NEW S,
         Whole(S, code, block), Len(bytes) = SizeIn(code, At(bytes, 0))
  PROVE  Whole(S \cup {Len(block)}, code, block \o bytes)
<1> DEFINE longer == block \o bytes
           n == Len(block)
           k == Len(bytes)
           T == S \cup {n}
<1>1. /\ longer \in Seq(Nat) /\ Len(longer) = n + k /\ n \in Nat /\ k \in {1, 2, 3}
      /\ \A i \in 0..(n - 1) : At(longer, i) = At(block, i)
      /\ At(longer, n + 0) = At(bytes, 0)
  BY AppendAt, SizeInType, LenProperties
<1>2. \A ip \in S : After(code, longer, ip) = After(code, block, ip)
  BY <1>1 DEF After, Whole
<1>3. After(code, longer, n) = n + k
  BY <1>1 DEF After
<1> HIDE DEF longer
<1>4. \A ip \in S : /\ ip \in 0..(n - 1)
                    /\ After(code, longer, ip) \in T
                    /\ ip = 0 \/ \E before \in S : After(code, longer, before) = ip
                    /\ \A other \in S : other <= ip \/ other >= After(code, longer, ip)
  BY <1>2 DEF Whole
<1>5. n = 0 \/ \E before \in S : After(code, longer, before) = n
  BY <1>2 DEF Whole
<1>6. n = 0 => S = {}
  BY <1>4
<1> HIDE DEF n, k
<1>7. ASSUME NEW ip \in S PROVE After(code, longer, ip) <= n
  <2>1. After(code, longer, ip) \in S \/ After(code, longer, ip) = n
    BY <1>4
  <2>2. \A other \in S : other \in 0..(n - 1)
    BY <1>4
  <2>3. QED
    BY <1>1, <2>1, <2>2
<1>8. 0 \in S \cup {n}
  BY DEF Whole, n
<1>9. T \subseteq 0..(n + k - 1)
  <2>1. ASSUME NEW ip \in S PROVE ip \in 0..(n + k - 1)
    <3>1. ip \in 0..(n - 1)
      BY <1>4
    <3>2. QED
      BY <1>1, <3>1
  <2>2. n \in 0..(n + k - 1)
    BY <1>1
  <2>3. QED
    BY <2>1, <2>2
<1>10. \A ip \in T : After(code, longer, ip) \in T \cup {n + k}
  BY <1>3, <1>4
<1>11. \A ip \in T \cup {n + k} : ip = 0 \/ \E before \in T : After(code, longer, before) = ip
  BY <1>3, <1>4, <1>5
<1>12. \A ip, other \in T : other <= ip \/ other >= After(code, longer, ip)
  BY <1>1, <1>3, <1>4, <1>7
<1>13. QED
  BY <1>1, <1>8, <1>9, <1>10, <1>11, <1>12 DEF Whole, longer, n

-----------------------------------------------------------------------------
(* Operands.                                                               *)

LEMMA Halves ==
  /\ Words16 \in Nat
  /\ Words16 \div 2 \in Nat
  /\ Words16 = 2 * (Words16 \div 2)
  /\ Words16 \div 2 > 0
<1>1. PICK half \in Nat : ByteBase = 2 * half
  <2>1. ByteBase \div 2 \in Nat /\ ByteBase = 2 * (ByteBase \div 2)
    BY ByteBaseAssumption
  <2>2. QED
    BY <2>1
<1>2. half >= 2
  BY <1>1, ByteBaseAssumption
<1> DEFINE h == half * ByteBase
<1>3. Words16 = 2 * h
  BY <1>1, ByteBaseAssumption DEF Words16
<1>4. h \in Nat /\ h > 0
  BY <1>1, <1>2, ByteBaseAssumption
<1> HIDE DEF h
<1>5. Words16 \div 2 = h
  BY <1>3, <1>4
<1>6. QED
  BY <1>3, <1>4, <1>5

LEMMA DivideBy ==
  ASSUME NEW b \in Nat, b > 0, NEW v \in Int
  PROVE  v = b * (v \div b) + (v % b)
OBVIOUS

LEMMA DivMod ==
  ASSUME NEW v \in Int
  PROVE  /\ v \div ByteBase \in Int
         /\ v % ByteBase \in 0..(ByteBase - 1)
         /\ v = ByteBase * (v \div ByteBase) + (v % ByteBase)
<1>1. v \div ByteBase \in Int /\ v % ByteBase \in 0..(ByteBase - 1)
  BY ByteBaseAssumption
<1>2. ByteBase \in Nat /\ ByteBase > 0
  BY ByteBaseAssumption
<1>3. v = ByteBase * (v \div ByteBase) + (v % ByteBase)
  BY <1>2, DivideBy
<1>4. QED
  BY <1>1, <1>3

LEMMA OperandKept ==
  ASSUME NEW v \in Int, InS16(v)
  PROVE  LET u == (v % ByteBase) + ByteBase * ((v \div ByteBase) % ByteBase)
         IN  (IF u < Words16 \div 2 THEN u ELSE u - Words16) = v
<1> DEFINE b == ByteBase
           q == v \div ByteBase
           r == v % ByteBase
           h == Words16 \div 2
<1>1. /\ b \in Nat /\ b >= 4 /\ Words16 = b * b /\ h \in Nat /\ b * b = 2 * h /\ h > 0
  BY ByteBaseAssumption, Halves DEF Words16
<1>2. /\ q \in Int /\ r \in Int /\ 0 <= r /\ r < b
      /\ v = b * q + r
  BY DivMod, ByteBaseAssumption
<1>3. -h <= v /\ v < h
  BY DEF InS16
<1>4. CASE v >= 0
  <2>1. q >= 0
    <3>1. SUFFICES ASSUME q <= -1 PROVE FALSE
      BY <1>2
    <3> HIDE DEF q, r, h, b
    <3>2. b * q <= -b
      BY <1>1, <1>2, <3>1
    <3>3. QED
      BY <1>1, <1>2, <1>4, <3>2
  <2>2. q < b
    <3>1. SUFFICES ASSUME q >= b PROVE FALSE
      BY <1>1, <1>2
    <3> HIDE DEF q, r, h, b
    <3>2. b * q >= b * b
      BY <1>1, <1>2, <3>1
    <3>3. QED
      BY <1>1, <1>2, <1>3, <3>2
  <2>3. q % ByteBase = q
    <3> HIDE DEF q
    <3>1. QED
      BY <1>1, <1>2, <2>1, <2>2
  <2>4. r + b * (q % ByteBase) = v
    BY <1>1, <1>2, <2>3
  <2>5. QED
    BY <1>1, <1>3, <2>4
<1>5. CASE v < 0
  <2>1. q < 0
    <3>1. SUFFICES ASSUME q >= 0 PROVE FALSE
      BY <1>2
    <3> HIDE DEF q, r, h, b
    <3>2. b * q >= 0
      BY <1>1, <1>2, <3>1
    <3>3. QED
      BY <1>1, <1>2, <1>5, <3>2
  <2>2. q + b >= 0
    <3>1. SUFFICES ASSUME q <= -b - 1 PROVE FALSE
      BY <1>1, <1>2
    <3> HIDE DEF q, r, h, b
    <3>2. b * q <= -(b * b) - b
      <4>1. b * (q + b + 1) <= 0
        BY <1>1, <1>2, <3>1
      <4>2. QED
        BY <1>1, <1>2, <4>1
    <3>3. QED
      BY <1>1, <1>2, <1>3, <3>2
  <2>3. q % ByteBase = q + b
    <3> HIDE DEF q
    <3>1. QED
      BY <1>1, <1>2, <2>1, <2>2
  <2>4. r + b * (q % ByteBase) = v + Words16
    <3> HIDE DEF q, r, h
    <3>1. b * (q + b) = b * q + b * b
      BY <1>1, <1>2
    <3>2. QED
      BY <1>1, <1>2, <2>3, <3>1
  <2> HIDE DEF h
  <2>5. v + Words16 >= h /\ (v + Words16) - Words16 = v
    BY <1>1, <1>3
  <2>6. QED
    BY <1>1, <2>4, <2>5 DEF h
<1>6. QED
  BY <1>4, <1>5

-----------------------------------------------------------------------------
(* Instructions that are appended.                                         *)

\* A block that is a whole number of instructions.
WholeCode(code, block) == block \in Seq(Nat) /\ Whole(Starts(code, block), code, block)

LEMMA EmptyCode ==
  ASSUME NEW code \in {"t", "w"}
  PROVE  WholeCode(code, <<>>) /\ Starts(code, <<>>) = {}
<1>1. <<>> \in Seq(Nat) /\ Len(<<>>) = 0
  OBVIOUS
<1>2. Whole({}, code, <<>>)
  BY <1>1 DEF Whole
<1>3. QED
  BY <1>1, <1>2, WholeIsStarts DEF WholeCode

LEMMA JumpSize ==
  ASSUME NEW op, is_t_jump(op)
  PROVE  t_instruction_size(op) = 3
BY DEF t_instruction_size, is_t_jump, T_OP_FOR_STARTS, T_OP_FOR_UPDATES, T_OP_JUMP,
       T_OP_JUMP_COND, T_OP_JUMP_NCOND, T_OP_FOR_DEC_START, T_OP_FOR_INC_START,
       T_OP_FOR_DEC, T_OP_FOR_INC, T_OP_PUSH8, T_OP_PUSH_INT8, T_OP_CALL8

LEMMA CodeJumpSize ==
  ASSUME NEW code \in {"t", "w"}, NEW op, IsJump(code, op)
  PROVE  SizeIn(code, op) = 3
<1>1. is_t_jump(op) => t_instruction_size(op) = 3
  BY JumpSize
<1>2. is_w_jump(op) => get_w_instruction_size(op) = 3
  BY DEF get_w_instruction_size, is_w_jump, W_OP_FOR_STARTS, W_OP_FOR_UPDATES, W_OP_JUMP,
         W_OP_JUMP_COND, W_OP_JUMP_NCOND, W_OP_FOR_DEC_START, W_OP_FOR_INC_START,
         W_OP_FOR_DEC, W_OP_FOR_INC, W_OP_PUSH8, W_OP_PUSH_INT8, W_OP_CALL8
<1>3. QED
  BY <1>1, <1>2 DEF IsJump, SizeIn

LEMMA CodeJumpFits ==
  ASSUME NEW code \in {"t", "w"}, NEW block, WholeCode(code, block), NEW ip \in JumpsIn(code, block)
  PROVE  /\ ip \in Starts(code, block)
         /\ ip \in Nat
         /\ Len(block) \in Nat
         /\ ip + 3 <= Len(block)
         /\ ip + 3 \in Starts(code, block) \cup {Len(block)}
         /\ \A other \in Starts(code, block) : other <= ip \/ other >= ip + 3
<1>1. ip \in Starts(code, block) /\ IsJump(code, At(block, ip))
  BY DEF JumpsIn
<1>2. After(code, block, ip) = ip + 3
  BY <1>1, CodeJumpSize DEF After
<1>3. Len(block) \in Nat
  BY LenProperties DEF WholeCode
<1>4. Whole(Starts(code, block), code, block)
  BY DEF WholeCode
<1>5. /\ Starts(code, block) \subseteq 0..(Len(block) - 1)
      /\ ip + 3 \in Starts(code, block) \cup {Len(block)}
      /\ \A other \in Starts(code, block) : other <= ip \/ other >= ip + 3
  BY <1>1, <1>2, <1>4 DEF Whole
<1>6. QED
  BY <1>1, <1>3, <1>5

LEMMA CodeAppend ==
  ASSUME NEW code \in {"t", "w"}, NEW block, WholeCode(code, block), NEW bytes \in Seq(Nat),
         Len(bytes) = SizeIn(code, At(bytes, 0))
  PROVE  /\ WholeCode(code, block \o bytes)
         /\ Starts(code, block \o bytes) = Starts(code, block) \cup {Len(block)}
         /\ Len(block \o bytes) = Len(block) + Len(bytes)
         /\ \A ip \in Starts(code, block) : At(block \o bytes, ip) = At(block, ip)
         /\ At(block \o bytes, Len(block)) = At(bytes, 0)
<1>1. /\ block \in Seq(Nat)
      /\ Whole(Starts(code, block), code, block)
      /\ Starts(code, block) \subseteq 0..(Len(block) - 1)
      /\ Len(block) \in Nat
  BY LenProperties DEF WholeCode, Whole
<1>2. /\ block \o bytes \in Seq(Nat)
      /\ Len(block \o bytes) = Len(block) + Len(bytes)
      /\ \A i \in 0..(Len(block) - 1) : At(block \o bytes, i) = At(block, i)
      /\ \A i \in 0..(Len(bytes) - 1) : At(block \o bytes, Len(block) + i) = At(bytes, i)
  BY <1>1, AppendAt
<1>3. Whole(Starts(code, block) \cup {Len(block)}, code, block \o bytes)
  BY <1>1, AppendWhole
<1>4. Starts(code, block \o bytes) = Starts(code, block) \cup {Len(block)}
  BY <1>2, <1>3, WholeIsStarts
<1>5. At(block \o bytes, Len(block)) = At(bytes, 0)
  <2>1. Len(bytes) > 0
    BY SizeInType
  <2>2. 0 \in 0..(Len(bytes) - 1) /\ Len(block) + 0 = Len(block)
    BY <1>1, <2>1, LenProperties
  <2>3. QED
    BY <1>2, <2>2
<1>6. \A ip \in Starts(code, block) : At(block \o bytes, ip) = At(block, ip)
  BY <1>1, <1>2
<1>7. WholeCode(code, block \o bytes)
  BY <1>2, <1>3, <1>4 DEF WholeCode
<1>8. QED
  BY <1>2, <1>4, <1>5, <1>6, <1>7

LEMMA CodeAppendJumps ==
  ASSUME NEW code \in {"t", "w"}, NEW block, WholeCode(code, block), NEW bytes \in Seq(Nat),
         Len(bytes) = SizeIn(code, At(bytes, 0))
  PROVE  /\ JumpsIn(code, block \o bytes) = JumpsIn(code, block)
               \cup (IF IsJump(code, At(bytes, 0)) THEN {Len(block)} ELSE {})
         /\ \A ip \in JumpsIn(code, block) :
              read_s16(block \o bytes, ip + 1) = read_s16(block, ip + 1)
<1> DEFINE longer == block \o bytes
<1>1. /\ Starts(code, longer) = Starts(code, block) \cup {Len(block)}
      /\ \A ip \in Starts(code, block) : At(longer, ip) = At(block, ip)
      /\ At(longer, Len(block)) = At(bytes, 0)
  BY CodeAppend
<1>2. \A i \in 0..(Len(block) - 1) : At(longer, i) = At(block, i)
  BY AppendAt DEF WholeCode
<1> HIDE DEF longer
<1>3. JumpsIn(code, longer) = JumpsIn(code, block)
               \cup (IF IsJump(code, At(bytes, 0)) THEN {Len(block)} ELSE {})
  BY <1>1 DEF JumpsIn
<1>4. ASSUME NEW ip \in JumpsIn(code, block)
      PROVE  read_s16(longer, ip + 1) = read_s16(block, ip + 1)
  <2>1. ip \in Nat /\ Len(block) \in Nat /\ ip + 3 <= Len(block)
    BY CodeJumpFits
  <2>2. At(longer, ip + 1) = At(block, ip + 1) /\ At(longer, ip + 1 + 1) = At(block, ip + 1 + 1)
    BY <1>2, <2>1
  <2>3. QED
    BY <2>2 DEF read_s16, read_u16
<1>5. QED
  BY <1>3, <1>4 DEF longer

\* T-code.
WholeBlock(block) == block \in Seq(Nat) /\ Whole(TStarts(block), "t", block)

LEMMA ThatIsT ==
  /\ \A block : Starts("t", block) = TStarts(block)
  /\ \A block : JumpsIn("t", block) = TJumps(block)
  /\ \A block : WholeCode("t", block) <=> WholeBlock(block)
  /\ \A op : IsJump("t", op) <=> is_t_jump(op)
  /\ \A op : SizeIn("t", op) = t_instruction_size(op)
BY DEF Starts, JumpsIn, TJumps, IsJump, WholeCode, WholeBlock, SizeIn

\* W-code.
LEMMA ThatIsW ==
  /\ \A block : Starts("w", block) = WStarts(block)
  /\ \A block : JumpsIn("w", block) = WJumps(block)
  /\ \A op : IsJump("w", op) <=> is_w_jump(op)
  /\ \A op : SizeIn("w", op) = get_w_instruction_size(op)
BY DEF Starts, JumpsIn, WJumps, IsJump, SizeIn

LEMMA EmptyWhole == WholeBlock(<<>>) /\ TStarts(<<>>) = {}
BY EmptyCode, ThatIsT

LEMMA SizeOfT ==
  ASSUME NEW op
  PROVE  SizeIn("t", op) = t_instruction_size(op)
BY DEF SizeIn

LEMMA JumpFits ==
  ASSUME NEW block, WholeBlock(block), NEW ip \in TJumps(block)
  PROVE  /\ ip \in TStarts(block)
         /\ ip \in Nat
         /\ Len(block) \in Nat
         /\ ip + 3 <= Len(block)
         /\ ip + 3 \in TStarts(block) \cup {Len(block)}
         /\ \A other \in TStarts(block) : other <= ip \/ other >= ip + 3
<1>1. "t" \in {"t", "w"}
  OBVIOUS
<1>2. QED
  BY <1>1, CodeJumpFits, ThatIsT

\* write_simple, write_immediate_s16, ...: an instruction that is appended in full is one
\* more, and the others are where and what they were.
THEOREM AppendInstruction ==
  ASSUME NEW block, WholeBlock(block), NEW bytes \in Seq(Nat),
         Len(bytes) = t_instruction_size(At(bytes, 0))
  PROVE  /\ WholeBlock(block \o bytes)
         /\ TStarts(block \o bytes) = TStarts(block) \cup {Len(block)}
         /\ Len(block \o bytes) = Len(block) + Len(bytes)
         /\ \A ip \in TStarts(block) : At(block \o bytes, ip) = At(block, ip)
         /\ At(block \o bytes, Len(block)) = At(bytes, 0)
<1>1. "t" \in {"t", "w"}
  OBVIOUS
<1>2. QED
  BY <1>1, CodeAppend, ThatIsT

LEMMA AppendJumps ==
  ASSUME NEW block, WholeBlock(block), NEW bytes \in Seq(Nat),
         Len(bytes) = t_instruction_size(At(bytes, 0))
  PROVE  /\ TJumps(block \o bytes) = TJumps(block)
               \cup (IF is_t_jump(At(bytes, 0)) THEN {Len(block)} ELSE {})
         /\ \A ip \in TJumps(block) :
              read_s16(block \o bytes, ip + 1) = read_s16(block, ip + 1)
<1>1. "t" \in {"t", "w"}
  OBVIOUS
<1>2. QED
  BY <1>1, CodeAppendJumps, ThatIsT

LEMMA U16Bytes ==
  ASSUME NEW v \in Int
  PROVE  /\ U16(v) \in Seq(Nat)
         /\ Len(U16(v)) = 2
         /\ U16(v)[1] = v % ByteBase
         /\ U16(v)[2] = (v \div ByteBase) % ByteBase
         /\ U16(v)[1] \in Nat
         /\ U16(v)[2] \in Nat
<1>1. v % ByteBase \in Nat
  BY ByteBaseAssumption
<1>2. (v \div ByteBase) % ByteBase \in Nat
  BY ByteBaseAssumption
<1>3. QED
  BY <1>1, <1>2 DEF U16

\* The operand of an instruction that lies in its block.
LEMMA ReadType ==
  ASSUME NEW block \in Seq(Nat), NEW ip \in Nat, ip + 3 <= Len(block)
  PROVE  read_s16(block, ip + 1) \in Int
<1>1. At(block, ip + 1) \in Nat /\ At(block, ip + 1 + 1) \in Nat
  <2>1. Len(block) \in Nat /\ ip + 1 + 1 \in 1..Len(block) /\ ip + 1 + 1 + 1 \in 1..Len(block)
    BY LenProperties
  <2>2. QED
    BY <2>1, ElementOfSeq DEF At
<1>2. read_u16(block, ip + 1) \in Int
  BY <1>1, ByteBaseAssumption DEF read_u16
<1>3. QED
  BY <1>2, Halves DEF read_s16

\* Two bytes that hold an operand read as the operand.
LEMMA ReadBack ==
  ASSUME NEW block, NEW i, NEW v \in Int, InS16(v),
         At(block, i) = U16(v)[1], At(block, i + 1) = U16(v)[2]
  PROVE  read_s16(block, i) = v
BY OperandKept, U16Bytes DEF read_s16, read_u16

\* write_immediate_s16: the operand reads back as the value, if it fits.
THEOREM EmittedOperand ==
  ASSUME NEW block \in Seq(Nat), NEW op \in Nat, NEW v \in Int
  PROVE  /\ <<op>> \o U16(v) \in Seq(Nat)
         /\ Len(<<op>> \o U16(v)) = 3
         /\ At(<<op>> \o U16(v), 0) = op
         /\ InS16(v) => read_s16(block \o (<<op>> \o U16(v)), Len(block) + 1) = v
<1> DEFINE head == <<op>>
           operand == U16(v)
           bytes == head \o operand
<1>1. /\ operand \in Seq(Nat)
      /\ Len(operand) = 2
      /\ At(operand, 0) = U16(v)[1]
      /\ At(operand, 1) = U16(v)[2]
  <2>1. At(operand, 0) = operand[1] /\ At(operand, 1) = operand[2]
    <3> HIDE DEF operand
    <3>1. QED
      BY DEF At
  <2>2. QED
    BY <2>1, U16Bytes
<1>2. head \in Seq(Nat) /\ Len(head) = 1 /\ At(head, 0) = op
  BY DEF At
<1> HIDE DEF head, operand
<1>3. /\ bytes \in Seq(Nat)
      /\ Len(bytes) = 3
      /\ At(bytes, 0) = op
      /\ At(bytes, 1) = U16(v)[1]
      /\ At(bytes, 2) = U16(v)[2]
  <2>1. /\ bytes \in Seq(Nat)
        /\ Len(bytes) = Len(head) + Len(operand)
        /\ \A i \in 0..(Len(head) - 1) : At(bytes, i) = At(head, i)
        /\ \A i \in 0..(Len(operand) - 1) : At(bytes, Len(head) + i) = At(operand, i)
    BY <1>1, <1>2, AppendAt
  <2> HIDE DEF bytes
  <2>2. At(bytes, 0) = At(head, 0)
    BY <1>2, <2>1
  <2>3. At(bytes, 1 + 0) = At(operand, 0) /\ At(bytes, 1 + 1) = At(operand, 1)
    BY <1>1, <1>2, <2>1
  <2>4. QED
    BY <1>1, <1>2, <2>1, <2>2, <2>3
<1> HIDE DEF bytes
<1>4. \A i \in 0..2 : At(block \o bytes, Len(block) + i) = At(bytes, i)
  <2>1. \A i \in 0..(Len(bytes) - 1) : At(block \o bytes, Len(block) + i) = At(bytes, i)
    BY <1>3, AppendAt
  <2>2. Len(bytes) - 1 = 2
    BY <1>3
  <2>3. QED
    BY <2>1, <2>2
<1>5. Len(block) + 1 + 1 = Len(block) + 2
  BY LenProperties
<1>6. /\ At(block \o bytes, Len(block) + 1) = U16(v)[1]
      /\ At(block \o bytes, Len(block) + 1 + 1) = U16(v)[2]
  BY <1>3, <1>4, <1>5
<1>7. InS16(v) => read_s16(block \o bytes, Len(block) + 1) = v
  BY <1>6, ReadBack
<1>8. QED
  BY <1>3, <1>7 DEF bytes, head, operand

\* An operand written over another: nothing else in the block changes.
LEMMA OverwriteAt ==
  ASSUME NEW block \in Seq(Nat), NEW i \in Nat, i + 1 < Len(block), NEW v \in Int
  PROVE  /\ overwrite_s16(block, i, v) \in Seq(Nat)
         /\ Len(overwrite_s16(block, i, v)) = Len(block)
         /\ \A k \in 0..(Len(block) - 1) :
              k # i /\ k # i + 1 => At(overwrite_s16(block, i, v), k) = At(block, k)
         /\ At(overwrite_s16(block, i, v), i) = U16(v)[1]
         /\ At(overwrite_s16(block, i, v), i + 1) = U16(v)[2]
<1>1. PICK low \in Nat, high \in Nat : low = U16(v)[1] /\ high = U16(v)[2]
  BY U16Bytes
<1> DEFINE first  == [block EXCEPT ![i + 1] = low]
           second == [first EXCEPT ![i + 2] = high]
<1>2. Len(block) \in Nat /\ i + 1 \in 1..Len(block) /\ i + 2 \in 1..Len(block)
  BY LenProperties
<1>3. /\ first \in Seq(Nat)
      /\ Len(first) = Len(block)
      /\ \A k \in 1..Len(block) : first[k] = IF k = i + 1 THEN low ELSE block[k]
  BY <1>2, ExceptSeq
<1> HIDE DEF first
<1>4. /\ second \in Seq(Nat)
      /\ Len(second) = Len(block)
      /\ \A k \in 1..Len(block) : second[k] = IF k = i + 2 THEN high ELSE first[k]
  BY <1>2, <1>3, ExceptSeq
<1>5. overwrite_s16(block, i, v) = second
  BY <1>1, Zenon DEF overwrite_s16, second, first
<1> HIDE DEF second
<1>6. \A k \in 0..(Len(block) - 1) : k # i /\ k # i + 1 => second[k + 1] = block[k + 1]
  BY <1>2, <1>3, <1>4
<1>7. second[i + 1] = low /\ second[i + 1 + 1] = high
  BY <1>2, <1>3, <1>4, SMTT(40)
<1>8. QED
  BY <1>1, <1>4, <1>5, <1>6, <1>7 DEF At

LEMMA CodePatch ==
  ASSUME NEW code \in {"t", "w"}, NEW block, WholeCode(code, block), NEW ip \in JumpsIn(code, block), NEW v \in Int
  PROVE  LET patched == overwrite_s16(block, ip + 1, v)
         IN  /\ WholeCode(code, patched)
             /\ Len(patched) = Len(block)
             /\ Starts(code, patched) = Starts(code, block)
             /\ JumpsIn(code, patched) = JumpsIn(code, block)
             /\ \A other \in Starts(code, block) : At(patched, other) = At(block, other)
             /\ \A other \in JumpsIn(code, block) :
                  other # ip => read_s16(patched, other + 1) = read_s16(block, other + 1)
             /\ InS16(v) => read_s16(patched, ip + 1) = v
<1> DEFINE patched == overwrite_s16(block, ip + 1, v)
<1>1. /\ ip \in Starts(code, block)
      /\ ip \in Nat
      /\ Len(block) \in Nat
      /\ ip + 3 <= Len(block)
      /\ \A other \in Starts(code, block) : other <= ip \/ other >= ip + 3
  BY CodeJumpFits
<1>2. block \in Seq(Nat) /\ Whole(Starts(code, block), code, block)
  BY DEF WholeCode
<1>3. ip + 1 \in Nat /\ (ip + 1) + 1 < Len(block)
  BY <1>1
<1>4. /\ patched \in Seq(Nat)
      /\ Len(patched) = Len(block)
      /\ \A k \in 0..(Len(block) - 1) :
           k # ip + 1 /\ k # ip + 1 + 1 => At(patched, k) = At(block, k)
      /\ At(patched, ip + 1) = U16(v)[1]
      /\ At(patched, ip + 1 + 1) = U16(v)[2]
  BY <1>2, <1>3, OverwriteAt
<1> HIDE DEF patched
<1>5. ASSUME NEW other \in Starts(code, block) PROVE At(patched, other) = At(block, other)
  <2>1. other \in 0..(Len(block) - 1)
    BY <1>2 DEF Whole
  <2>2. other # ip + 1 /\ other # ip + 1 + 1
    BY <1>1, <2>1
  <2>3. QED
    BY <1>4, <2>1, <2>2
<1>6. \A other \in Starts(code, block) : After(code, patched, other) = After(code, block, other)
  BY <1>5 DEF After
<1>7. Whole(Starts(code, block), code, patched)
  BY <1>2, <1>4, <1>6 DEF Whole
<1>8. Starts(code, patched) = Starts(code, block)
  BY <1>4, <1>7, WholeIsStarts
<1>9. JumpsIn(code, patched) = JumpsIn(code, block)
  BY <1>5, <1>8 DEF JumpsIn
<1>10. ASSUME NEW other \in JumpsIn(code, block), other # ip
       PROVE  read_s16(patched, other + 1) = read_s16(block, other + 1)
  <2>1. /\ other \in Starts(code, block)
        /\ other \in Nat
        /\ other + 3 <= Len(block)
        /\ ip <= other \/ ip >= other + 3
    BY <1>1, CodeJumpFits
  <2>2. other <= ip \/ other >= ip + 3
    BY <1>1, <2>1
  <2>3. /\ other + 1 \in 0..(Len(block) - 1)
        /\ other + 1 + 1 \in 0..(Len(block) - 1)
        /\ other + 1 \notin {ip + 1, ip + 1 + 1}
        /\ other + 1 + 1 \notin {ip + 1, ip + 1 + 1}
    BY <1>1, <1>10, <2>1, <2>2
  <2>4. /\ At(patched, other + 1) = At(block, other + 1)
        /\ At(patched, other + 1 + 1) = At(block, other + 1 + 1)
    BY <1>4, <2>3
  <2>5. QED
    BY <2>4 DEF read_s16, read_u16
<1>11. InS16(v) => read_s16(patched, ip + 1) = v
  BY <1>4, ReadBack
<1>12. WholeCode(code, patched)
  BY <1>4, <1>7, <1>8 DEF WholeCode
<1>13. QED
  BY <1>4, <1>5, <1>8, <1>9, <1>10, <1>11, <1>12 DEF patched

\* overwrite_s16 on the operand of a jump: it reads back as the value, and
\* nothing else in the block changes, neither the other operands nor where the
\* instructions are.
THEOREM PatchJump ==
  ASSUME NEW block, WholeBlock(block), NEW ip \in TJumps(block), NEW v \in Int
  PROVE  LET patched == overwrite_s16(block, ip + 1, v)
         IN  /\ WholeBlock(patched)
             /\ Len(patched) = Len(block)
             /\ TStarts(patched) = TStarts(block)
             /\ TJumps(patched) = TJumps(block)
             /\ \A other \in TStarts(block) : At(patched, other) = At(block, other)
             /\ \A other \in TJumps(block) :
                  other # ip => read_s16(patched, other + 1) = read_s16(block, other + 1)
             /\ InS16(v) => read_s16(patched, ip + 1) = v
<1>1. "t" \in {"t", "w"}
  OBVIOUS
<1>2. QED
  BY <1>1, CodePatch, ThatIsT

-----------------------------------------------------------------------------
(* What the type checker takes a block from the compiler to be.            *)

\* The instruction at ip is none that ends a run of instructions for check_unreachable,
\* and calls a function that is in the table.
KnownAt(block, ip, n) ==
  /\ At(block, ip) # T_OP_NOP
  /\ At(block, ip) = T_OP_CALL8 => At(block, ip + 1) \in Nat /\ At(block, ip + 1) < n

Known(block, n) == WholeBlock(block) /\ \A ip \in TStarts(block) : KnownAt(block, ip, n)

LEMMA CallFits ==
  ASSUME NEW block, WholeBlock(block), NEW ip \in TStarts(block), At(block, ip) = T_OP_CALL8
  PROVE  /\ ip \in Nat
         /\ Len(block) \in Nat
         /\ ip + 1 < Len(block)
         /\ \A other \in TStarts(block) : other \in Nat /\ (other <= ip \/ other >= ip + 2)
<1>1. After("t", block, ip) = ip + 2
  BY DEF After, SizeIn, t_instruction_size, is_t_jump, T_OP_CALL8, T_OP_PUSH8, T_OP_PUSH_INT8,
         T_OP_JUMP, T_OP_JUMP_COND, T_OP_JUMP_NCOND, T_OP_FOR_STARTS, T_OP_FOR_UPDATES,
         T_OP_FOR_DEC_START, T_OP_FOR_INC_START, T_OP_FOR_DEC, T_OP_FOR_INC,
         T_OP_GET_LOOP_VAR, T_OP_LOCAL_GET, T_OP_LOCAL_SET
<1>2. Len(block) \in Nat /\ Whole(TStarts(block), "t", block)
  BY LenProperties DEF WholeBlock
<1>3. /\ TStarts(block) \subseteq 0..(Len(block) - 1)
      /\ ip + 2 \in TStarts(block) \cup {Len(block)}
      /\ \A other \in TStarts(block) : other <= ip \/ other >= ip + 2
  BY <1>1, <1>2 DEF Whole
<1>4. QED
  BY <1>2, <1>3

\* The jumps of a block go to its destinations, which begin instructions, and a jump
\* from elsewhere into what a jump back repeats goes to its first instruction.
Flows(block, dests) ==
  /\ WholeBlock(block)
  /\ dests = {JumpDest(block, ip) : ip \in TJumps(block)}
  /\ dests \subseteq TStarts(block)
  /\ \A ip \in TJumps(block) : InS16(read_s16(block, ip + 1))
  /\ \A back, ip \in TJumps(block) :
       JumpDest(block, back) <= back /\ (ip < JumpDest(block, back) \/ ip > back) =>
         JumpDest(block, ip) <= JumpDest(block, back) \/ JumpDest(block, ip) > back

LEMMA FlowFacts ==
  ASSUME NEW block, NEW dests, Flows(block, dests), NEW ip \in TJumps(block)
  PROVE  /\ ip \in Nat
         /\ read_s16(block, ip + 1) \in Int
         /\ JumpDest(block, ip) \in dests
         /\ JumpDest(block, ip) \in Nat
         /\ JumpDest(block, ip) = ip + 1 + read_s16(block, ip + 1)
         /\ JumpDest(block, ip) <= ip \/ JumpDest(block, ip) >= ip + 3
         /\ read_s16(block, ip + 1) < 0 <=> JumpDest(block, ip) <= ip
<1>1. WholeBlock(block) /\ block \in Seq(Nat) /\ TStarts(block) \subseteq 0..(Len(block) - 1)
  BY DEF Flows, WholeBlock, Whole
<1>2. /\ ip \in Nat
      /\ Len(block) \in Nat
      /\ ip + 3 <= Len(block)
      /\ \A other \in TStarts(block) : other <= ip \/ other >= ip + 3
  BY <1>1, JumpFits
<1>3. JumpDest(block, ip) \in dests /\ JumpDest(block, ip) \in TStarts(block)
  BY DEF Flows
<1>4. read_s16(block, ip + 1) \in Int
  BY <1>1, <1>2, ReadType
<1>5. JumpDest(block, ip) = ip + 1 + read_s16(block, ip + 1)
  BY DEF JumpDest
<1>6. QED
  BY <1>1, <1>2, <1>3, <1>4, <1>5

-----------------------------------------------------------------------------
(* Bytes.                                                                  *)

ByteValues == 0..(ByteBase - 1)

\* write_u16 truncates to bytes.
LEMMA OperandInBytes ==
  ASSUME NEW op \in ByteValues, NEW v \in Int
  PROVE  /\ U16(v) \in Seq(ByteValues)
         /\ <<op>> \o U16(v) \in Seq(ByteValues)
         /\ U16(v)[1] \in ByteValues /\ U16(v)[2] \in ByteValues
<1>1. v % ByteBase \in ByteValues
  BY ByteBaseAssumption DEF ByteValues
<1>2. v \div ByteBase \in Int
  BY ByteBaseAssumption
<1>3. (v \div ByteBase) % ByteBase \in ByteValues
  BY <1>2, ByteBaseAssumption DEF ByteValues
<1> HIDE DEF ByteValues
<1>4. U16(v) \in Seq(ByteValues) /\ U16(v)[1] \in ByteValues /\ U16(v)[2] \in ByteValues
  BY <1>1, <1>3 DEF U16
<1>5. <<op>> \in Seq(ByteValues)
  OBVIOUS
<1>6. QED
  BY <1>4, <1>5, ConcatProperties

\* A sequence of bytes is one of numbers.
LEMMA BytesAreNumbers ==
  ASSUME NEW bytes \in Seq(ByteValues)
  PROVE  bytes \in Seq(Nat)
<1>1. ByteValues \subseteq Nat
  BY ByteBaseAssumption DEF ByteValues
<1> HIDE DEF ByteValues
<1>2. Len(bytes) \in Nat /\ bytes \in [1..Len(bytes) -> ByteValues]
  BY LenProperties
<1>3. bytes \in [1..Len(bytes) -> Nat]
  BY <1>1, <1>2
<1>4. \A n \in Nat : \A s \in [1..n -> Nat] : s \in Seq(Nat)
  BY IsASeq
<1>5. QED
  BY <1>2, <1>3, <1>4

===============================================================================
