--------------------------- MODULE TypeCheckerProofs ---------------------------
(***************************************************************************)
(* Proofs about the type checker of src/type_checker.c, for every module   *)
(* whose code is what the compiler promises (ModuleOK): the jumps that wait*)
(* for their destination are never lost and never patched twice, whatever  *)
(* is skipped as unreachable, and the W-code of a program that is accepted *)
(* has the control flow of its T-code, and at each of its instructions one *)
(* height of the stack.                                                    *)
(*                                                                         *)
(* The invariant speaks about one function at a time, as a relation between*)
(* its T-code, its table of destinations, the W-code so far and the states *)
(* kept per destination.  It is stated over parameters, so that what an    *)
(* instruction, a patch and a skip do to it are lemmas without primes.     *)
(***************************************************************************)
EXTENDS TypeChecker, IrProofs

Stacks == Seq(Types)

-----------------------------------------------------------------------------
(* A block whose waiting jumps are patched.                                *)

Unpatched(out) == {ip \in WJumps(out) : read_s16(out, ip + 1) = 0}

\* The byte k belongs to the operand of one of the jumps.
OperandByte(srcs, k) == \E s \in srcs : k = s + 1 \/ k = s + 2

\* The bytes of a patched block.
PatchedBytes(out, patched, srcs, dest) ==
  /\ patched \in Seq(Nat)
  /\ Len(patched) = Len(out)
  /\ \A k \in 0..(Len(out) - 1) : ~OperandByte(srcs, k) => At(patched, k) = At(out, k)
  /\ \A s \in srcs : /\ At(patched, s + 1) = U16(dest - s - 1)[1]
                     /\ At(patched, s + 1 + 1) = U16(dest - s - 1)[2]

LEMMA PatchAllAt ==
  ASSUME NEW out, WholeCode("w", out), NEW srcs, srcs \subseteq JumpsIn("w", out), NEW dest \in Nat,
         NEW patched, patched = PatchAll(out, srcs, dest)
  PROVE  PatchedBytes(out, patched, srcs, dest)
<1> DEFINE owners(i) == {s \in srcs : i \in {s + 2, s + 3}}
<1>1. out \in Seq(Nat) /\ Len(out) \in Nat /\ DOMAIN out = 1..Len(out)
  BY LenProperties DEF WholeCode
<1>2. ASSUME NEW s \in srcs
      PROVE  /\ s \in Nat /\ s + 3 <= Len(out)
             /\ \A other \in srcs : other <= s \/ other >= s + 3
  BY <1>2, CodeJumpFits DEF JumpsIn
<1>3. \A i : \A s \in owners(i) : owners(i) = {s}
  <2>1. ASSUME NEW i, NEW s \in owners(i), NEW other \in owners(i) PROVE other = s
    <3>1. s \in Nat /\ other \in Nat /\ i \in {s + 2, s + 3} /\ i \in {other + 2, other + 3}
      BY <1>2, <2>1
    <3>2. (other <= s \/ other >= s + 3) /\ (s <= other \/ s >= other + 3)
      BY <1>2, <2>1
    <3>3. QED
      BY <3>1, <3>2
  <2>2. QED
    BY <2>1
<1>4. ASSUME NEW s \in srcs
      PROVE  /\ s + 2 \in DOMAIN out /\ patched[s + 2] = U16(dest - s - 1)[1]
             /\ s + 3 \in DOMAIN out /\ patched[s + 3] = U16(dest - s - 1)[2]
  <2>1. ASSUME NEW i \in {s + 2, s + 3}, NEW byte, byte = i - s - 1
        PROVE  i \in DOMAIN out /\ patched[i] = U16(dest - s - 1)[byte]
    <3>1. i \in DOMAIN out
      BY <1>1, <1>2, <2>1, SMTT(40)
    <3>2. s \in owners(i) /\ owners(i) = {s}
      BY <1>3, <2>1
    <3>3. (CHOOSE x \in owners(i) : TRUE) = s
      BY <3>2
    <3>4. QED
      BY <2>1, <3>1, <3>2, <3>3, Zenon DEF PatchAll
  <2>2. 1 = s + 2 - s - 1 /\ 2 = s + 3 - s - 1
    BY <1>2
  <2> DEFINE i2 == s + 2
             i3 == s + 3
  <2>3. i2 \in {s + 2, s + 3} /\ i3 \in {s + 2, s + 3} /\ 1 = i2 - s - 1 /\ 2 = i3 - s - 1
    BY <1>2, <2>2
  <2> HIDE DEF i2, i3
  <2>4. /\ i2 \in DOMAIN out /\ patched[i2] = U16(dest - s - 1)[1]
        /\ i3 \in DOMAIN out /\ patched[i3] = U16(dest - s - 1)[2]
    BY <2>1, <2>3
  <2>5. QED
    BY <2>4 DEF i2, i3
<1>5. ASSUME NEW i \in DOMAIN out, owners(i) = {} PROVE patched[i] = out[i]
  BY <1>5, Zenon DEF PatchAll
<1>6. DOMAIN patched = DOMAIN out
  BY DEF PatchAll
<1>7. ASSUME NEW i \in DOMAIN out PROVE patched[i] \in Nat
  <2>1. CASE owners(i) = {}
    BY <1>1, <1>5, <2>1, ElementOfSeq
  <2>2. CASE owners(i) # {}
    <3>1. PICK s \in srcs : i \in {s + 2, s + 3}
      BY <2>2
    <3>2. s \in Nat /\ dest - s - 1 \in Int
      BY <1>2
    <3>3. U16(dest - s - 1)[1] \in Nat /\ U16(dest - s - 1)[2] \in Nat
      BY <3>2, U16Bytes
    <3>4. QED
      BY <1>4, <3>1, <3>3
  <2>3. QED
    BY <2>1, <2>2
<1>8. /\ patched \in Seq(Nat) /\ Len(patched) = Len(out)
  <2>1. patched = [i \in 1..Len(out) |-> patched[i]]
    BY <1>1, <1>6 DEF PatchAll
  <2>2. \A i \in 1..Len(out) : patched[i] \in Nat
    BY <1>1, <1>7
  <2>3. QED
    BY <1>1, <2>1, <2>2, IsASeq, LenProperties
<1>9. ASSUME NEW k \in 0..(Len(out) - 1), ~OperandByte(srcs, k)
      PROVE  At(patched, k) = At(out, k)
  <2>1. k + 1 \in DOMAIN out
    BY <1>1
  <2>2. owners(k + 1) = {}
    <3>1. ASSUME NEW s \in srcs PROVE k + 1 # s + 2 /\ k + 1 # s + 3
      <4>1. s \in Nat /\ k # s + 1 /\ k # s + 2 /\ k \in Int
        BY <1>2, <1>9 DEF OperandByte
      <4>2. QED
        BY <4>1
    <3>2. QED
      BY <3>1
  <2>3. QED
    BY <1>5, <2>1, <2>2 DEF At
<1>10. ASSUME NEW s \in srcs
       PROVE  /\ At(patched, s + 1) = U16(dest - s - 1)[1]
              /\ At(patched, s + 1 + 1) = U16(dest - s - 1)[2]
  <2>1. s + 1 + 1 = s + 2 /\ s + 1 + 1 + 1 = s + 3
    BY <1>2
  <2>2. QED
    BY <1>4, <2>1 DEF At
<1>11. QED
  BY <1>8, <1>9, <1>10 DEF PatchedBytes

\* A block like `out' but for the operands of the jumps `srcs', which go to dest.
Redirected(out, patched, srcs, dest) ==
  /\ WholeCode("w", patched)
  /\ Len(patched) = Len(out)
  /\ WStarts(patched) = WStarts(out)
  /\ WJumps(patched) = WJumps(out)
  /\ \A ip \in WStarts(out) : At(patched, ip) = At(out, ip)
  /\ \A ip \in WJumps(out) \ srcs : read_s16(patched, ip + 1) = read_s16(out, ip + 1)
  /\ \A s \in srcs : InS16(dest - s - 1) => read_s16(patched, s + 1) = dest - s - 1

\* patch_jump over the list of a destination: every jump in it lands there, and
\* nothing else in the block changes.
THEOREM PatchWaiting ==
  ASSUME NEW out, WholeCode("w", out), NEW srcs, srcs \subseteq WJumps(out), NEW dest \in Nat,
         NEW patched, patched = PatchAll(out, srcs, dest)
  PROVE  Redirected(out, patched, srcs, dest)
<1>0. WStarts(out) = Starts("w", out) /\ WJumps(out) = JumpsIn("w", out)
  BY ThatIsW
<1>1. out \in Seq(Nat) /\ Whole(WStarts(out), "w", out) /\ WStarts(out) \subseteq 0..(Len(out) - 1)
  BY <1>0 DEF WholeCode, Whole
<1>2. ASSUME NEW s \in WJumps(out)
      PROVE  /\ s \in Nat /\ s \in WStarts(out) /\ Len(out) \in Nat /\ s + 3 <= Len(out)
             /\ \A other \in WStarts(out) : other <= s \/ other >= s + 3
  BY <1>0, <1>2, CodeJumpFits
<1>3. /\ patched \in Seq(Nat)
      /\ Len(patched) = Len(out)
      /\ \A k \in 0..(Len(out) - 1) :
           ~OperandByte(srcs, k) => At(patched, k) = At(out, k)
      /\ \A s \in srcs : /\ At(patched, s + 1) = U16(dest - s - 1)[1]
                         /\ At(patched, s + 1 + 1) = U16(dest - s - 1)[2]
  <2>1. srcs \subseteq JumpsIn("w", out)
    BY <1>0
  <2>2. PatchedBytes(out, patched, srcs, dest)
    BY <2>1, PatchAllAt
  <2>3. QED
    BY <2>2 DEF PatchedBytes
<1>4. ASSUME NEW ip \in WStarts(out) PROVE At(patched, ip) = At(out, ip)
  <2>1. ip \in 0..(Len(out) - 1)
    BY <1>1
  <2>2. ~OperandByte(srcs, ip)
    BY <1>2, <2>1 DEF OperandByte
  <2>3. QED
    BY <1>3, <2>1, <2>2
<1>5. Whole(WStarts(out), "w", patched)
  <2>1. \A ip \in WStarts(out) : After("w", patched, ip) = After("w", out, ip)
    BY <1>4 DEF After
  <2>2. QED
    BY <1>1, <1>3, <2>1 DEF Whole
<1>6. WStarts(patched) = WStarts(out)
  <2>1. Starts("w", patched) = WStarts(out)
    BY <1>3, <1>5, WholeIsStarts
  <2>2. QED
    BY <2>1, ThatIsW
<1>7. WholeCode("w", patched)
  BY <1>3, <1>5, <1>6, ThatIsW DEF WholeCode
<1>8. WJumps(patched) = WJumps(out)
  BY <1>4, <1>6 DEF WJumps
<1>9. ASSUME NEW ip \in WJumps(out) \ srcs
      PROVE  read_s16(patched, ip + 1) = read_s16(out, ip + 1)
  <2>1. ip \in Nat /\ ip + 1 \in 0..(Len(out) - 1) /\ ip + 1 + 1 \in 0..(Len(out) - 1)
    BY <1>2
  <2>2. ASSUME NEW s \in srcs
        PROVE  /\ ip + 1 # s + 1 /\ ip + 1 # s + 2
               /\ ip + 1 + 1 # s + 1 /\ ip + 1 + 1 # s + 2
    <3>1. s \in Nat /\ ip # s /\ (ip <= s \/ ip >= s + 3) /\ (s <= ip \/ s >= ip + 3)
      BY <1>2, <1>9
    <3>2. QED
      BY <2>1, <3>1
  <2>3. ~OperandByte(srcs, ip + 1) /\ ~OperandByte(srcs, ip + 1 + 1)
    BY <2>2 DEF OperandByte
  <2>4. At(patched, ip + 1) = At(out, ip + 1) /\ At(patched, ip + 1 + 1) = At(out, ip + 1 + 1)
    BY <1>3, <2>1, <2>3
  <2>5. QED
    BY <2>4 DEF read_s16, read_u16
<1>10. ASSUME NEW s \in srcs, InS16(dest - s - 1)
       PROVE  read_s16(patched, s + 1) = dest - s - 1
  <2>1. dest - s - 1 \in Int
    BY <1>2
  <2>2. QED
    BY <1>3, <1>10, <2>1, ReadBack
<1>11. QED
  BY <1>3, <1>4, <1>6, <1>7, <1>8, <1>9, <1>10 DEF Redirected

-----------------------------------------------------------------------------
(* A function on its way.                                                  *)

\* The destinations the checker has not come to, before and after it has dealt with
\* that at ip.
From(dests, ip)  == {d \in dests : d >= ip}
Ahead(dests, ip) == {d \in dests : d > ip}

\* reset_type_checker_states: what is kept per destination.
Tables(dests, stacks, wdests, srcs) ==
  /\ stacks \in [dests -> Stacks \cup {NotSaved}]
  /\ wdests \in [dests -> Nat]
  /\ srcs \in [dests -> SUBSET Nat]

\* The jumps that wait are those recorded for the pending destinations, each for one
\* of them, and a stack is saved for just the destinations that are waited for.
Waiting(out, pending, stacks, srcs) ==
  /\ Unpatched(out) = UNION {srcs[d] : d \in pending}
  /\ \A d \in pending : stacks[d] # NotSaved <=> srcs[d] # {}
  /\ \A d, e \in pending : d # e => srcs[d] \cap srcs[e] = {}

\* A jump that waits comes from a jump of the T-code, and the W-code has not grown
\* more since than the checker has moved on.
Traced(block, len, pending, srcs, ip) ==
  \A d \in pending : \A s \in srcs[d] :
    \E j \in TJumps(block) : JumpDest(block, j) = d /\ j < ip /\ len - s <= ip - j

\* The destinations of the jumps back that are still to come are known, unless they
\* are pending, and are no farther away in the W-code than in the T-code.
Looping(block, len, pending, wdests, ip) ==
  \A j \in TJumps(block) :
    LET d == JumpDest(block, j)
    IN  ip <= j /\ d <= j /\ d \notin pending => wdests[d] <= len /\ len - wdests[d] <= ip - d

Progress(block, dests, pending, out, ip, stacks, wdests, srcs) ==
  /\ ip \in Nat
  /\ ip \in TStarts(block) \/ ip >= Len(block)
  /\ WholeCode("w", out)
  /\ Tables(dests, stacks, wdests, srcs)
  /\ Waiting(out, pending, stacks, srcs)
  /\ Traced(block, Len(out), pending, srcs, ip)
  /\ Looping(block, Len(out), pending, wdests, ip)

\* A jump that waits lies in the W-code.
LEMMA WaitingFits ==
  ASSUME NEW out, WholeCode("w", out), NEW s \in Unpatched(out)
  PROVE  s \in WJumps(out) /\ s \in Nat /\ s + 3 <= Len(out) /\ Len(out) \in Nat
<1>1. s \in JumpsIn("w", out)
  BY ThatIsW DEF Unpatched
<1>2. QED
  BY <1>1, CodeJumpFits, ThatIsW

\* start_function: an empty block, of a function nothing is known about yet.
LEMMA ProgressStarts ==
  ASSUME NEW block, NEW dests, Flows(block, dests)
  PROVE  Progress(block, dests, From(dests, 0), <<>>, 0, [d \in dests |-> NotSaved],
                  [d \in dests |-> 0], [d \in dests |-> {}])
<1> DEFINE stacks == [d \in dests |-> NotSaved]
           wdests == [d \in dests |-> 0]
           srcs   == [d \in dests |-> {}]
           pending == From(dests, 0)
<1>1. WholeBlock(block) /\ Len(block) \in Nat
  BY LenProperties DEF Flows, WholeBlock
<1>2. TStarts(block) \subseteq 0..(Len(block) - 1) /\ 0 \in TStarts(block) \cup {Len(block)}
  BY <1>1 DEF WholeBlock, Whole
<1>3. dests = pending
  BY <1>2 DEF From, Flows
<1>4. WholeCode("w", <<>>) /\ WStarts(<<>>) = {} /\ Len(<<>>) = 0
  BY EmptyCode, ThatIsW
<1>5. Unpatched(<<>>) = {}
  BY <1>4 DEF Unpatched, WJumps
<1>6. Tables(dests, stacks, wdests, srcs)
  BY DEF Tables
<1>7. Waiting(<<>>, pending, stacks, srcs)
  BY <1>3, <1>5 DEF Waiting
<1>8. Traced(block, Len(<<>>), pending, srcs, 0)
  BY <1>3 DEF Traced
<1>9. Looping(block, Len(<<>>), pending, wdests, 0)
  <2>1. \A j \in TJumps(block) : JumpDest(block, j) \in pending
    BY <1>3, FlowFacts
  <2>2. QED
    BY <2>1 DEF Looping
<1> HIDE DEF stacks, wdests, srcs
<1>10. Progress(block, dests, From(dests, 0), <<>>, 0, stacks, wdests, srcs)
  <2>1. 0 \in TStarts(block) \/ 0 >= Len(block)
    BY <1>1, <1>2
  <2>2. 0 \in Nat /\ WholeCode("w", <<>>)
    BY <1>4
  <2>3. QED
    BY <1>6, <1>7, <1>8, <1>9, <2>1, <2>2, Zenon DEF Progress
<1>11. QED
  BY <1>10 DEF stacks, wdests, srcs

\* The checker comes to a destination: what the patch leaves.
ArrivedOut(out, stack, srcs) == IF stack # NotSaved THEN PatchAll(out, srcs, Len(out)) ELSE out

\* The jumps that wait for the destination ip.
LEMMA WaitedFor ==
  ASSUME NEW block, NEW dests, Flows(block, dests), NEW out, NEW ip, NEW stacks, NEW wdests, NEW srcs,
         Progress(block, dests, From(dests, ip), out, ip, stacks, wdests, srcs), ip \in dests
  PROVE  /\ ip \in From(dests, ip)
         /\ srcs[ip] \subseteq Unpatched(out)
         /\ srcs[ip] \subseteq WJumps(out)
         /\ stacks[ip] # NotSaved <=> srcs[ip] # {}
         /\ \A s \in srcs[ip] : InS16(Len(out) - s - 1) /\ Len(out) - s - 1 > 0
<1>1. /\ ip \in Nat
      /\ ip \in From(dests, ip)
      /\ WholeCode("w", out)
      /\ Waiting(out, From(dests, ip), stacks, srcs)
      /\ Traced(block, Len(out), From(dests, ip), srcs, ip)
  BY DEF Progress, From
<1>2. srcs[ip] \subseteq Unpatched(out) /\ srcs[ip] \subseteq WJumps(out)
  BY <1>1 DEF Waiting, Unpatched
<1>3. ASSUME NEW s \in srcs[ip]
      PROVE  InS16(Len(out) - s - 1) /\ Len(out) - s - 1 > 0
  <2>1. s \in Nat /\ Len(out) \in Nat /\ s + 3 <= Len(out)
    BY <1>1, <1>2, WaitingFits
  <2>2. PICK j \in TJumps(block) : JumpDest(block, j) = ip /\ j < ip /\ Len(out) - s <= ip - j
    BY <1>1 DEF Traced
  <2>3. /\ j \in Nat
        /\ read_s16(block, j + 1) \in Int
        /\ ip = j + 1 + read_s16(block, j + 1)
        /\ InS16(read_s16(block, j + 1))
    BY <2>2, FlowFacts DEF Flows
  <2>4. Words16 \div 2 \in Nat
    BY Halves
  <2>5. QED
    BY <1>1, <2>1, <2>2, <2>3, <2>4, SMTT(40) DEF InS16
<1>4. QED
  BY <1>1, <1>2, <1>3 DEF Waiting

\* None of them is left waiting.
Answered(out, out2, srcs) ==
  /\ Redirected(out, out2, srcs, Len(out))
  /\ Unpatched(out2) = Unpatched(out) \ srcs

\* The block of which the waiting jumps are patched.
LEMMA ArrivedBlock ==
  ASSUME NEW block, NEW dests, Flows(block, dests), NEW out, NEW ip, NEW stacks, NEW wdests, NEW srcs,
         Progress(block, dests, From(dests, ip), out, ip, stacks, wdests, srcs), ip \in dests,
         NEW out2, out2 = ArrivedOut(out, stacks[ip], srcs[ip])
  PROVE  Answered(out, out2, srcs[ip])
<1> DEFINE waited == srcs[ip]
<1>1. /\ waited \subseteq Unpatched(out)
      /\ waited \subseteq WJumps(out)
      /\ stacks[ip] # NotSaved <=> waited # {}
      /\ \A s \in waited : InS16(Len(out) - s - 1) /\ Len(out) - s - 1 > 0
  BY WaitedFor
<1>2. WholeCode("w", out) /\ Len(out) \in Nat
  BY LenProperties DEF Progress, WholeCode
<1>3. CASE stacks[ip] = NotSaved
  <2>1. out2 = out /\ waited = {}
    BY <1>1, <1>3 DEF ArrivedOut
  <2>2. QED
    BY <1>2, <2>1 DEF Redirected, Answered
<1>4. CASE stacks[ip] # NotSaved
  <2>1. out2 = PatchAll(out, waited, Len(out))
    BY <1>4 DEF ArrivedOut
  <2> HIDE DEF waited
  <2>2. Redirected(out, out2, waited, Len(out))
    BY <1>1, <1>2, <2>1, PatchWaiting
  <2>3. Unpatched(out2) = Unpatched(out) \ waited
    <3>1. \A s \in waited : read_s16(out2, s + 1) # 0
      BY <1>1, <2>2 DEF Redirected
    <3>2. QED
      BY <1>1, <2>2, <3>1 DEF Unpatched, Redirected
  <2>4. QED
    BY <2>2, <2>3 DEF waited, Answered
<1>5. QED
  BY <1>3, <1>4

LEMMA AheadFrom ==
  ASSUME NEW dests, dests \subseteq Nat, NEW ip \in Nat
  PROVE  Ahead(dests, ip) = From(dests, ip) \ {ip}
<1>1. \A d \in dests : d > ip <=> d >= ip /\ d # ip
  OBVIOUS
<1>2. QED
  BY <1>1, Zenon DEF From, Ahead

\* The first part of an iteration.
LEMMA ProgressArrives ==
  ASSUME NEW block, NEW dests, Flows(block, dests), NEW out, NEW ip, NEW stacks, NEW wdests, NEW srcs,
         Progress(block, dests, From(dests, ip), out, ip, stacks, wdests, srcs), ip \in dests,
         NEW out2, out2 = ArrivedOut(out, stacks[ip], srcs[ip]),
         NEW stacks2 \in [dests -> Stacks \cup {NotSaved}],
         \A d \in dests : d # ip => stacks2[d] = stacks[d]
  PROVE  Progress(block, dests, Ahead(dests, ip), out2, ip, stacks2,
                  [wdests EXCEPT ![ip] = Len(out)], srcs)
<1> DEFINE before == From(dests, ip)
           after  == Ahead(dests, ip)
           wdests2 == [wdests EXCEPT ![ip] = Len(out)]
<1>1. /\ ip \in Nat
      /\ ip \in TStarts(block) \/ ip >= Len(block)
      /\ WholeCode("w", out) /\ Len(out) \in Nat
      /\ Tables(dests, stacks, wdests, srcs)
      /\ Waiting(out, before, stacks, srcs)
      /\ Traced(block, Len(out), before, srcs, ip)
      /\ Looping(block, Len(out), before, wdests, ip)
  BY LenProperties DEF Progress, WholeCode
<1>2. /\ WholeCode("w", out2)
      /\ Len(out2) = Len(out)
      /\ Unpatched(out2) = Unpatched(out) \ srcs[ip]
  <2>1. Answered(out, out2, srcs[ip])
    BY ArrivedBlock
  <2>2. QED
    BY <2>1 DEF Redirected, Answered
<1>3. dests \subseteq Nat
  BY DEF Flows, WholeBlock, Whole
<1>4. after = before \ {ip} /\ ip \in before /\ before \subseteq dests
  <2>1. Ahead(dests, ip) = From(dests, ip) \ {ip}
    BY <1>1, <1>3, AheadFrom
  <2>2. QED
    BY <1>1, <2>1 DEF From
<1> HIDE DEF before, after
<1>5. Tables(dests, stacks2, wdests2, srcs)
  BY <1>1 DEF Tables
<1>6. Waiting(out2, after, stacks2, srcs)
  <2>1. \A d \in after : srcs[d] \cap srcs[ip] = {}
    BY <1>1, <1>4 DEF Waiting
  <2>2. UNION {srcs[d] : d \in before} = (UNION {srcs[d] : d \in after}) \cup srcs[ip]
    BY <1>4
  <2>3. Unpatched(out2) = UNION {srcs[d] : d \in after}
    BY <1>1, <1>2, <2>1, <2>2 DEF Waiting
  <2>4. \A d \in after : stacks2[d] = stacks[d]
    BY <1>4
  <2>5. QED
    BY <1>1, <1>4, <2>3, <2>4 DEF Waiting
<1>7. Traced(block, Len(out), after, srcs, ip)
  BY <1>1, <1>4 DEF Traced
<1>8. Looping(block, Len(out), after, wdests2, ip)
  <2>1. ASSUME NEW j \in TJumps(block), NEW d, d = JumpDest(block, j),
               ip <= j, d <= j, d \notin after
        PROVE  wdests2[d] <= Len(out) /\ Len(out) - wdests2[d] <= ip - d
    <3>1. d \in dests
      BY <2>1, FlowFacts
    <3>2. CASE d = ip
      <4>1. wdests2[d] = Len(out)
        BY <1>1, <3>1, <3>2 DEF Tables
      <4>2. QED
        BY <1>1, <3>2, <4>1
    <3>3. CASE d # ip
      <4>1. wdests2[d] = wdests[d] /\ d \notin before
        BY <1>1, <1>4, <2>1, <3>1, <3>3 DEF Tables
      <4>2. QED
        BY <1>1, <2>1, <4>1 DEF Looping
    <3>4. QED
      BY <3>2, <3>3
  <2> HIDE DEF wdests2
  <2>2. QED
    BY <2>1 DEF Looping
<1>9. QED
  BY <1>1, <1>2, <1>5, <1>6, <1>7, <1>8 DEF Progress, after

\* From an instruction to the next.
Follows(block, dests, ip, next) ==
  /\ ip \in Nat
  /\ next \in Nat
  /\ next > ip
  /\ next \in TStarts(block) \/ next >= Len(block)
  /\ From(dests, next) = Ahead(dests, ip)
  /\ \A at \in TStarts(block) : at < next <=> at <= ip

LEMMA NextFollows ==
  ASSUME NEW block, NEW dests, Flows(block, dests), NEW ip \in TStarts(block),
         NEW next, next = After("t", block, ip)
  PROVE  Follows(block, dests, ip, next)
<1>1. /\ Whole(TStarts(block), "t", block)
      /\ TStarts(block) \subseteq 0..(Len(block) - 1)
      /\ dests \subseteq TStarts(block)
      /\ Len(block) \in Nat
  BY LenProperties DEF Flows, WholeBlock, Whole
<1>2. ip \in Nat
  BY <1>1
<1>3. next \in Nat /\ next > ip
  BY <1>2, AfterType
<1>4. /\ next \in TStarts(block) \cup {Len(block)}
      /\ \A at \in TStarts(block) : at <= ip \/ at >= next
  BY <1>1 DEF Whole
<1>5. \A at \in TStarts(block) : (at < next <=> at <= ip) /\ (at >= next <=> at > ip)
  BY <1>1, <1>2, <1>3, <1>4
<1>6. From(dests, next) = Ahead(dests, ip)
  BY <1>1, <1>5, Zenon DEF From, Ahead
<1>7. next \in TStarts(block) \/ next >= Len(block)
  BY <1>1, <1>4
<1>8. QED
  BY <1>2, <1>3, <1>5, <1>6, <1>7 DEF Follows

\* What both codes move on by.
LEMMA Moved ==
  ASSUME NEW block, NEW dests, Flows(block, dests), NEW pending, pending \subseteq dests,
         NEW len \in Nat, NEW ip \in Nat, NEW size \in Nat, NEW stacks, NEW wdests, NEW srcs,
         Tables(dests, stacks, wdests, srcs),
         Traced(block, len, pending, srcs, ip), Looping(block, len, pending, wdests, ip)
  PROVE  /\ Traced(block, len + size, pending, srcs, ip + size)
         /\ Looping(block, len + size, pending, wdests, ip + size)
<1>1. srcs \in [dests -> SUBSET Nat] /\ wdests \in [dests -> Nat]
  BY DEF Tables
<1>2. \A j \in TJumps(block) : j \in Nat /\ JumpDest(block, j) \in Nat /\ JumpDest(block, j) \in dests
  BY FlowFacts
<1>3. ASSUME NEW d \in pending, NEW s \in srcs[d]
      PROVE  \E j \in TJumps(block) :
               JumpDest(block, j) = d /\ j < ip + size /\ (len + size) - s <= (ip + size) - j
  <2>1. PICK j \in TJumps(block) : JumpDest(block, j) = d /\ j < ip /\ len - s <= ip - j
    BY <1>3 DEF Traced
  <2>2. s \in Nat /\ j \in Nat
    BY <1>1, <1>2, <1>3
  <2>3. QED
    BY <2>1, <2>2
<1>4. ASSUME NEW j \in TJumps(block), NEW d, d = JumpDest(block, j),
             ip + size <= j, d <= j, d \notin pending
      PROVE  wdests[d] <= len + size /\ (len + size) - wdests[d] <= (ip + size) - d
  <2>1. j \in Nat /\ d \in Nat /\ wdests[d] \in Nat
    BY <1>1, <1>2, <1>4
  <2>2. ip <= j
    BY <1>4, <2>1
  <2>3. wdests[d] <= len /\ len - wdests[d] <= ip - d
    BY <1>4, <2>2 DEF Looping
  <2>4. QED
    BY <2>1, <2>3
<1>5. Traced(block, len + size, pending, srcs, ip + size)
  BY <1>3 DEF Traced
<1>6. Looping(block, len + size, pending, wdests, ip + size)
  BY <1>4 DEF Looping
<1>7. QED
  BY <1>5, <1>6

\* The W-code after an instruction.
Grown(out, bytes, out2) ==
  /\ WholeCode("w", out2)
  /\ Len(out) \in Nat
  /\ Len(out2) = Len(out) + Len(bytes)
  /\ WStarts(out2) = WStarts(out) \cup {Len(out)}
  /\ \A at \in WStarts(out) : At(out2, at) = At(out, at)
  /\ At(out2, Len(out)) = At(bytes, 0)
  /\ WJumps(out2) = WJumps(out) \cup (IF is_w_jump(At(bytes, 0)) THEN {Len(out)} ELSE {})
  /\ \A at \in WJumps(out) : read_s16(out2, at + 1) = read_s16(out, at + 1)
  /\ \A at \in WStarts(out) : at < Len(out)

LEMMA OutGrows ==
  ASSUME NEW out, WholeCode("w", out), NEW bytes \in Seq(Nat),
         Len(bytes) = get_w_instruction_size(At(bytes, 0)),
         NEW out2, out2 = out \o bytes
  PROVE  Grown(out, bytes, out2)
<1>1. Len(bytes) = SizeIn("w", At(bytes, 0)) /\ "w" \in {"t", "w"}
  BY ThatIsW
<1>2. /\ WholeCode("w", out2)
      /\ Starts("w", out2) = Starts("w", out) \cup {Len(out)}
      /\ Len(out2) = Len(out) + Len(bytes)
      /\ \A ip \in Starts("w", out) : At(out2, ip) = At(out, ip)
      /\ At(out2, Len(out)) = At(bytes, 0)
  BY <1>1, CodeAppend
<1>3. /\ JumpsIn("w", out2) = JumpsIn("w", out)
               \cup (IF IsJump("w", At(bytes, 0)) THEN {Len(out)} ELSE {})
      /\ \A ip \in JumpsIn("w", out) : read_s16(out2, ip + 1) = read_s16(out, ip + 1)
  BY <1>1, CodeAppendJumps
<1>4. Len(out) \in Nat /\ Starts("w", out) \subseteq 0..(Len(out) - 1)
  BY LenProperties DEF WholeCode, Whole
<1>5. \A at \in Starts("w", out) : at < Len(out)
  BY <1>4
<1>6. QED
  BY <1>2, <1>3, <1>4, <1>5, ThatIsW DEF Grown

\* An instruction that is no jump is copied.
LEMMA ProgressPlain ==
  ASSUME NEW block, NEW dests, Flows(block, dests), NEW out, NEW ip, NEW stacks, NEW wdests, NEW srcs,
         Progress(block, dests, Ahead(dests, ip), out, ip, stacks, wdests, srcs),
         ip \in TStarts(block), NEW bytes \in Seq(Nat), ~is_w_jump(At(bytes, 0)),
         Len(bytes) = get_w_instruction_size(At(bytes, 0)),
         NEW next, next = ip + Len(bytes), next = After("t", block, ip),
         NEW out2, out2 = out \o bytes
  PROVE  Progress(block, dests, From(dests, next), out2, next, stacks, wdests, srcs)
<1> DEFINE pending == Ahead(dests, ip)
<1>1. /\ ip \in Nat
      /\ WholeCode("w", out)
      /\ Tables(dests, stacks, wdests, srcs)
      /\ Waiting(out, pending, stacks, srcs)
      /\ Traced(block, Len(out), pending, srcs, ip)
      /\ Looping(block, Len(out), pending, wdests, ip)
      /\ pending \subseteq dests
  BY DEF Progress, Ahead
<1>2. Follows(block, dests, ip, next)
  BY NextFollows
<1>3. From(dests, next) = pending
  BY <1>2 DEF Follows
<1> HIDE DEF pending
<1>4. Grown(out, bytes, out2)
  BY <1>1, OutGrows
<1>5. Waiting(out2, pending, stacks, srcs)
  <2>1. Unpatched(out2) = Unpatched(out)
    BY <1>4 DEF Unpatched, Grown
  <2>2. QED
    BY <1>1, <2>1 DEF Waiting
<1>6. /\ Traced(block, Len(out2), pending, srcs, next)
      /\ Looping(block, Len(out2), pending, wdests, next)
  <2>1. Len(out) \in Nat /\ Len(bytes) \in Nat /\ Len(out2) = Len(out) + Len(bytes)
    BY <1>4, LenProperties DEF Grown
  <2>2. /\ Traced(block, Len(out) + Len(bytes), pending, srcs, ip + Len(bytes))
        /\ Looping(block, Len(out) + Len(bytes), pending, wdests, ip + Len(bytes))
    BY <1>1, <2>1, Moved
  <2>3. QED
    BY <2>1, <2>2
<1>7. QED
  BY <1>1, <1>2, <1>3, <1>4, <1>5, <1>6 DEF Progress, Follows, Grown


\* An operand with one more jump.
Jumped(out, op, v, out2) ==
  /\ WholeCode("w", out2)
  /\ Len(out) \in Nat
  /\ Len(out2) = Len(out) + 3
  /\ WStarts(out2) = WStarts(out) \cup {Len(out)}
  /\ \A at \in WStarts(out) : At(out2, at) = At(out, at)
  /\ At(out2, Len(out)) = op
  /\ WJumps(out2) = WJumps(out) \cup {Len(out)}
  /\ \A at \in WJumps(out) : read_s16(out2, at + 1) = read_s16(out, at + 1)
  /\ \A at \in WStarts(out) : at < Len(out)
  /\ read_s16(out2, Len(out) + 1) = v

LEMMA OutJumps ==
  ASSUME NEW out, WholeCode("w", out), NEW op \in Nat, is_w_jump(op), NEW v \in Int, InS16(v),
         NEW out2, out2 = out \o (<<op>> \o U16(v))
  PROVE  Jumped(out, op, v, out2)
<1> DEFINE bytes == <<op>> \o U16(v)
<1>1. /\ bytes \in Seq(Nat)
      /\ Len(bytes) = 3
      /\ At(bytes, 0) = op
      /\ read_s16(out \o bytes, Len(out) + 1) = v
  BY EmittedOperand DEF WholeCode
<1>2. out2 = out \o bytes
  OBVIOUS
<1> HIDE DEF bytes
<1>3. Len(bytes) = get_w_instruction_size(At(bytes, 0))
  <2>1. IsJump("w", op) /\ "w" \in {"t", "w"}
    BY ThatIsW
  <2>2. SizeIn("w", op) = 3
    BY <2>1, CodeJumpSize
  <2>3. QED
    BY <1>1, <2>2, ThatIsW
<1>4. Grown(out, bytes, out2)
  BY <1>1, <1>2, <1>3, OutGrows
<1>5. QED
  BY <1>1, <1>2, <1>4 DEF Grown, Jumped

\* copy_jump_instruction: the operand of a jump back is the distance, and fits; that of
\* a jump forward is zero.
CopiedOperand(block, ip, out, wdests) ==
  IF read_s16(block, ip + 1) < 0 THEN wdests[JumpDest(block, ip)] - Len(out) - 1 ELSE 0

LEMMA OperandFits ==
  ASSUME NEW block, NEW dests, Flows(block, dests), NEW out, NEW ip, NEW stacks, NEW wdests, NEW srcs,
         Progress(block, dests, Ahead(dests, ip), out, ip, stacks, wdests, srcs),
         ip \in TJumps(block), NEW v, v = CopiedOperand(block, ip, out, wdests)
  PROVE  /\ v \in Int /\ InS16(v)
         /\ v = 0 <=> JumpDest(block, ip) \in Ahead(dests, ip)
         /\ v # 0 => v < 0 /\ JumpDest(block, ip) <= ip
<1> DEFINE d == JumpDest(block, ip)
<1>1. /\ ip \in Nat
      /\ d \in Nat /\ d \in dests
      /\ read_s16(block, ip + 1) \in Int
      /\ d = ip + 1 + read_s16(block, ip + 1)
      /\ InS16(read_s16(block, ip + 1))
      /\ read_s16(block, ip + 1) < 0 <=> d <= ip
  BY FlowFacts DEF Flows
<1>2. /\ Tables(dests, stacks, wdests, srcs)
      /\ Looping(block, Len(out), Ahead(dests, ip), wdests, ip)
      /\ Len(out) \in Nat
  BY LenProperties DEF Progress, WholeCode
<1>3. Words16 \div 2 \in Nat /\ Words16 \div 2 > 0
  BY Halves
<1>4. d \in Ahead(dests, ip) <=> d > ip
  BY <1>1 DEF Ahead
<1>5. CASE d <= ip
  <2>1. v = wdests[d] - Len(out) - 1
    BY <1>1, <1>5 DEF CopiedOperand
  <2>2. wdests[d] \in Nat /\ wdests[d] <= Len(out) /\ Len(out) - wdests[d] <= ip - d
    BY <1>1, <1>2, <1>4, <1>5 DEF Looping, Tables
  <2> HIDE DEF d
  <2>3. v \in Int /\ v < 0 /\ v >= d - ip - 1
    <3>1. ASSUME NEW w \in Nat, NEW len \in Nat, NEW dest \in Nat, NEW at \in Nat,
                 w <= len, len - w <= at - dest
          PROVE  w - len - 1 \in Int /\ w - len - 1 < 0 /\ w - len - 1 >= dest - at - 1
      BY <3>1
    <3>2. QED
      BY <1>1, <1>2, <2>1, <2>2, <3>1
  <2>4. InS16(v)
    BY <1>1, <1>3, <2>3 DEF InS16
  <2>5. QED
    BY <1>1, <1>4, <1>5, <2>3, <2>4 DEF d
<1>6. CASE d > ip
  <2>1. v = 0
    BY <1>1, <1>6 DEF CopiedOperand
  <2>2. InS16(v) /\ v \in Int
    BY <1>3, <2>1 DEF InS16
  <2>3. QED
    BY <1>4, <1>6, <2>1, <2>2
<1>7. QED
  BY <1>1, <1>5, <1>6

LEMMA NotSavedIsNoStack == NotSaved \notin Stacks
<1>1. SUFFICES ASSUME NotSaved \in Stacks PROVE FALSE
  OBVIOUS
<1>2. NotSaved[1] \in Types
  BY <1>1 DEF Stacks, NotSaved
<1>3. QED
  BY <1>2 DEF NotSaved, Types, IntType, WordType, ErrorType

\* save_jump.
JumpSaves(stacks, d, stack) == IF stacks[d] # NotSaved THEN stacks ELSE [stacks EXCEPT ![d] = stack]

\* A jump is copied, and recorded at its destination.
LEMMA ProgressJump ==
  ASSUME NEW block, NEW dests, Flows(block, dests), NEW out, NEW ip, NEW stacks, NEW wdests, NEW srcs,
         Progress(block, dests, Ahead(dests, ip), out, ip, stacks, wdests, srcs),
         ip \in TJumps(block), NEW op \in Nat, is_w_jump(op),
         NEW v, v = CopiedOperand(block, ip, out, wdests),
         NEW out2, out2 = out \o (<<op>> \o U16(v)),
         NEW d, d = JumpDest(block, ip), NEW stack \in Stacks,
         NEW stacks2, stacks2 = JumpSaves(stacks, d, stack),
         NEW srcs2, srcs2 = [srcs EXCEPT ![d] = @ \cup {Len(out)}]
  PROVE  Progress(block, dests, From(dests, ip + 3), out2, ip + 3, stacks2, wdests, srcs2)
<1> DEFINE pending == Ahead(dests, ip)
           next    == ip + 3
<1>1. /\ ip \in Nat
      /\ WholeCode("w", out)
      /\ Tables(dests, stacks, wdests, srcs)
      /\ Waiting(out, pending, stacks, srcs)
      /\ Traced(block, Len(out), pending, srcs, ip)
      /\ Looping(block, Len(out), pending, wdests, ip)
      /\ pending \subseteq dests
  BY DEF Progress, Ahead
<1>2. d \in dests
  BY FlowFacts
<1>3. Follows(block, dests, ip, next)
  <2>1. ip \in TStarts(block) /\ After("t", block, ip) = next
    BY JumpSize, SizeOfT DEF TJumps, After
  <2>2. QED
    BY <2>1, NextFollows
<1>4. /\ v \in Int /\ InS16(v)
      /\ v = 0 <=> d \in pending
  BY OperandFits
<1>5. From(dests, next) = pending
  BY <1>3 DEF Follows
<1> HIDE DEF pending
<1>6. Jumped(out, op, v, out2)
  BY <1>1, <1>4, OutJumps
<1>7. Unpatched(out2) = Unpatched(out) \cup (IF d \in pending THEN {Len(out)} ELSE {})
  <2>1. \A at \in WJumps(out) : at \in WStarts(out)
    BY DEF WJumps
  <2>2. QED
    BY <1>4, <1>6, <2>1 DEF Unpatched, Jumped
<1>8. Tables(dests, stacks2, wdests, srcs2)
  BY <1>1, <1>2, <1>6 DEF Tables, JumpSaves, Jumped
<1>9. \A e \in dests : srcs2[e] = IF e = d THEN srcs[e] \cup {Len(out)} ELSE srcs[e]
  BY <1>1, <1>2 DEF Tables
<1>10. \A e \in dests : stacks2[e] = IF e = d /\ stacks[e] = NotSaved THEN stack ELSE stacks[e]
  BY <1>1, <1>2 DEF Tables, JumpSaves
<1>11. \A e \in pending : Len(out) \notin srcs[e]
  <2>1. ASSUME NEW e \in pending, Len(out) \in srcs[e] PROVE FALSE
    <3>1. Len(out) \in Unpatched(out)
      BY <1>1, <2>1 DEF Waiting
    <3>2. Len(out) + 3 <= Len(out) /\ Len(out) \in Nat
      BY <1>1, <3>1, WaitingFits
    <3>3. QED
      BY <3>2
  <2>2. QED
    BY <2>1
<1>12. Waiting(out2, pending, stacks2, srcs2)
  <2>1. Unpatched(out2) = UNION {srcs2[e] : e \in pending}
    <3>1. Unpatched(out) = UNION {srcs[e] : e \in pending}
      BY <1>1 DEF Waiting
    <3>2. CASE d \in pending
      <4>1. UNION {srcs2[e] : e \in pending} = (UNION {srcs[e] : e \in pending}) \cup {Len(out)}
        <5>1. srcs2[d] = srcs[d] \cup {Len(out)} /\ \A e \in pending : e # d => srcs2[e] = srcs[e]
          BY <1>1, <1>2, <1>9
        <5>2. \A x : (\E e \in pending : x \in srcs2[e])
                        <=> (\E e \in pending : x \in srcs[e]) \/ x = Len(out)
          BY <3>2, <5>1, Zenon
        <5>3. QED
          BY <5>2
      <4>2. QED
        BY <1>7, <3>1, <3>2, <4>1
    <3>3. CASE d \notin pending
      <4>1. \A e \in pending : srcs2[e] = srcs[e]
        BY <1>1, <1>9, <3>3
      <4>2. QED
        BY <1>7, <3>1, <3>3, <4>1
    <3>4. QED
      BY <3>2, <3>3
  <2>2. ASSUME NEW e \in pending PROVE stacks2[e] # NotSaved <=> srcs2[e] # {}
    <3>1. e \in dests /\ (stacks[e] # NotSaved <=> srcs[e] # {})
      BY <1>1 DEF Waiting
    <3>2. stack # NotSaved
      BY NotSavedIsNoStack
    <3>3. CASE e = d
      <4>1. srcs2[e] = srcs[e] \cup {Len(out)}
        BY <1>9, <3>1, <3>3
      <4>2. stacks2[e] = IF stacks[e] = NotSaved THEN stack ELSE stacks[e]
        BY <1>10, <3>1, <3>3
      <4>3. stacks2[e] # NotSaved
        BY <3>2, <4>2
      <4>4. QED
        BY <4>1, <4>3
    <3>4. CASE e # d
      BY <1>9, <1>10, <3>1, <3>4
    <3>5. QED
      BY <3>3, <3>4
  <2>3. ASSUME NEW e \in pending, NEW f \in pending, e # f PROVE srcs2[e] \cap srcs2[f] = {}
    <3>1. srcs[e] \cap srcs[f] = {}
      BY <1>1, <2>3 DEF Waiting
    <3>2. QED
      BY <1>1, <1>9, <1>11, <2>3, <3>1
  <2>4. QED
    BY <2>1, <2>2, <2>3, Zenon DEF Waiting
<1>13. /\ Traced(block, Len(out) + 3, pending, srcs, ip + 3)
       /\ Looping(block, Len(out) + 3, pending, wdests, ip + 3)
  <2>1. Len(out) \in Nat
    BY <1>6 DEF Jumped
  <2>2. QED
    BY <1>1, <2>1, Moved
<1>14. Len(out2) = Len(out) + 3 /\ Len(out) \in Nat
  BY <1>6 DEF Jumped
<1>15. Traced(block, Len(out2), pending, srcs2, next)
  <2>1. ASSUME NEW e \in pending, NEW s \in srcs2[e]
        PROVE  \E j \in TJumps(block) :
                 JumpDest(block, j) = e /\ j < next /\ Len(out2) - s <= next - j
    <3>1. CASE s \in srcs[e]
      BY <1>13, <1>14, <3>1 DEF Traced
    <3>2. CASE s \notin srcs[e]
      <4>1. e = d /\ s = Len(out)
        BY <1>1, <1>9, <2>1, <3>2
      <4>2. ip < next /\ Len(out2) - s <= next - ip
        BY <1>1, <1>14, <4>1
      <4>3. QED
        BY <4>1, <4>2
    <3>3. QED
      BY <3>1, <3>2
  <2> HIDE DEF next
  <2>2. QED
    BY <2>1 DEF Traced
<1>16. QED
  BY <1>1, <1>3, <1>5, <1>6, <1>8, <1>12, <1>13, <1>14, <1>15 DEF Progress, Follows, Jumped

-----------------------------------------------------------------------------
(* Unreachable code.                                                       *)

\* Going on at `next' instead of `from' misses no destination that is waited for.
SkipsTo(block, dests, stacks, from, next) ==
  /\ next \in Nat
  /\ next >= from
  /\ next >= Len(block) \/ (next \in dests /\ stacks[next] # NotSaved)
  /\ \A d \in dests : from <= d /\ d < next => stacks[d] = NotSaved

LEMMA ProgressSkips ==
  ASSUME NEW block, NEW dests, Flows(block, dests), NEW out, NEW from, NEW stacks, NEW wdests, NEW srcs,
         Progress(block, dests, From(dests, from), out, from, stacks, wdests, srcs),
         NEW next, SkipsTo(block, dests, stacks, from, next)
  PROVE  Progress(block, dests, From(dests, next), out, next, stacks, wdests, srcs)
<1> DEFINE before == From(dests, from)
           after  == From(dests, next)
<1>1. /\ from \in Nat
      /\ WholeCode("w", out)
      /\ Tables(dests, stacks, wdests, srcs)
      /\ Waiting(out, before, stacks, srcs)
      /\ Traced(block, Len(out), before, srcs, from)
      /\ Looping(block, Len(out), before, wdests, from)
      /\ Len(out) \in Nat
  BY LenProperties DEF Progress, WholeCode
<1>2. /\ next \in Nat /\ next >= from
      /\ next >= Len(block) \/ (next \in dests /\ stacks[next] # NotSaved)
      /\ \A d \in dests : from <= d /\ d < next => stacks[d] = NotSaved
  BY DEF SkipsTo
<1>3. /\ dests \subseteq TStarts(block)
      /\ TStarts(block) \subseteq 0..(Len(block) - 1)
      /\ Len(block) \in Nat
  BY LenProperties DEF Flows, WholeBlock, Whole
<1>4. dests \subseteq Nat
  BY <1>3
<1>5. after \subseteq before /\ \A d \in before \ after : d \in dests /\ from <= d /\ d < next
  <2>1. \A d \in dests : d >= next => d >= from
    BY <1>1, <1>2, <1>4
  <2>2. \A d \in dests : d >= from /\ ~(d >= next) => from <= d /\ d < next
    BY <1>1, <1>2, <1>4
  <2>3. QED
    BY <2>1, <2>2 DEF From
<1>6. \A d \in before \ after : srcs[d] = {}
  <2>1. \A d \in before \ after : stacks[d] = NotSaved
    BY <1>2, <1>5
  <2> HIDE DEF before, after
  <2>2. QED
    BY <1>1, <2>1 DEF Waiting
<1>7. \A d \in dests : (d \in before <=> d >= from) /\ (d \in after <=> d >= next)
  BY DEF From
<1> HIDE DEF before, after
<1>8. Waiting(out, after, stacks, srcs)
  <2>1. UNION {srcs[d] : d \in after} = UNION {srcs[d] : d \in before}
    BY <1>5, <1>6
  <2>2. QED
    BY <1>1, <1>5, <2>1 DEF Waiting
<1>9. Traced(block, Len(out), after, srcs, next)
  <2>1. ASSUME NEW d \in after, NEW s \in srcs[d]
        PROVE  \E j \in TJumps(block) : JumpDest(block, j) = d /\ j < next /\ Len(out) - s <= next - j
    <3>1. PICK j \in TJumps(block) : JumpDest(block, j) = d /\ j < from /\ Len(out) - s <= from - j
      BY <1>1, <1>5 DEF Traced
    <3>2. j \in Nat /\ d \in dests
      BY <3>1, FlowFacts
    <3>3. s \in Nat
      BY <1>1, <3>2 DEF Tables
    <3>4. QED
      BY <1>1, <1>2, <3>1, <3>2, <3>3
  <2>2. QED
    BY <2>1 DEF Traced
<1>10. Looping(block, Len(out), after, wdests, next)
  <2>1. ASSUME NEW j \in TJumps(block), NEW d, d = JumpDest(block, j),
               next <= j, d <= j, d \notin after
        PROVE  wdests[d] <= Len(out) /\ Len(out) - wdests[d] <= next - d
    <3>1. j \in Nat /\ d \in dests /\ d \in Nat /\ wdests[d] \in Nat /\ j \in TStarts(block)
      BY <1>1, <2>1, FlowFacts DEF Tables, TJumps
    <3>2. d < next /\ from <= j
      BY <1>1, <1>2, <1>7, <2>1, <3>1
    <3>3. CASE d < from
      <4>1. wdests[d] <= Len(out) /\ Len(out) - wdests[d] <= from - d
        BY <1>1, <1>7, <2>1, <3>1, <3>2, <3>3 DEF Looping
      <4>2. QED
        BY <1>1, <1>2, <3>1, <4>1
    <3>4. CASE d >= from
      <4>1. next < Len(block)
        BY <1>2, <1>3, <2>1, <3>1
      <4>2. next \in dests /\ stacks[next] # NotSaved
        BY <1>2, <1>3, <4>1
      <4>3. next \in before
        BY <1>2, <1>7, <4>2
      <4>4. srcs[next] # {}
        BY <1>1, <4>2, <4>3 DEF Waiting
      <4>5. PICK k \in TJumps(block) : JumpDest(block, k) = next /\ k < from
        BY <1>1, <4>3, <4>4 DEF Traced
      <4>6. k \in Nat /\ k < d
        BY <1>1, <3>1, <3>4, <4>5, FlowFacts
      <4>7. next <= d \/ next > j
        BY <2>1, <4>5, <4>6 DEF Flows
      <4>8. QED
        BY <1>2, <2>1, <3>1, <3>2, <4>7
    <3>5. QED
      BY <1>1, <3>1, <3>3, <3>4
  <2>2. QED
    BY <2>1 DEF Looping
<1>11. next \in TStarts(block) \/ next >= Len(block)
  BY <1>2, <1>3
<1>12. QED
  BY <1>1, <1>2, <1>8, <1>9, <1>10, <1>11 DEF Progress, after

LEMMA LeastIs ==
  ASSUME NEW S, S \subseteq Nat, S # {}, NEW m, m = Min(S)
  PROVE  m \in S /\ \A k \in S : m <= k
<1>1. \E x \in S : \A y \in S : x <= y
  BY LeastElement
<1>2. QED
  BY <1>1 DEF Min

\* What a call of check_unreachable at the end of an instruction comes to: it goes on
\* where a jump waits or the function ends, and either reports that something is left
\* out, or leaves out nothing but a final return.
Resumes(block, dests, stacks, ip, next) ==
  /\ SkipsTo(block, dests, stacks, ip + 1, next.ip + 1)
  /\ next.load = -1 \/ (next.load = next.ip + 1 /\ next.load \in dests /\ stacks[next.load] # NotSaved)
  /\ next.error \in BOOLEAN
  /\ ~next.error =>
       \/ next.ip + 1 = ip + 1
       \/ next.ip + 1 >= Len(block) /\ ip + 1 >= Len(block)
       \/ next.ip + 1 >= Len(block) /\ ip + 2 >= Len(block) /\ At(block, ip + 1) = T_OP_RET

LEMMA UnreachableResumes ==
  ASSUME NEW block, block = In, block \in Seq(Nat), NEW dests, dests = Jumps, dests \subseteq 0..(Len(block) - 1),
         NEW ip \in Nat, ip + 1 <= Len(block), ip + 1 < Len(block) => At(block, ip + 1) # T_OP_NOP,
         NEW past, NEW stacks, NEW next, next = Unreachable(ip, past, stacks)
  PROVE  Resumes(block, dests, stacks, ip, next)
<1> DEFINE count == Len(block)
           code(i) == IF i < count THEN At(block, i) ELSE past
           forward_dest(i) == i \in dests /\ stacks[i] # NotSaved
           ends  == {i \in ip..count : i = count \/ code(i + 1) # T_OP_NOP \/ i + 1 \in dests}
           skip  == Min(ends)
           lasts == {i \in (skip + 1)..(count + 1) : i + 1 >= count \/ forward_dest(i + 1)}
           last  == Min(lasts)
<1>1. count \in Nat /\ \A d \in dests : d \in Nat /\ d < count
  BY LenProperties
<1>2. next = CASE skip = count -> [ip |-> count, load |-> -1, error |-> FALSE]
               [] skip < count /\ forward_dest(skip + 1) ->
                    [ip |-> skip, load |-> skip + 1, error |-> FALSE]
               [] OTHER ->
                    IF At(block, ip) # T_OP_RET /\ code(skip + 1) = T_OP_RET /\ skip + 2 >= count
                    THEN [ip |-> skip + 1, load |-> -1, error |-> FALSE]
                    ELSE [ip |-> last, load |-> IF last + 1 >= count THEN -1 ELSE last + 1,
                          error |-> TRUE]
  BY Zenon DEF Unreachable
<1> HIDE DEF last, lasts
<1>3. /\ skip \in Nat /\ ip <= skip /\ skip <= count
      /\ \A i \in ip..count : i < skip => i + 1 \notin dests
      /\ ip + 1 < count => skip = ip
  <2>1. ends \subseteq Nat /\ count \in ends
    BY <1>1
  <2>2. skip \in ends /\ \A i \in ends : skip <= i
    <3> HIDE DEF ends
    <3>1. QED
      BY <2>1, LeastIs
  <2> HIDE DEF skip
  <2>3. skip \in Nat /\ ip <= skip /\ skip <= count
    BY <1>1, <2>2
  <2>4. ASSUME NEW i \in ip..count, i < skip PROVE i + 1 \notin dests
    BY <1>1, <2>2, <2>3, <2>4
  <2>5. ASSUME ip + 1 < count PROVE skip = ip
    <3>1. ip \in ends
      BY <1>1, <2>5
    <3>2. QED
      BY <2>2, <2>3, <3>1
  <2>6. QED
    BY <2>3, <2>4, <2>5
<1> HIDE DEF skip, ends
<1>4. ASSUME skip < count
      PROVE  /\ last \in Nat /\ skip + 1 <= last /\ last <= count + 1
             /\ last + 1 >= count \/ forward_dest(last + 1)
             /\ \A i \in (skip + 1)..(count + 1) : i < last => ~forward_dest(i + 1)
  <2>1. lasts \subseteq Nat /\ count + 1 \in lasts
    BY <1>1, <1>3, <1>4 DEF lasts
  <2>2. last \in lasts /\ \A i \in lasts : last <= i
    <3> HIDE DEF lasts
    <3>1. QED
      BY <2>1, LeastIs DEF last
  <2>3. /\ last \in (skip + 1)..(count + 1)
        /\ last + 1 >= count \/ forward_dest(last + 1)
        /\ \A i \in (skip + 1)..(count + 1) : i < last => ~forward_dest(i + 1)
    <3>1. \A i \in lasts : i \in Nat
      BY <2>1
    <3>2. \A i \in (skip + 1)..(count + 1) : i < last => i \notin lasts
      BY <1>1, <1>3, <2>2, <3>1
    <3>3. QED
      BY <2>2, <3>2 DEF lasts
  <2>4. QED
    BY <1>1, <1>3, <2>3
<1>5. ASSUME NEW d \in dests, ip + 1 <= d PROVE d > skip
  <2>1. d - 1 \in ip..count /\ (d - 1) + 1 = d
    BY <1>1, <1>5
  <2>2. ~(d - 1 < skip)
    BY <1>3, <2>1, <1>5
  <2>3. QED
    BY <1>1, <1>3, <2>1, <2>2
<1>6. CASE skip = count
  <2>1. next = [ip |-> count, load |-> -1, error |-> FALSE]
    BY <1>2, <1>6
  <2>2. SkipsTo(block, dests, stacks, ip + 1, count + 1)
    BY <1>1, <1>3, <1>5, <1>6 DEF SkipsTo
  <2>3. ip + 1 >= count
    BY <1>1, <1>3, <1>6
  <2>4. QED
    BY <1>1, <2>1, <2>2, <2>3 DEF Resumes
<1>7. CASE skip < count /\ forward_dest(skip + 1)
  <2>1. next = [ip |-> skip, load |-> skip + 1, error |-> FALSE]
    BY <1>1, <1>2, <1>3, <1>7
  <2>2. SkipsTo(block, dests, stacks, ip + 1, skip + 1)
    BY <1>1, <1>3, <1>5, <1>7 DEF SkipsTo
  <2>3. skip = ip
    BY <1>1, <1>3, <1>7
  <2>4. QED
    BY <1>1, <1>7, <2>1, <2>2, <2>3 DEF Resumes
<1>8. CASE skip < count /\ ~forward_dest(skip + 1)
  <2>0. \A d \in dests : ip + 1 <= d => d > skip /\ (d = skip + 1 => stacks[d] = NotSaved)
    BY <1>5, <1>8
  <2>1. CASE At(block, ip) # T_OP_RET /\ code(skip + 1) = T_OP_RET /\ skip + 2 >= count
    <3>1. next = [ip |-> skip + 1, load |-> -1, error |-> FALSE]
      BY <1>1, <1>2, <1>3, <1>8, <2>1
    <3>2. SkipsTo(block, dests, stacks, ip + 1, skip + 2)
      BY <1>1, <1>3, <2>0, <2>1 DEF SkipsTo
    <3>3. skip + 2 = (skip + 1) + 1
      BY <1>3
    <3>4. \/ ip + 1 >= count
          \/ ip + 2 >= count /\ At(block, ip + 1) = T_OP_RET
      BY <1>1, <1>3, <1>8, <2>1
    <3> HIDE DEF count
    <3>5. QED
      BY <2>1, <3>1, <3>2, <3>3, <3>4 DEF Resumes, count
  <2>2. CASE ~(At(block, ip) # T_OP_RET /\ code(skip + 1) = T_OP_RET /\ skip + 2 >= count)
    <3>1. next = [ip |-> last, load |-> IF last + 1 >= count THEN -1 ELSE last + 1, error |-> TRUE]
      BY <1>1, <1>2, <1>3, <1>8, <2>2
    <3>2. SkipsTo(block, dests, stacks, ip + 1, last + 1)
      <4>1. ASSUME NEW d \in dests, ip + 1 <= d, d < last + 1 PROVE stacks[d] = NotSaved
        <5>1. CASE d = skip + 1
          BY <2>0, <4>1, <5>1
        <5>2. CASE d # skip + 1
          <6>1. d - 1 \in (skip + 1)..(count + 1) /\ d - 1 < last /\ (d - 1) + 1 = d
            BY <1>1, <1>3, <1>4, <1>8, <2>0, <4>1, <5>2, SMTT(40)
          <6>2. ~forward_dest(d)
            BY <1>4, <1>8, <6>1
          <6>3. QED
            BY <6>2
        <5>3. QED
          BY <5>1, <5>2
      <4>2. QED
        BY <1>1, <1>3, <1>4, <1>8, <4>1 DEF SkipsTo
    <3>3. next.load = -1 \/ (next.load = last + 1 /\ forward_dest(last + 1))
      BY <1>4, <1>8, <3>1
    <3>4. QED
      BY <3>1, <3>2, <3>3 DEF Resumes
  <2>3. QED
    BY <2>1, <2>2
<1>9. QED
  BY <1>1, <1>3, <1>6, <1>7, <1>8

-----------------------------------------------------------------------------
(* The W-code of a function without errors.                                *)

\* The W-code so far has the instructions of the T-code so far, at the same offsets:
\* what the subset emits is as long as what it is emitted for.  The jumps go where those
\* of the T-code go, but for those that wait, which are recorded where those of the T-code
\* go.  Only a final return may have been left out.
Mirror(block, dests, pending, out, ip, wdests, srcs, targets) ==
  /\ Len(out) <= Len(block)
  /\ \/ Len(out) = ip
     \/ ip >= Len(block) /\ \A at \in TJumps(block) \cup dests : at < Len(out)
  /\ WStarts(out) = {at \in TStarts(block) : at < Len(out)}
  /\ WJumps(out) = {j \in TJumps(block) : j < Len(out)}
  /\ \A d \in dests \ pending : wdests[d] = d
  /\ targets = dests \ pending
  /\ \A j \in WJumps(out) : JumpDest(block, j) \notin pending => JumpDest(out, j) = JumpDest(block, j)
  /\ \A d \in pending : srcs[d] = {j \in WJumps(out) : JumpDest(block, j) = d}

\* The W-code of a function that is finished.
Mirrored(block, dests, out, targets) ==
  /\ WStarts(out) = {at \in TStarts(block) : at < Len(out)}
  /\ WJumps(out) = TJumps(block)
  /\ \A j \in TJumps(block) : JumpDest(out, j) = JumpDest(block, j)
  /\ \A at \in TJumps(block) \cup dests : at < Len(out)
  /\ targets = dests

LEMMA MirrorStarts ==
  ASSUME NEW block, NEW dests, Flows(block, dests), NEW wdests, NEW srcs,
         srcs = [d \in dests |-> {}]
  PROVE  Mirror(block, dests, From(dests, 0), <<>>, 0, wdests, srcs, {})
<1>1. Len(block) \in Nat /\ dests \subseteq Nat /\ TStarts(block) \subseteq Nat
  BY LenProperties DEF Flows, WholeBlock, Whole
<1>2. From(dests, 0) = dests
  BY <1>1 DEF From
<1>3. WStarts(<<>>) = {} /\ WJumps(<<>>) = {} /\ Len(<<>>) = 0
  BY EmptyCode, ThatIsW DEF WJumps
<1>4. TJumps(block) \subseteq TStarts(block)
  BY DEF TJumps
<1>5. \A at \in TStarts(block) : ~(at < 0)
  BY <1>1
<1>6. QED
  BY <1>1, <1>2, <1>3, <1>4, <1>5 DEF Mirror

\* The sizes of both codes, at an instruction.
LEMMA MirrorAt ==
  ASSUME NEW block, NEW dests, Flows(block, dests), NEW pending, NEW out, NEW ip, NEW wdests, NEW srcs,
         NEW targets, Mirror(block, dests, pending, out, ip, wdests, srcs, targets),
         ip \in TStarts(block)
  PROVE  Len(out) = ip /\ ip \in Nat /\ Len(block) \in Nat /\ ip < Len(block)
<1>1. Len(block) \in Nat /\ ip \in 0..(Len(block) - 1)
  BY LenProperties DEF Flows, WholeBlock, Whole
<1>2. QED
  BY <1>1 DEF Mirror

LEMMA MirrorArrives ==
  ASSUME NEW block, NEW dests, Flows(block, dests), NEW out, NEW ip, NEW stacks, NEW wdests, NEW srcs,
         NEW targets,
         Progress(block, dests, From(dests, ip), out, ip, stacks, wdests, srcs),
         Mirror(block, dests, From(dests, ip), out, ip, wdests, srcs, targets), ip \in dests,
         NEW out2, out2 = ArrivedOut(out, stacks[ip], srcs[ip])
  PROVE  Mirror(block, dests, Ahead(dests, ip), out2, ip, [wdests EXCEPT ![ip] = Len(out)], srcs,
                targets \cup {Len(out)})
<1> DEFINE before == From(dests, ip)
           after  == Ahead(dests, ip)
           wdests2 == [wdests EXCEPT ![ip] = Len(out)]
<1>1. /\ ip \in TStarts(block)
      /\ dests \subseteq Nat
  BY DEF Flows, WholeBlock, Whole
<1>2. Len(out) = ip /\ ip \in Nat /\ Len(block) \in Nat /\ ip < Len(block)
  BY <1>1, MirrorAt
<1>3. after = before \ {ip} /\ ip \in before
  <2>1. Ahead(dests, ip) = From(dests, ip) \ {ip}
    BY <1>1, <1>2, AheadFrom
  <2>2. ip \in From(dests, ip)
    BY <1>2 DEF From
  <2>3. QED
    BY <2>1, <2>2
<1>4. before \subseteq dests
  BY DEF From
<1>5. wdests \in [dests -> Nat]
  BY DEF Progress, Tables
<1>6. Answered(out, out2, srcs[ip])
  BY ArrivedBlock
<1>7. /\ Len(out2) = Len(out)
      /\ WStarts(out2) = WStarts(out)
      /\ WJumps(out2) = WJumps(out)
      /\ \A at \in WJumps(out) \ srcs[ip] : read_s16(out2, at + 1) = read_s16(out, at + 1)
      /\ \A s \in srcs[ip] : InS16(Len(out) - s - 1) => read_s16(out2, s + 1) = Len(out) - s - 1
  BY <1>6 DEF Answered, Redirected
<1>8. \A s \in srcs[ip] : InS16(Len(out) - s - 1)
  BY WaitedFor
<1> HIDE DEF before, after
<1>9. /\ Len(out) <= Len(block)
      /\ WStarts(out) = {at \in TStarts(block) : at < Len(out)}
      /\ WJumps(out) = {j \in TJumps(block) : j < Len(out)}
      /\ \A d \in dests \ before : wdests[d] = d
      /\ targets = dests \ before
      /\ \A j \in WJumps(out) : JumpDest(block, j) \notin before => JumpDest(out, j) = JumpDest(block, j)
      /\ \A d \in before : srcs[d] = {j \in WJumps(out) : JumpDest(block, j) = d}
  BY DEF Mirror, before
<1>10. targets \cup {Len(out)} = dests \ after
  BY <1>2, <1>3, <1>4, <1>9
<1>11. \A d \in dests \ after : wdests2[d] = d
  BY <1>2, <1>3, <1>5, <1>9
<1>12. ASSUME NEW j \in WJumps(out), JumpDest(block, j) \notin after
       PROVE  JumpDest(out2, j) = JumpDest(block, j)
  <2>1. CASE JumpDest(block, j) = ip
    <3>1. j \in srcs[ip]
      BY <1>3, <1>9, <2>1
    <3>2. read_s16(out2, j + 1) = Len(out) - j - 1
      BY <1>7, <1>8, <3>1
    <3>3. j \in Nat
      BY <1>9, FlowFacts
    <3>4. QED
      BY <1>2, <2>1, <3>2, <3>3 DEF JumpDest
  <2>2. CASE JumpDest(block, j) # ip
    <3>1. j \notin srcs[ip] /\ JumpDest(block, j) \notin before
      BY <1>3, <1>9, <1>12, <2>2
    <3>2. read_s16(out2, j + 1) = read_s16(out, j + 1)
      BY <1>7, <3>1
    <3>3. JumpDest(out2, j) = JumpDest(out, j)
      BY <3>2 DEF JumpDest
    <3>4. QED
      BY <1>9, <3>1, <3>3
  <2>3. QED
    BY <2>1, <2>2
<1>13. \A d \in after : srcs[d] = {j \in WJumps(out2) : JumpDest(block, j) = d}
  BY <1>3, <1>7, <1>9
<1> HIDE DEF wdests2
<1>14. Mirror(block, dests, after, out2, ip, wdests2, srcs, targets \cup {Len(out)})
  BY <1>2, <1>7, <1>9, <1>10, <1>11, <1>12, <1>13 DEF Mirror
<1>15. QED
  BY <1>14 DEF after, wdests2

LEMMA MirrorPlain ==
  ASSUME NEW block, NEW dests, Flows(block, dests), NEW out, NEW ip, NEW wdests, NEW srcs, NEW targets,
         WholeCode("w", out),
         Mirror(block, dests, Ahead(dests, ip), out, ip, wdests, srcs, targets),
         ip \in TStarts(block), ~is_t_jump(At(block, ip)),
         NEW bytes \in Seq(Nat), ~is_w_jump(At(bytes, 0)),
         Len(bytes) = get_w_instruction_size(At(bytes, 0)),
         NEW next, next = ip + Len(bytes), next = After("t", block, ip),
         NEW out2, out2 = out \o bytes
  PROVE  Mirror(block, dests, From(dests, next), out2, next, wdests, srcs, targets)
<1> DEFINE pending == Ahead(dests, ip)
<1>1. Len(out) = ip /\ ip \in Nat /\ Len(block) \in Nat /\ ip < Len(block)
  BY MirrorAt
<1>2. Follows(block, dests, ip, next) /\ From(dests, next) = pending
  BY NextFollows DEF Follows
<1>3. Grown(out, bytes, out2)
  BY OutGrows
<1> HIDE DEF pending
<1>4. /\ WStarts(out) = {at \in TStarts(block) : at < Len(out)}
      /\ WJumps(out) = {j \in TJumps(block) : j < Len(out)}
      /\ \A d \in dests \ pending : wdests[d] = d
      /\ targets = dests \ pending
      /\ \A j \in WJumps(out) : JumpDest(block, j) \notin pending => JumpDest(out, j) = JumpDest(block, j)
      /\ \A d \in pending : srcs[d] = {j \in WJumps(out) : JumpDest(block, j) = d}
  BY DEF Mirror, pending
<1>5. next <= Len(block)
  <2>1. TStarts(block) \subseteq 0..(Len(block) - 1) /\ next \in TStarts(block) \cup {Len(block)}
    BY DEF Flows, WholeBlock, Whole
  <2>2. QED
    BY <1>1, <2>1
<1>6. Len(out2) = next /\ Len(out2) <= Len(block)
  BY <1>1, <1>3, <1>5 DEF Grown
<1>7. /\ \A at \in TStarts(block) : at < next <=> at <= ip
      /\ TStarts(block) \subseteq Nat
  BY <1>2 DEF Follows, Flows, WholeBlock, Whole
<1>8. WStarts(out2) = {at \in TStarts(block) : at < Len(out2)}
  <2>1. \A at \in TStarts(block) : at < next <=> at < Len(out) \/ at = Len(out)
    BY <1>1, <1>7
  <2>2. WStarts(out2) = WStarts(out) \cup {Len(out)}
    BY <1>3 DEF Grown
  <2>3. QED
    BY <1>1, <1>4, <1>6, <2>1, <2>2
<1>9. WJumps(out2) = WJumps(out) /\ WJumps(out2) = {j \in TJumps(block) : j < Len(out2)}
  <2>1. \A j \in TJumps(block) : j < next <=> j < Len(out)
    <3>1. ASSUME NEW j \in TJumps(block) PROVE j \in TStarts(block) /\ j # ip
      BY DEF TJumps
    <3>2. QED
      BY <1>1, <1>7, <3>1
  <2>2. WJumps(out2) = WJumps(out)
    BY <1>3 DEF Grown
  <2>3. QED
    BY <1>4, <1>6, <2>1, <2>2
<1>10. ASSUME NEW j \in WJumps(out2), JumpDest(block, j) \notin pending
       PROVE  JumpDest(out2, j) = JumpDest(block, j)
  <2>1. read_s16(out2, j + 1) = read_s16(out, j + 1)
    BY <1>3, <1>9 DEF Grown
  <2>2. QED
    BY <1>4, <1>9, <1>10, <2>1 DEF JumpDest
<1>11. \A d \in pending : srcs[d] = {j \in WJumps(out2) : JumpDest(block, j) = d}
  BY <1>4, <1>9
<1>12. QED
  BY <1>2, <1>4, <1>6, <1>8, <1>9, <1>10, <1>11 DEF Mirror

LEMMA MirrorJump ==
  ASSUME NEW block, NEW dests, Flows(block, dests), NEW out, NEW ip, NEW stacks, NEW wdests, NEW srcs,
         NEW targets,
         Progress(block, dests, Ahead(dests, ip), out, ip, stacks, wdests, srcs),
         Mirror(block, dests, Ahead(dests, ip), out, ip, wdests, srcs, targets),
         ip \in TJumps(block), NEW op \in Nat, is_w_jump(op),
         NEW v, v = CopiedOperand(block, ip, out, wdests),
         NEW out2, out2 = out \o (<<op>> \o U16(v)),
         NEW d, d = JumpDest(block, ip),
         NEW srcs2, srcs2 = [srcs EXCEPT ![d] = @ \cup {Len(out)}]
  PROVE  Mirror(block, dests, From(dests, ip + 3), out2, ip + 3, wdests, srcs2, targets)
<1> DEFINE pending == Ahead(dests, ip)
           next    == ip + 3
<1>0. ip \in TStarts(block) /\ After("t", block, ip) = next
  BY JumpSize, SizeOfT DEF TJumps, After
<1>1. Len(out) = ip /\ ip \in Nat /\ Len(block) \in Nat /\ ip < Len(block)
  BY <1>0, MirrorAt
<1>2. Follows(block, dests, ip, next) /\ From(dests, next) = pending
  BY <1>0, NextFollows DEF Follows
<1>3. /\ v \in Int /\ InS16(v)
      /\ v = 0 <=> d \in pending
  BY OperandFits
<1>4. WholeCode("w", out) /\ Tables(dests, stacks, wdests, srcs)
  BY DEF Progress
<1>5. Jumped(out, op, v, out2)
  BY <1>3, <1>4, OutJumps
<1>6. d \in dests /\ d \in Nat /\ (read_s16(block, ip + 1) < 0 <=> d <= ip)
  BY FlowFacts
<1>7. d \in pending <=> d > ip
  BY <1>6 DEF Ahead
<1>7a. pending \subseteq dests
  BY DEF Ahead
<1> HIDE DEF pending
<1>8. /\ WStarts(out) = {at \in TStarts(block) : at < Len(out)}
      /\ WJumps(out) = {j \in TJumps(block) : j < Len(out)}
      /\ \A e \in dests \ pending : wdests[e] = e
      /\ targets = dests \ pending
      /\ \A j \in WJumps(out) : JumpDest(block, j) \notin pending => JumpDest(out, j) = JumpDest(block, j)
      /\ \A e \in pending : srcs[e] = {j \in WJumps(out) : JumpDest(block, j) = e}
  BY DEF Mirror, pending
<1>9. next <= Len(block)
  <2>1. TStarts(block) \subseteq 0..(Len(block) - 1) /\ next \in TStarts(block) \cup {Len(block)}
    BY <1>0 DEF Flows, WholeBlock, Whole
  <2>2. QED
    BY <1>1, <2>1
<1>10. Len(out2) = next /\ Len(out2) <= Len(block)
  BY <1>1, <1>5, <1>9 DEF Jumped
<1>11. /\ \A at \in TStarts(block) : at < next <=> at <= ip
       /\ TStarts(block) \subseteq Nat
  BY <1>2 DEF Follows, Flows, WholeBlock, Whole
<1>12. \A at \in TStarts(block) : at < next <=> at < Len(out) \/ at = Len(out)
  BY <1>1, <1>11
<1>13. WStarts(out2) = {at \in TStarts(block) : at < Len(out2)}
  <2>1. WStarts(out2) = WStarts(out) \cup {Len(out)}
    BY <1>5 DEF Jumped
  <2>2. QED
    BY <1>0, <1>1, <1>8, <1>10, <1>12, <2>1
<1>14. WJumps(out2) = WJumps(out) \cup {ip} /\ WJumps(out2) = {j \in TJumps(block) : j < Len(out2)}
  <2>1. WJumps(out2) = WJumps(out) \cup {Len(out)}
    BY <1>5 DEF Jumped
  <2>2. \A j \in TJumps(block) : j < next <=> j < Len(out) \/ j = Len(out)
    BY <1>12 DEF TJumps
  <2>3. QED
    BY <1>1, <1>8, <1>10, <2>1, <2>2
<1>15. ASSUME NEW j \in WJumps(out2), JumpDest(block, j) \notin pending
       PROVE  JumpDest(out2, j) = JumpDest(block, j)
  <2>1. CASE j \in WJumps(out)
    <3>1. read_s16(out2, j + 1) = read_s16(out, j + 1)
      BY <1>5, <2>1 DEF Jumped
    <3>2. QED
      BY <1>8, <1>15, <2>1, <3>1 DEF JumpDest
  <2>2. CASE j = ip
    <3>1. v = wdests[d] - Len(out) - 1
      BY <1>1, <1>6, <1>7, <1>15, <2>2 DEF CopiedOperand
    <3>2. wdests[d] = d
      BY <1>6, <1>8, <1>15, <2>2
    <3>3. read_s16(out2, ip + 1) = v
      BY <1>1, <1>5 DEF Jumped
    <3>4. ip + 1 + v = d
      BY <1>1, <1>6, <3>1, <3>2
    <3>5. QED
      BY <2>2, <3>3, <3>4 DEF JumpDest
  <2>3. QED
    BY <1>14, <2>1, <2>2
<1>16. ASSUME NEW e \in pending PROVE srcs2[e] = {j \in WJumps(out2) : JumpDest(block, j) = e}
  <2>1. srcs2[e] = IF e = d THEN srcs[e] \cup {ip} ELSE srcs[e]
    BY <1>1, <1>4, <1>7a DEF Tables
  <2>2. srcs[e] = {j \in WJumps(out) : JumpDest(block, j) = e}
    BY <1>8
  <2>3. QED
    BY <1>14, <2>1, <2>2
<1> HIDE DEF next
<1>17. Mirror(block, dests, From(dests, next), out2, next, wdests, srcs2, targets)
  BY <1>2, <1>8, <1>10, <1>13, <1>14, <1>15, <1>16 DEF Mirror
<1>18. QED
  BY <1>17 DEF next

\* Nothing but a final return is left out without an error.
LEMMA MirrorSkips ==
  ASSUME NEW block, NEW dests, Flows(block, dests), NEW out, NEW ip \in Nat, NEW stacks, NEW wdests, NEW srcs,
         NEW targets,
         Progress(block, dests, From(dests, ip + 1), out, ip + 1, stacks, wdests, srcs),
         Mirror(block, dests, From(dests, ip + 1), out, ip + 1, wdests, srcs, targets),
         NEW next, Resumes(block, dests, stacks, ip, next), ~next.error
  PROVE  Mirror(block, dests, From(dests, next.ip + 1), out, next.ip + 1, wdests, srcs, targets)
<1> DEFINE from == ip + 1
           to   == next.ip + 1
           before == From(dests, from)
           after  == From(dests, to)
<1>1. /\ TStarts(block) \subseteq 0..(Len(block) - 1)
      /\ Len(block) \in Nat
      /\ dests \subseteq TStarts(block)
      /\ dests = {JumpDest(block, j) : j \in TJumps(block)}
  BY LenProperties DEF Flows, WholeBlock, Whole
<1>2. /\ to \in Nat /\ to >= from
      /\ \A d \in dests : from <= d /\ d < to => stacks[d] = NotSaved
      /\ \/ to = from
         \/ to >= Len(block) /\ from >= Len(block)
         \/ to >= Len(block) /\ ip + 2 >= Len(block) /\ At(block, from) = T_OP_RET
  BY DEF Resumes, SkipsTo
<1>3. /\ Len(out) <= Len(block)
      /\ \/ Len(out) = from
         \/ from >= Len(block) /\ \A at \in TJumps(block) \cup dests : at < Len(out)
      /\ WStarts(out) = {at \in TStarts(block) : at < Len(out)}
      /\ WJumps(out) = {j \in TJumps(block) : j < Len(out)}
      /\ \A d \in dests \ before : wdests[d] = d
      /\ targets = dests \ before
      /\ \A j \in WJumps(out) : JumpDest(block, j) \notin before => JumpDest(out, j) = JumpDest(block, j)
      /\ \A d \in before : srcs[d] = {j \in WJumps(out) : JumpDest(block, j) = d}
  BY DEF Mirror
<1>4. from \in Nat /\ (from \in TStarts(block) \/ from >= Len(block))
  BY DEF Progress
<1>5. \A d : d \in before <=> d \in dests /\ d >= from
  BY DEF From
<1>6. \A d : d \in after <=> d \in dests /\ d >= to
  BY DEF From
<1>7. \A at \in TJumps(block) : at \in TStarts(block)
  BY DEF TJumps
<1>8. ASSUME to >= Len(block), \A at \in TJumps(block) \cup dests : at < Len(out) /\ at < from
      PROVE  Mirror(block, dests, after, out, to, wdests, srcs, targets)
  <2>1. before = {} /\ after = {}
    <3>1. \A d \in dests : d \in Nat /\ d < from /\ d < to
      BY <1>1, <1>2, <1>4, <1>8
    <3>2. \A d \in dests : ~(d >= from) /\ ~(d >= to)
      BY <1>2, <1>4, <3>1
    <3>3. QED
      BY <1>5, <1>6, <3>2
  <2> HIDE DEF before, after, from, to
  <2>2. QED
    BY <1>3, <1>8, <2>1 DEF Mirror
<1>9. CASE to = from
  BY <1>9
<1>10. CASE to >= Len(block) /\ from >= Len(block)
  <2>1. \A at \in TJumps(block) \cup dests : at < Len(out) /\ at < from
    <3>1. \A at \in TJumps(block) \cup dests : at \in 0..(Len(block) - 1)
      BY <1>1, <1>7
    <3>2. \A at \in TJumps(block) \cup dests : at < from
      BY <1>1, <1>4, <1>10, <3>1
    <3>3. Len(out) = from \/ \A at \in TJumps(block) \cup dests : at < Len(out)
      BY <1>3
    <3>4. QED
      BY <3>2, <3>3, Zenon
  <2>2. QED
    BY <1>8, <1>10, <2>1
<1>11. CASE to >= Len(block) /\ ip + 2 >= Len(block) /\ At(block, from) = T_OP_RET /\ from < Len(block)
  <2>1. from \in TStarts(block) /\ Len(out) = from /\ from = Len(block) - 1
    BY <1>1, <1>3, <1>4, <1>11
  <2>2. ASSUME NEW j \in TJumps(block) PROVE j < from
    <3>1. j # from
      <4>1. is_t_jump(At(block, j))
        BY DEF TJumps
      <4>2. ~is_t_jump(T_OP_RET)
        BY DEF is_t_jump, T_OP_RET, T_OP_JUMP, T_OP_JUMP_COND, T_OP_JUMP_NCOND, T_OP_FOR_STARTS,
               T_OP_FOR_UPDATES, T_OP_FOR_DEC_START, T_OP_FOR_INC_START, T_OP_FOR_DEC, T_OP_FOR_INC
      <4>3. QED
        BY <1>11, <4>1, <4>2
    <3>2. j \in 0..(Len(block) - 1)
      BY <1>1, <1>7
    <3>3. QED
      BY <1>1, <2>1, <3>1, <3>2
  <2>3. ASSUME NEW d \in dests PROVE d < from
    <3>1. d \in 0..(Len(block) - 1)
      BY <1>1
    <3>2. SUFFICES ASSUME d = from PROVE FALSE
      BY <1>1, <2>1, <3>1
    <3>3. PICK k \in TJumps(block) : JumpDest(block, k) = d
      BY <1>1
    <3>4. k \in WJumps(out)
      BY <1>3, <2>1, <2>2
    <3>5. d \in before
      BY <1>4, <1>5, <3>2
    <3>6. k \in srcs[d]
      BY <1>3, <3>3, <3>4, <3>5
    <3>7. stacks[d] # NotSaved
      <4>1. Waiting(out, before, stacks, srcs)
        BY DEF Progress
      <4> HIDE DEF before
      <4>2. QED
        BY <3>5, <3>6, <4>1 DEF Waiting
    <3>8. from <= d /\ d < to
      <4>1. from <= from /\ from < to
        BY <1>1, <1>2, <1>4, <1>11
      <4>2. QED
        BY <3>2, <4>1
    <3>9. QED
      BY <1>2, <3>7, <3>8
  <2>4. QED
    BY <1>8, <1>11, <2>1, <2>2, <2>3
<1>12. QED
  BY <1>1, <1>2, <1>4, <1>9, <1>10, <1>11

LEMMA MirrorEnds ==
  ASSUME NEW block, NEW dests, Flows(block, dests), NEW out, NEW ip \in Nat, ip >= Len(block),
         NEW wdests, NEW srcs, NEW targets,
         Mirror(block, dests, From(dests, ip), out, ip, wdests, srcs, targets)
  PROVE  Mirrored(block, dests, out, targets)
<1>1. /\ TStarts(block) \subseteq 0..(Len(block) - 1)
      /\ Len(block) \in Nat
      /\ dests \subseteq TStarts(block)
      /\ TJumps(block) \subseteq TStarts(block)
  BY LenProperties DEF Flows, WholeBlock, Whole, TJumps
<1>2. From(dests, ip) = {}
  <2>1. \A d \in dests : d \in Nat /\ d < Len(block)
    BY <1>1
  <2>2. \A d \in dests : ~(d >= ip)
    BY <1>1, <2>1
  <2>3. QED
    BY <2>2 DEF From
<1>3. \A at \in TJumps(block) \cup dests : at < Len(out)
  <2>1. \A at \in TJumps(block) \cup dests : at \in Nat /\ at < Len(block)
    BY <1>1
  <2>2. Len(out) = ip \/ \A at \in TJumps(block) \cup dests : at < Len(out)
    BY DEF Mirror
  <2>3. QED
    BY <1>1, <2>1, <2>2
<1>4. WJumps(out) = TJumps(block)
  BY <1>3 DEF Mirror
<1>5. QED
  BY <1>2, <1>3, <1>4 DEF Mirror, Mirrored

-----------------------------------------------------------------------------
(* The invariant.                                                          *)

\* What the compiler promises of a module.
ModuleOK ==
  /\ t_code \in Seq(Seq(Nat)) /\ t_code # <<>>
  /\ \A f \in 1..Len(t_code) :
       /\ Flows(t_code[f], t_jumps[f])
       /\ Known(t_code[f], Len(t_code))
       /\ sigs[f].params \in Stacks /\ sigs[f].rets \in Stacks
       /\ locals[f] \in Stacks

\* The destinations that are still to be dealt with.
Pending == IF arrived THEN Ahead(Jumps, t_ip) ELSE From(Jumps, t_ip)

Checked(n) == \A f \in 1..n : Mirrored(t_code[f], t_jumps[f], w_code[f], w_jumps[f])

\* The function the checker is in.
InFunction ==
  /\ Progress(In, Jumps, Pending, Out, t_ip, saved, wir_dests, wir_srcs)
  /\ ~had_error =>
       Mirror(In, Jumps, Pending, Out, t_ip, wir_dests, wir_srcs, w_jumps[current + 1])

CheckInv ==
  /\ check_status \in {"idle", "checking", "ok", "type_error", "exit"}
  /\ had_error \in BOOLEAN
  /\ check_status = "checking" =>
       /\ current \in Nat /\ current < Len(t_code)
       /\ w_code \in [1..Len(t_code) -> Seq(Nat)]
       /\ w_jumps \in [1..Len(t_code) -> SUBSET Nat]
       /\ tstack \in Stacks
       /\ arrived \in BOOLEAN /\ (arrived => t_ip \in Jumps)
       /\ \A f \in 1..Len(t_code) : f > current + 1 => w_code[f] = <<>> /\ w_jumps[f] = {}
       /\ InFunction
       /\ ~had_error => Checked(current)
  /\ check_status = "ok" => w_code \in [1..Len(t_code) -> Seq(Nat)] /\ Checked(Len(t_code))

\* What the invariant says of the function at hand.
LEMMA TheFunction ==
  ASSUME ModuleOK, CheckInv, check_status = "checking"
  PROVE  /\ current \in Nat /\ Len(t_code) \in Nat /\ current + 1 \in 1..Len(t_code)
         /\ Flows(In, Jumps)
         /\ Known(In, Len(t_code))
         /\ In \in Seq(Nat) /\ Len(In) \in Nat
         /\ TStarts(In) \subseteq 0..(Len(In) - 1)
         /\ Jumps \subseteq TStarts(In)
         /\ WholeCode("w", Out) /\ Out \in Seq(Nat) /\ Len(Out) \in Nat
         /\ t_ip \in Nat /\ (t_ip \in TStarts(In) \/ t_ip >= Len(In))
<1>1. current \in Nat /\ Len(t_code) \in Nat /\ current + 1 \in 1..Len(t_code)
  BY LenProperties DEF ModuleOK, CheckInv
<1>2. Flows(In, Jumps) /\ Known(In, Len(t_code))
  BY <1>1 DEF ModuleOK, In, Jumps
<1>3. /\ In \in Seq(Nat)
      /\ Len(In) \in Nat
      /\ TStarts(In) \subseteq 0..(Len(In) - 1)
      /\ Jumps \subseteq TStarts(In)
  BY <1>2, LenProperties DEF Flows, WholeBlock, Whole
<1>4. /\ WholeCode("w", Out) /\ Out \in Seq(Nat) /\ Len(Out) \in Nat
      /\ t_ip \in Nat /\ (t_ip \in TStarts(In) \/ t_ip >= Len(In))
  BY LenProperties DEF CheckInv, InFunction, Progress, WholeCode
<1>5. QED
  BY <1>1, <1>2, <1>3, <1>4

\* A step within a function.
Within(out2, targets2) ==
  /\ UNCHANGED <<t_code, t_jumps, sigs, locals, check_status, current>>
  /\ w_code' = [w_code EXCEPT ![current + 1] = out2]
  /\ w_jumps' = [w_jumps EXCEPT ![current + 1] = targets2]
  /\ targets2 \in SUBSET Nat
  /\ tstack' \in Stacks
  /\ had_error' \in BOOLEAN /\ (had_error => had_error')
  /\ arrived' \in BOOLEAN /\ (arrived' => t_ip' \in Jumps)
  /\ Progress(In, Jumps, Pending', out2, t_ip', saved', wir_dests', wir_srcs')
  /\ ~had_error' => Mirror(In, Jumps, Pending', out2, t_ip', wir_dests', wir_srcs', targets2)

LEMMA WithinKeeps ==
  ASSUME ModuleOK, CheckInv, check_status = "checking", NEW out2, NEW targets2,
         Within(out2, targets2)
  PROVE  CheckInv'
<1> DEFINE cur == current + 1
<1>1. /\ current \in Nat /\ current < Len(t_code)
      /\ w_code \in [1..Len(t_code) -> Seq(Nat)]
      /\ w_jumps \in [1..Len(t_code) -> SUBSET Nat]
      /\ \A f \in 1..Len(t_code) : f > cur => w_code[f] = <<>> /\ w_jumps[f] = {}
      /\ ~had_error => Checked(current)
      /\ Len(t_code) \in Nat /\ cur \in 1..Len(t_code)
  BY TheFunction DEF CheckInv
<1>2. /\ t_code' = t_code /\ t_jumps' = t_jumps /\ check_status' = check_status /\ current' = current
      /\ w_code' = [w_code EXCEPT ![cur] = out2]
      /\ w_jumps' = [w_jumps EXCEPT ![cur] = targets2]
      /\ targets2 \in SUBSET Nat
      /\ tstack' \in Stacks
      /\ had_error' \in BOOLEAN /\ (had_error => had_error')
      /\ arrived' \in BOOLEAN /\ (arrived' => t_ip' \in Jumps)
      /\ Progress(In, Jumps, Pending', out2, t_ip', saved', wir_dests', wir_srcs')
      /\ ~had_error' => Mirror(In, Jumps, Pending', out2, t_ip', wir_dests', wir_srcs', targets2)
  BY DEF Within
<1>3. out2 \in Seq(Nat)
  BY <1>2 DEF Progress, WholeCode
<1>4. In' = In /\ Jumps' = Jumps
  BY <1>2 DEF In, Jumps
<1>5. /\ w_code' \in [1..Len(t_code) -> Seq(Nat)]
      /\ w_jumps' \in [1..Len(t_code) -> SUBSET Nat]
      /\ w_code'[cur] = out2 /\ w_jumps'[cur] = targets2
      /\ \A f \in 1..Len(t_code) : f # cur => w_code'[f] = w_code[f] /\ w_jumps'[f] = w_jumps[f]
  BY <1>1, <1>2, <1>3
<1>6. Out' = out2
  BY <1>2, <1>5 DEF Out
<1>7. InFunction'
  <2>1. w_jumps'[current' + 1] = targets2
    BY <1>2, <1>5
  <2>2. Progress(In', Jumps', Pending', Out', t_ip', saved', wir_dests', wir_srcs')
    BY <1>2, <1>4, <1>6
  <2>3. ~had_error' =>
          Mirror(In', Jumps', Pending', Out', t_ip', wir_dests', wir_srcs', w_jumps'[current' + 1])
    BY <1>2, <1>4, <1>6, <2>1
  <2>4. QED
    BY <2>2, <2>3 DEF InFunction
<1>8. ~had_error' => Checked(current)'
  <2>1. \A f \in 1..current : f \in 1..Len(t_code) /\ f # cur
    BY <1>1
  <2>2. QED
    BY <1>1, <1>2, <1>5, <2>1 DEF Checked
<1>9. \A f \in 1..Len(t_code) : f > cur => w_code'[f] = <<>> /\ w_jumps'[f] = {}
  <2>1. \A f \in 1..Len(t_code) : f > cur => f # cur
    BY <1>1
  <2>2. QED
    BY <1>1, <1>5, <2>1
<1>10. QED
  BY <1>1, <1>2, <1>4, <1>5, <1>7, <1>8, <1>9 DEF CheckInv

\* At an instruction, the destination it is at has been dealt with.
LEMMA Fetched ==
  ASSUME ModuleOK, CheckInv, NEW ops, Fetch(ops)
  PROVE  /\ check_status = "checking"
         /\ t_ip \in TStarts(In) /\ Opcode \in ops /\ Opcode = At(In, t_ip)
         /\ Progress(In, Jumps, Ahead(Jumps, t_ip), Out, t_ip, saved, wir_dests, wir_srcs)
         /\ ~had_error => Mirror(In, Jumps, Ahead(Jumps, t_ip), Out, t_ip, wir_dests, wir_srcs,
                                 w_jumps[current + 1])
<1>1. /\ check_status = "checking" /\ t_ip < Len(In) /\ Opcode \in ops
      /\ t_ip \in Jumps => arrived
  BY DEF Fetch
<1>2. /\ t_ip \in Nat /\ (t_ip \in TStarts(In) \/ t_ip >= Len(In)) /\ Len(In) \in Nat
      /\ Jumps \subseteq Nat
  BY <1>1, TheFunction
<1>3. Pending = Ahead(Jumps, t_ip)
  <2>1. CASE arrived
    BY <2>1 DEF Pending
  <2>2. CASE ~arrived
    <3>1. Ahead(Jumps, t_ip) = From(Jumps, t_ip) \ {t_ip}
      BY <1>2, AheadFrom
    <3>2. t_ip \notin From(Jumps, t_ip)
      BY <1>1, <2>2 DEF From
    <3>3. QED
      BY <2>2, <3>1, <3>2 DEF Pending
  <2>3. QED
    BY <2>1, <2>2
<1>4. t_ip \in TStarts(In)
  BY <1>1, <1>2
<1>5. QED
  BY <1>1, <1>3, <1>4 DEF CheckInv, InFunction, Opcode

\* The code and the tables after an instruction has been emitted.
Emitted(out2, next, stacks2, srcs2) ==
  /\ Progress(In, Jumps, From(Jumps, next), out2, next, stacks2, wir_dests, srcs2)
  /\ ~had_error =>
       Mirror(In, Jumps, From(Jumps, next), out2, next, wir_dests, srcs2, w_jumps[current + 1])

Remains(out2, stacks2, srcs2) ==
  /\ UNCHANGED <<t_code, t_jumps, sigs, locals, check_status, current, wir_dests, w_jumps>>
  /\ w_code' = [w_code EXCEPT ![current + 1] = out2]
  /\ saved' = stacks2
  /\ wir_srcs' = srcs2

LEMMA Falls ==
  ASSUME ModuleOK, CheckInv, NEW ops, Fetch(ops), NEW out2, NEW next, NEW stacks2, NEW srcs2,
         Emitted(out2, next, stacks2, srcs2), Remains(out2, stacks2, srcs2),
         t_ip' = next, tstack' \in Stacks, arrived' = FALSE, had_error' \in BOOLEAN,
         had_error => had_error'
  PROVE  CheckInv'
<1>1. check_status = "checking" /\ current + 1 \in 1..Len(t_code)
  BY Fetched, TheFunction
<1>2. w_jumps \in [1..Len(t_code) -> SUBSET Nat]
  BY <1>1 DEF CheckInv
<1>3. In' = In /\ Jumps' = Jumps
  BY DEF Remains, In, Jumps
<1>4. Pending' = From(Jumps, next)
  BY <1>3 DEF Pending
<1>5. /\ w_jumps[current + 1] \in SUBSET Nat
      /\ w_jumps' = [w_jumps EXCEPT ![current + 1] = w_jumps[current + 1]]
  BY <1>1, <1>2 DEF Remains
<1>6. /\ Progress(In, Jumps, Pending', out2, t_ip', saved', wir_dests', wir_srcs')
      /\ ~had_error' => Mirror(In, Jumps, Pending', out2, t_ip', wir_dests', wir_srcs',
                               w_jumps[current + 1])
  BY <1>4 DEF Emitted, Remains
<1>7. Within(out2, w_jumps[current + 1])
  BY <1>5, <1>6 DEF Within, Remains
<1>8. QED
  BY <1>1, <1>7, WithinKeeps

LEMMA GoesOn ==
  ASSUME ModuleOK, CheckInv, NEW ops, Fetch(ops), NEW out2, NEW last \in Nat, last < Len(In),
         NEW stacks2, NEW srcs2,
         Emitted(out2, last + 1, stacks2, srcs2), Remains(out2, stacks2, srcs2),
         NEW stack \in Stacks, NEW error \in BOOLEAN, GoOnAfter(last, stack, stacks2, error)
  PROVE  CheckInv'
<1>1. /\ check_status = "checking" /\ current + 1 \in 1..Len(t_code)
      /\ Flows(In, Jumps)
      /\ Known(In, Len(t_code))
      /\ In \in Seq(Nat) /\ Len(In) \in Nat
      /\ Jumps \subseteq 0..(Len(In) - 1)
  BY Fetched, TheFunction
<1>2. w_jumps \in [1..Len(t_code) -> SUBSET Nat] /\ had_error \in BOOLEAN
  BY <1>1 DEF CheckInv
<1>3. In' = In /\ Jumps' = Jumps
  BY DEF Remains, In, Jumps
<1>4. PICK past \in PastBytes :
        LET next == Unreachable(last, past, stacks2)
        IN  /\ t_ip' = next.ip + 1
            /\ tstack' = IF next.load = -1 THEN stack ELSE stacks2[next.load]
            /\ had_error' = (had_error \/ error \/ next.error)
            /\ arrived' = FALSE
  BY DEF GoOnAfter
<1> DEFINE next == Unreachable(last, past, stacks2)
<1>5. last + 1 \in TStarts(In) \/ last + 1 >= Len(In)
  BY DEF Emitted, Progress
<1>6. Resumes(In, Jumps, stacks2, last, next)
  <2>1. last + 1 < Len(In) => At(In, last + 1) # T_OP_NOP
    BY <1>1, <1>5 DEF Known, KnownAt
  <2>2. last + 1 <= Len(In)
    BY <1>1
  <2> HIDE DEF next
  <2>3. QED
    BY <1>1, <2>1, <2>2, UnreachableResumes DEF next
<1>7. /\ t_ip' = next.ip + 1
      /\ tstack' = IF next.load = -1 THEN stack ELSE stacks2[next.load]
      /\ had_error' = (had_error \/ error \/ next.error)
      /\ arrived' = FALSE
  BY <1>4
<1> HIDE DEF next
<1>8. /\ SkipsTo(In, Jumps, stacks2, last + 1, t_ip')
      /\ next.error \in BOOLEAN
      /\ next.load = -1 \/ (next.load \in Jumps /\ stacks2[next.load] # NotSaved)
  BY <1>6, <1>7 DEF Resumes
<1>9. had_error' \in BOOLEAN /\ (had_error => had_error') /\ (~had_error' => ~had_error /\ ~next.error)
  BY <1>2, <1>7, <1>8
<1>10. Pending' = From(Jumps, t_ip')
  BY <1>3, <1>7 DEF Pending
<1>11. Progress(In, Jumps, Pending', out2, t_ip', saved', wir_dests', wir_srcs')
  <2>1. Progress(In, Jumps, From(Jumps, t_ip'), out2, t_ip', stacks2, wir_dests, srcs2)
    BY <1>1, <1>8, ProgressSkips DEF Emitted
  <2>2. QED
    BY <1>10, <2>1 DEF Remains
<1>12. ~had_error' => Mirror(In, Jumps, Pending', out2, t_ip', wir_dests', wir_srcs',
                              w_jumps[current + 1])
  <2>1. SUFFICES ASSUME ~had_error'
                 PROVE  Mirror(In, Jumps, Pending', out2, t_ip', wir_dests', wir_srcs',
                               w_jumps[current + 1])
    OBVIOUS
  <2>2. Mirror(In, Jumps, From(Jumps, next.ip + 1), out2, next.ip + 1, wir_dests, srcs2,
               w_jumps[current + 1])
    BY <1>1, <1>6, <1>9, <2>1, MirrorSkips DEF Emitted
  <2>3. QED
    BY <1>7, <1>10, <2>2 DEF Remains
<1>13. tstack' \in Stacks
  <2>1. stacks2 \in [Jumps -> Stacks \cup {NotSaved}]
    BY DEF Emitted, Progress, Tables
  <2>2. QED
    BY <1>7, <1>8, <2>1
<1>14. /\ w_jumps[current + 1] \in SUBSET Nat
       /\ w_jumps' = [w_jumps EXCEPT ![current + 1] = w_jumps[current + 1]]
  BY <1>1, <1>2 DEF Remains
<1>15. Within(out2, w_jumps[current + 1])
  BY <1>7, <1>9, <1>11, <1>12, <1>13, <1>14 DEF Within, Remains
<1>16. QED
  BY <1>1, <1>15, WithinKeeps

\* An instruction that is no jump is emitted.
LEMMA EmitsPlain ==
  ASSUME ModuleOK, CheckInv, NEW ops, Fetch(ops), ~is_t_jump(Opcode), NEW bytes \in Seq(Nat),
         ~is_w_jump(At(bytes, 0)), Len(bytes) = get_w_instruction_size(At(bytes, 0)),
         Len(bytes) = t_instruction_size(Opcode), Emit(bytes), Plain
  PROVE  /\ Emitted(Out \o bytes, t_ip + t_instruction_size(Opcode), saved, wir_srcs)
         /\ Remains(Out \o bytes, saved, wir_srcs)
<1> DEFINE next == t_ip + Len(bytes)
           out2 == Out \o bytes
<1>1. /\ Flows(In, Jumps) /\ t_ip \in TStarts(In) /\ Opcode = At(In, t_ip)
      /\ WholeCode("w", Out)
      /\ Progress(In, Jumps, Ahead(Jumps, t_ip), Out, t_ip, saved, wir_dests, wir_srcs)
      /\ ~had_error => Mirror(In, Jumps, Ahead(Jumps, t_ip), Out, t_ip, wir_dests, wir_srcs,
                              w_jumps[current + 1])
  BY Fetched, TheFunction
<1>2. next = After("t", In, t_ip)
  BY <1>1, SizeOfT DEF After
<1>3. Progress(In, Jumps, From(Jumps, next), out2, next, saved, wir_dests, wir_srcs)
  <2> HIDE DEF next, out2
  <2>1. next = t_ip + Len(bytes) /\ out2 = Out \o bytes
    BY DEF next, out2
  <2>2. QED
    BY <1>1, <1>2, <2>1, ProgressPlain
<1>4. ~had_error => Mirror(In, Jumps, From(Jumps, next), out2, next, wir_dests, wir_srcs,
                           w_jumps[current + 1])
  <2> HIDE DEF next, out2
  <2>1. next = t_ip + Len(bytes) /\ out2 = Out \o bytes
    BY DEF next, out2
  <2>2. QED
    BY <1>1, <1>2, <2>1, MirrorPlain
<1>5. Emitted(out2, next, saved, wir_srcs)
  BY <1>3, <1>4 DEF Emitted
<1>6. w_code' = [w_code EXCEPT ![current + 1] = out2]
  BY DEF Emit, Out
<1>7. Remains(out2, saved, wir_srcs)
  BY <1>6 DEF Remains, Plain, input
<1>8. QED
  BY <1>5, <1>7

-----------------------------------------------------------------------------
(* The steps.                                                              *)

LEMMA OperandBytes ==
  ASSUME NEW block, WholeBlock(block), NEW ip \in TStarts(block),
         NEW size, size = t_instruction_size(At(block, ip))
  PROVE  /\ ip \in Nat /\ ip + size <= Len(block) /\ Len(block) \in Nat /\ size \in {1, 2, 3}
         /\ size >= 2 => At(block, ip + 1) \in Nat
         /\ size >= 3 => At(block, ip + 2) \in Nat
<1>1. /\ block \in Seq(Nat) /\ Len(block) \in Nat
      /\ TStarts(block) \subseteq 0..(Len(block) - 1)
      /\ After("t", block, ip) \in TStarts(block) \cup {Len(block)}
  BY LenProperties DEF WholeBlock, Whole
<1>2. After("t", block, ip) = ip + size /\ size \in {1, 2, 3}
  BY SizeOfT, SizeInType DEF After
<1>3. ip \in Nat /\ ip + size <= Len(block)
  BY <1>1, <1>2
<1>4. ASSUME NEW k \in {1, 2}, size >= k + 1 PROVE At(block, ip + k) \in Nat
  <2>1. ip + k + 1 \in 1..Len(block)
    BY <1>1, <1>2, <1>3, <1>4
  <2>2. QED
    BY <1>1, <2>1, ElementOfSeq DEF At
<1>5. QED
  BY <1>1, <1>2, <1>3, <1>4

LEMMA PopTypes ==
  ASSUME tstack \in Stacks
  PROVE  /\ Popped \in Stacks
         /\ PoppedType \in Types
         /\ Underflow \in BOOLEAN
<1>0. Underflow \in BOOLEAN
  BY DEF Underflow
<1>1. CASE Underflow
  BY <1>0, <1>1 DEF Stacks, Popped, PoppedType, Types
<1>2. CASE ~Underflow
  <2>1. Len(tstack) \in Nat /\ Len(tstack) > 0
    BY <1>2, LenProperties, EmptySeq DEF Stacks, Underflow
  <2>2. Popped \in Seq(Types)
    BY <1>2, <2>1, SubSeqProperties DEF Popped, Stacks
  <2>3. PoppedType \in Types
    BY <1>2, <2>1, ElementOfSeq DEF PoppedType, Stacks
  <2>4. QED
    BY <1>0, <2>2, <2>3 DEF Stacks
<1>3. QED
  BY <1>0, <1>1, <1>2

\* The rest of a plain instruction that falls through.
LEMMA PlainFalls ==
  ASSUME ModuleOK, CheckInv, NEW ops, Fetch(ops), ~is_t_jump(Opcode), NEW bytes \in Seq(Nat),
         ~is_w_jump(At(bytes, 0)), Len(bytes) = get_w_instruction_size(At(bytes, 0)),
         Len(bytes) = t_instruction_size(Opcode), Emit(bytes), Plain,
         NEW stack \in Stacks, NEW error \in BOOLEAN, FallThrough(stack, error)
  PROVE  CheckInv'
<1> DEFINE out2 == Out \o bytes
           next == t_ip + t_instruction_size(Opcode)
<1>1. Emitted(out2, next, saved, wir_srcs) /\ Remains(out2, saved, wir_srcs)
  BY EmitsPlain
<1>2. /\ t_ip' = next /\ tstack' \in Stacks /\ arrived' = FALSE
      /\ had_error' \in BOOLEAN /\ (had_error => had_error')
  BY DEF FallThrough, CheckInv
<1> HIDE DEF out2, next
<1>3. QED
  BY <1>1, <1>2, Falls

LEMMA TypeOfLocal ==
  ASSUME ModuleOK, CheckInv, NEW ops, Fetch(ops),
         At(In, t_ip + 1) \in Nat, At(In, t_ip + 2) \in Nat
  PROVE  LocalType(read_u16(In, t_ip + 1)) \in Types
<1> DEFINE index == read_u16(In, t_ip + 1)
<1>1. check_status = "checking" /\ current + 1 \in 1..Len(t_code) /\ t_ip \in Nat
  BY Fetched, TheFunction
<1>2. locals[current + 1] \in Seq(Types)
  BY <1>1 DEF ModuleOK, Stacks
<1>3. index \in Nat
  <2>1. t_ip + 1 + 1 = t_ip + 2
    BY <1>1
  <2>2. QED
    BY <2>1, ByteBaseAssumption DEF read_u16
<1> HIDE DEF index
<1>4. CASE index < Len(locals[current + 1])
  <2>1. index + 1 \in 1..Len(locals[current + 1])
    BY <1>2, <1>3, <1>4, LenProperties
  <2>2. QED
    BY <1>2, <1>4, <2>1, ElementOfSeq DEF LocalType, index
<1>5. CASE ~(index < Len(locals[current + 1]))
  BY <1>5 DEF LocalType, Types, index
<1>6. QED
  BY <1>4, <1>5

LEMMA PlainStep ==
  ASSUME ModuleOK, CheckInv,
         CheckPush \/ CheckPop \/ CheckDupe \/ CheckGetLoopVar \/ CheckLocalGet
  PROVE  CheckInv'
<1> USE DEF T_OP_PUSH8, T_OP_PUSH_INT8, T_OP_POP, T_OP_DUPE, T_OP_GET_LOOP_VAR, T_OP_LOCAL_GET
<1>1. ASSUME NEW ops, Fetch(ops)
      PROVE  /\ tstack \in Stacks /\ Opcode \in ops
             /\ t_instruction_size(Opcode) >= 2 => Operand8 \in Nat
             /\ t_instruction_size(Opcode) >= 3 => At(In, t_ip + 2) \in Nat
  <2>1. /\ WholeBlock(In) /\ t_ip \in TStarts(In) /\ Opcode = At(In, t_ip)
        /\ check_status = "checking" /\ Opcode \in ops
    BY <1>1, Fetched, TheFunction DEF Flows
  <2>2. QED
    BY <2>1, OperandBytes DEF CheckInv, Operand8
<1>2. \A op \in {T_OP_PUSH8, T_OP_PUSH_INT8, T_OP_POP, T_OP_DUPE, T_OP_GET_LOOP_VAR, T_OP_LOCAL_GET} :
        /\ ~is_t_jump(op)
        /\ t_instruction_size(op) = IF op \in {T_OP_POP, T_OP_DUPE} THEN 1
                                    ELSE IF op \in {T_OP_PUSH8, T_OP_PUSH_INT8} THEN 2 ELSE 3
  BY DEF is_t_jump, t_instruction_size, T_OP_JUMP, T_OP_JUMP_COND, T_OP_JUMP_NCOND, T_OP_FOR_STARTS,
         T_OP_FOR_UPDATES, T_OP_FOR_DEC_START, T_OP_FOR_INC_START, T_OP_FOR_DEC, T_OP_FOR_INC,
         T_OP_LOCAL_SET, T_OP_CALL8
<1>3. \A op \in {W_OP_PUSH8, W_OP_PUSH_INT8, W_OP_POP, W_OP_DUPE, W_OP_GET_LOOP_VAR, W_OP_LOCAL_GET} :
        /\ op \in Nat
        /\ ~is_w_jump(op)
        /\ get_w_instruction_size(op) = IF op \in {W_OP_POP, W_OP_DUPE} THEN 1
                                        ELSE IF op \in {W_OP_PUSH8, W_OP_PUSH_INT8} THEN 2 ELSE 3
  BY DEF is_w_jump, get_w_instruction_size, W_OP_JUMP, W_OP_JUMP_COND, W_OP_JUMP_NCOND, W_OP_FOR_STARTS,
         W_OP_FOR_UPDATES, W_OP_FOR_DEC_START, W_OP_FOR_INC_START, W_OP_FOR_DEC, W_OP_FOR_INC,
         W_OP_LOCAL_SET, W_OP_CALL8, W_OP_PUSH8, W_OP_PUSH_INT8, W_OP_POP, W_OP_DUPE,
         W_OP_GET_LOOP_VAR, W_OP_LOCAL_GET
<1>4. CASE CheckPush
  <2> DEFINE ops   == {T_OP_PUSH8, T_OP_PUSH_INT8}
             bytes == <<IF Opcode = T_OP_PUSH8 THEN W_OP_PUSH8 ELSE W_OP_PUSH_INT8, Operand8>>
             stack == Append(tstack, IF Opcode = T_OP_PUSH8 THEN WordType ELSE IntType)
  <2>1. Fetch(ops) /\ FallThrough(stack, FALSE) /\ Emit(bytes) /\ Plain
    BY <1>4 DEF CheckPush
  <2>2. Opcode \in ops /\ tstack \in Stacks /\ Operand8 \in Nat
    BY <1>1, <1>2, <2>1
  <2>3. stack \in Stacks
    BY <2>2, AppendProperties DEF Stacks, Types
  <2>4. bytes \in Seq(Nat) /\ Len(bytes) = 2 /\ At(bytes, 0) \in {W_OP_PUSH8, W_OP_PUSH_INT8}
    BY <1>3, <2>2 DEF At
  <2> HIDE DEF stack, bytes
  <2>5. ~is_t_jump(Opcode) /\ t_instruction_size(Opcode) = 2
    BY <1>2, <2>2
  <2>6. ~is_w_jump(At(bytes, 0)) /\ get_w_instruction_size(At(bytes, 0)) = 2
    BY <1>3, <2>4 DEF W_OP_PUSH8, W_OP_PUSH_INT8, W_OP_POP, W_OP_DUPE
  <2>7. QED
    BY <2>1, <2>3, <2>4, <2>5, <2>6, PlainFalls
<1>5. CASE CheckPop
  <2> DEFINE ops   == {T_OP_POP}
             bytes == <<W_OP_POP>>
  <2>1. Fetch(ops) /\ FallThrough(Popped, Underflow) /\ Emit(bytes) /\ Plain
    BY <1>5 DEF CheckPop
  <2>2. Opcode = T_OP_POP /\ tstack \in Stacks
    BY <1>1, <2>1
  <2>3. Popped \in Stacks /\ Underflow \in BOOLEAN
    BY <2>2, PopTypes
  <2>4. bytes \in Seq(Nat) /\ Len(bytes) = 1 /\ At(bytes, 0) = W_OP_POP
    BY <1>3 DEF At
  <2> HIDE DEF bytes
  <2>5. ~is_t_jump(Opcode) /\ t_instruction_size(Opcode) = 1
    BY <1>2, <2>2
  <2>6. ~is_w_jump(At(bytes, 0)) /\ get_w_instruction_size(At(bytes, 0)) = 1
    BY <1>3, <2>4
  <2>7. QED
    BY <2>1, <2>3, <2>4, <2>5, <2>6, PlainFalls
<1>6. CASE CheckDupe
  <2> DEFINE ops   == {T_OP_DUPE}
             bytes == <<W_OP_DUPE>>
             stack == Popped \o <<PoppedType, PoppedType>>
  <2>1. Fetch(ops) /\ FallThrough(stack, Underflow) /\ Emit(bytes) /\ Plain
    BY <1>6 DEF CheckDupe
  <2>2. Opcode = T_OP_DUPE /\ tstack \in Stacks
    BY <1>1, <2>1
  <2>3. stack \in Stacks /\ Underflow \in BOOLEAN
    BY <2>2, PopTypes, ConcatProperties DEF Stacks
  <2>4. bytes \in Seq(Nat) /\ Len(bytes) = 1 /\ At(bytes, 0) = W_OP_DUPE
    BY <1>3 DEF At
  <2> HIDE DEF bytes, stack
  <2>5. ~is_t_jump(Opcode) /\ t_instruction_size(Opcode) = 1
    BY <1>2, <2>2
  <2>6. ~is_w_jump(At(bytes, 0)) /\ get_w_instruction_size(At(bytes, 0)) = 1
    BY <1>3, <2>4
  <2>7. QED
    BY <2>1, <2>3, <2>4, <2>5, <2>6, PlainFalls
<1>7. CASE CheckGetLoopVar
  <2> DEFINE ops   == {T_OP_GET_LOOP_VAR}
             bytes == <<W_OP_GET_LOOP_VAR, Operand8, At(In, t_ip + 2)>>
             stack == Append(tstack, IntType)
  <2>1. Fetch(ops) /\ FallThrough(stack, FALSE) /\ Emit(bytes) /\ Plain
    BY <1>7 DEF CheckGetLoopVar
  <2>2. Opcode = T_OP_GET_LOOP_VAR /\ tstack \in Stacks /\ Operand8 \in Nat /\ At(In, t_ip + 2) \in Nat
    BY <1>1, <1>2, <2>1
  <2>3. stack \in Stacks
    BY <2>2, AppendProperties DEF Stacks, Types
  <2>4. bytes \in Seq(Nat) /\ Len(bytes) = 3 /\ At(bytes, 0) = W_OP_GET_LOOP_VAR
    BY <1>3, <2>2 DEF At
  <2> HIDE DEF stack, bytes
  <2>5. ~is_t_jump(Opcode) /\ t_instruction_size(Opcode) = 3
    BY <1>2, <2>2
  <2>6. ~is_w_jump(At(bytes, 0)) /\ get_w_instruction_size(At(bytes, 0)) = 3
    BY <1>3, <2>4 DEF W_OP_PUSH8, W_OP_PUSH_INT8, W_OP_POP, W_OP_DUPE, W_OP_GET_LOOP_VAR
  <2>7. QED
    BY <2>1, <2>3, <2>4, <2>5, <2>6, PlainFalls
<1>8. CASE CheckLocalGet
  <2> DEFINE ops   == {T_OP_LOCAL_GET}
             bytes == <<W_OP_LOCAL_GET, Operand8, At(In, t_ip + 2)>>
             type  == LocalType(read_u16(In, t_ip + 1))
             stack == Append(tstack, type)
  <2>1. Fetch(ops) /\ FallThrough(stack, FALSE) /\ Emit(bytes) /\ Plain
    BY <1>8 DEF CheckLocalGet
  <2>2. Opcode = T_OP_LOCAL_GET /\ tstack \in Stacks /\ Operand8 \in Nat /\ At(In, t_ip + 2) \in Nat
    BY <1>1, <1>2, <2>1
  <2>3. type \in Types
    BY <2>1, <2>2, TypeOfLocal DEF Operand8
  <2> HIDE DEF type
  <2>4. stack \in Stacks
    BY <2>2, <2>3, AppendProperties DEF Stacks
  <2>5. bytes \in Seq(Nat) /\ Len(bytes) = 3 /\ At(bytes, 0) = W_OP_LOCAL_GET
    BY <1>3, <2>2 DEF At
  <2> HIDE DEF stack, bytes
  <2>6. ~is_t_jump(Opcode) /\ t_instruction_size(Opcode) = 3
    BY <1>2, <2>2
  <2>7. ~is_w_jump(At(bytes, 0)) /\ get_w_instruction_size(At(bytes, 0)) = 3
    BY <1>3, <2>5 DEF W_OP_PUSH8, W_OP_PUSH_INT8, W_OP_POP, W_OP_DUPE, W_OP_LOCAL_GET
  <2>8. QED
    BY <2>1, <2>4, <2>5, <2>6, <2>7, PlainFalls
<1>9. QED
  BY <1>4, <1>5, <1>6, <1>7, <1>8

LEMMA LocalSetStep ==
  ASSUME ModuleOK, CheckInv, CheckLocalSet
  PROVE  CheckInv'
<1> DEFINE ops   == {T_OP_LOCAL_SET}
           bytes == <<W_OP_LOCAL_SET, Operand8, At(In, t_ip + 2)>>
           fits  == PoppedType = LocalType(read_u16(In, t_ip + 1))
<1>1. /\ Fetch(ops)
      /\ IF fits THEN FallThrough(Popped, Underflow) /\ Emit(bytes) /\ Plain ELSE Abort("exit")
  BY DEF CheckLocalSet
<1>2. CASE ~fits
  <2>1. check_status' = "exit" /\ had_error' = had_error
    BY <1>1, <1>2 DEF Abort
  <2>2. QED
    BY <2>1 DEF CheckInv
<1>3. CASE fits
  <2>1. FallThrough(Popped, Underflow) /\ Emit(bytes) /\ Plain
    BY <1>1, <1>3
  <2> HIDE DEF fits
  <2>2. /\ WholeBlock(In) /\ t_ip \in TStarts(In) /\ Opcode = At(In, t_ip)
        /\ tstack \in Stacks /\ Opcode = T_OP_LOCAL_SET
    BY <1>1, Fetched, TheFunction, SMTT(40) DEF Flows, CheckInv
  <2>3. ~is_t_jump(Opcode) /\ t_instruction_size(Opcode) = 3
    BY <2>2 DEF is_t_jump, t_instruction_size, T_OP_JUMP, T_OP_JUMP_COND, T_OP_JUMP_NCOND,
         T_OP_FOR_STARTS, T_OP_FOR_UPDATES, T_OP_FOR_DEC_START, T_OP_FOR_INC_START, T_OP_FOR_DEC,
         T_OP_FOR_INC, T_OP_LOCAL_SET, T_OP_LOCAL_GET, T_OP_GET_LOOP_VAR, T_OP_CALL8, T_OP_PUSH8,
         T_OP_PUSH_INT8
  <2>4. Operand8 \in Nat /\ At(In, t_ip + 2) \in Nat
    <3>1. t_instruction_size(At(In, t_ip)) = 3
      BY <2>2, <2>3
    <3>2. /\ t_instruction_size(At(In, t_ip)) >= 2 => At(In, t_ip + 1) \in Nat
          /\ t_instruction_size(At(In, t_ip)) >= 3 => At(In, t_ip + 2) \in Nat
      BY <2>2, OperandBytes
    <3>3. QED
      BY <3>1, <3>2 DEF Operand8
  <2>5. Popped \in Stacks /\ Underflow \in BOOLEAN
    BY <2>2, PopTypes
  <2>6. bytes \in Seq(Nat) /\ Len(bytes) = 3 /\ At(bytes, 0) = W_OP_LOCAL_SET
    BY <2>4 DEF At, W_OP_LOCAL_SET
  <2> HIDE DEF bytes
  <2>7. ~is_w_jump(At(bytes, 0)) /\ get_w_instruction_size(At(bytes, 0)) = 3
    BY <2>6 DEF is_w_jump, get_w_instruction_size, W_OP_JUMP, W_OP_JUMP_COND, W_OP_JUMP_NCOND,
         W_OP_FOR_STARTS, W_OP_FOR_UPDATES, W_OP_FOR_DEC_START, W_OP_FOR_INC_START, W_OP_FOR_DEC,
         W_OP_FOR_INC, W_OP_LOCAL_SET, W_OP_LOCAL_GET, W_OP_GET_LOOP_VAR, W_OP_CALL8, W_OP_PUSH8,
         W_OP_PUSH_INT8
  <2>8. QED
    BY <1>1, <2>1, <2>3, <2>5, <2>6, <2>7, PlainFalls
<1>4. QED
  BY <1>2, <1>3

LEMMA CallStep ==
  ASSUME ModuleOK, CheckInv, CheckCall
  PROVE  CheckInv'
<1> DEFINE ops    == {T_OP_CALL8}
           bytes  == <<W_OP_CALL8, Operand8>>
           sig    == sigs[Operand8 + 1]
           height == Len(tstack) - Len(sig.params)
           kept   == IF height < 0 THEN <<>> ELSE SubSeq(tstack, 1, height)
           stack  == kept \o sig.rets
           error  == tstack # kept \o sig.params
<1>1. Fetch(ops) /\ FallThrough(stack, error) /\ Emit(bytes) /\ Plain
  BY DEF CheckCall
<1>2. /\ WholeBlock(In) /\ t_ip \in TStarts(In) /\ Opcode = At(In, t_ip)
      /\ tstack \in Stacks /\ Opcode = T_OP_CALL8
      /\ Known(In, Len(t_code)) /\ Len(t_code) \in Nat
  BY <1>1, Fetched, TheFunction DEF Flows, CheckInv
<1>3. ~is_t_jump(Opcode) /\ t_instruction_size(Opcode) = 2
  BY <1>2 DEF is_t_jump, t_instruction_size, T_OP_JUMP, T_OP_JUMP_COND, T_OP_JUMP_NCOND,
       T_OP_FOR_STARTS, T_OP_FOR_UPDATES, T_OP_FOR_DEC_START, T_OP_FOR_INC_START, T_OP_FOR_DEC,
       T_OP_FOR_INC, T_OP_LOCAL_SET, T_OP_LOCAL_GET, T_OP_GET_LOOP_VAR, T_OP_CALL8, T_OP_PUSH8,
       T_OP_PUSH_INT8
<1>4. Operand8 \in Nat /\ Operand8 < Len(t_code)
  BY <1>2 DEF Known, KnownAt, Operand8
<1>5. sig.params \in Stacks /\ sig.rets \in Stacks
  BY <1>2, <1>4 DEF ModuleOK
<1> HIDE DEF sig
<1>6. kept \in Stacks
  <2>1. Len(tstack) \in Nat /\ Len(sig.params) \in Nat
    BY <1>2, <1>5, LenProperties DEF Stacks
  <2>2. CASE height < 0
    BY <2>2 DEF Stacks
  <2>3. CASE ~(height < 0)
    <3>1. height \in 0..Len(tstack)
      BY <2>1, <2>3
    <3> HIDE DEF height
    <3>2. SubSeq(tstack, 1, height) \in Seq(Types)
      BY <1>2, <3>1, <2>1, SubSeqProperties DEF Stacks
    <3>3. QED
      BY <2>3, <3>2 DEF Stacks
  <2>4. QED
    BY <2>2, <2>3
<1> HIDE DEF kept
<1>7. stack \in Stacks /\ error \in BOOLEAN
  BY <1>5, <1>6, ConcatProperties DEF Stacks
<1>8. bytes \in Seq(Nat) /\ Len(bytes) = 2 /\ At(bytes, 0) = W_OP_CALL8
  BY <1>4 DEF At, W_OP_CALL8
<1> HIDE DEF stack, error, bytes
<1>9. ~is_w_jump(At(bytes, 0)) /\ get_w_instruction_size(At(bytes, 0)) = 2
  BY <1>8 DEF is_w_jump, get_w_instruction_size, W_OP_JUMP, W_OP_JUMP_COND, W_OP_JUMP_NCOND,
       W_OP_FOR_STARTS, W_OP_FOR_UPDATES, W_OP_FOR_DEC_START, W_OP_FOR_INC_START, W_OP_FOR_DEC,
       W_OP_FOR_INC, W_OP_CALL8, W_OP_LOCAL_GET, W_OP_LOCAL_SET, W_OP_GET_LOOP_VAR, W_OP_PUSH8,
       W_OP_PUSH_INT8
<1>10. QED
  BY <1>1, <1>3, <1>7, <1>8, <1>9, PlainFalls

\* EXIT and RET.
LEMMA LeavesStep ==
  ASSUME ModuleOK, CheckInv, NEW t_op, NEW w_op,
         \/ t_op = T_OP_EXIT /\ w_op = W_OP_EXIT
         \/ t_op = T_OP_RET /\ w_op = W_OP_RET,
         Fetch({t_op}), NEW stack \in Stacks, NEW error \in BOOLEAN,
         GoOnAfter(t_ip, stack, saved, error), Emit(<<w_op>>), Plain
  PROVE  CheckInv'
<1> DEFINE bytes == <<w_op>>
           out2  == Out \o bytes
<1>1. /\ WholeBlock(In) /\ t_ip \in TStarts(In) /\ Opcode = At(In, t_ip)
      /\ Opcode = t_op /\ t_ip \in Nat /\ Len(In) \in Nat
      /\ TStarts(In) \subseteq 0..(Len(In) - 1)
  BY Fetched, TheFunction DEF Flows
<1>2. ~is_t_jump(t_op) /\ t_instruction_size(t_op) = 1
  BY DEF is_t_jump, t_instruction_size, T_OP_JUMP, T_OP_JUMP_COND, T_OP_JUMP_NCOND,
       T_OP_FOR_STARTS, T_OP_FOR_UPDATES, T_OP_FOR_DEC_START, T_OP_FOR_INC_START, T_OP_FOR_DEC,
       T_OP_FOR_INC, T_OP_LOCAL_SET, T_OP_LOCAL_GET, T_OP_GET_LOOP_VAR, T_OP_CALL8, T_OP_PUSH8,
       T_OP_PUSH_INT8, T_OP_EXIT, T_OP_RET
<1>3. w_op \in Nat /\ ~is_w_jump(w_op) /\ get_w_instruction_size(w_op) = 1
  BY DEF is_w_jump, get_w_instruction_size, W_OP_JUMP, W_OP_JUMP_COND, W_OP_JUMP_NCOND,
       W_OP_FOR_STARTS, W_OP_FOR_UPDATES, W_OP_FOR_DEC_START, W_OP_FOR_INC_START, W_OP_FOR_DEC,
       W_OP_FOR_INC, W_OP_CALL8, W_OP_LOCAL_GET, W_OP_LOCAL_SET, W_OP_GET_LOOP_VAR, W_OP_PUSH8,
       W_OP_PUSH_INT8, W_OP_EXIT, W_OP_RET
<1>4. bytes \in Seq(Nat) /\ Len(bytes) = 1 /\ At(bytes, 0) = w_op
  BY <1>3 DEF At
<1>5. Emit(bytes)
  OBVIOUS
<1> HIDE DEF bytes
<1>6. /\ Emitted(out2, t_ip + t_instruction_size(Opcode), saved, wir_srcs)
      /\ Remains(out2, saved, wir_srcs)
  BY <1>1, <1>2, <1>3, <1>4, <1>5, EmitsPlain
<1>7. Emitted(out2, t_ip + 1, saved, wir_srcs)
  BY <1>1, <1>2, <1>6
<1>8. t_ip < Len(In)
  BY <1>1
<1> HIDE DEF out2
<1>9. QED
  BY <1>1, <1>6, <1>7, <1>8, GoesOn

LEMMA ExitRetStep ==
  ASSUME ModuleOK, CheckInv, CheckExit \/ CheckRet
  PROVE  CheckInv'
<1>1. CASE CheckExit
  <2> DEFINE error == Underflow \/ PoppedType = ErrorType
  <2>1. /\ Fetch({T_OP_EXIT}) /\ GoOnAfter(t_ip, Popped, saved, error)
        /\ Emit(<<W_OP_EXIT>>) /\ Plain
    BY <1>1 DEF CheckExit
  <2>2. tstack \in Stacks
    BY <2>1, Fetched DEF CheckInv
  <2>3. Popped \in Stacks /\ error \in BOOLEAN
    BY <2>2, PopTypes
  <2> HIDE DEF error
  <2>4. QED
    BY <2>1, <2>3, LeavesStep
<1>2. CASE CheckRet
  <2> DEFINE error == tstack # sigs[current + 1].rets
  <2>1. /\ Fetch({T_OP_RET}) /\ GoOnAfter(t_ip, tstack, saved, error)
        /\ Emit(<<W_OP_RET>>) /\ Plain
    BY <1>2 DEF CheckRet
  <2>2. tstack \in Stacks /\ error \in BOOLEAN
    BY <2>1, Fetched DEF CheckInv
  <2> HIDE DEF error
  <2>3. QED
    BY <2>1, <2>2, LeavesStep
<1>3. QED
  BY <1>1, <1>2

LEMMA JumpOps ==
  /\ \A op : is_t_jump(op) <=> op \in {28, 29, 30, 31, 35, 36, 37}
  /\ \A op : is_w_jump(op) <=> op \in {39, 40, 41, 42, 52, 53, 54}
<1>1. \A op : is_t_jump(op) <=> op \in {28, 29, 30, 31, 35, 36, 37}
  BY DEF is_t_jump, T_OP_JUMP, T_OP_JUMP_COND, T_OP_JUMP_NCOND, T_OP_FOR_STARTS,
       T_OP_FOR_UPDATES, T_OP_FOR_DEC_START, T_OP_FOR_INC_START, T_OP_FOR_DEC, T_OP_FOR_INC
<1>2. \A op : is_w_jump(op) <=> op \in {39, 40, 41, 42, 52, 53, 54}
  BY DEF is_w_jump, W_OP_JUMP, W_OP_JUMP_COND, W_OP_JUMP_NCOND, W_OP_FOR_STARTS,
       W_OP_FOR_UPDATES, W_OP_FOR_DEC_START, W_OP_FOR_INC_START, W_OP_FOR_DEC, W_OP_FOR_INC
<1>3. QED
  BY <1>1, <1>2

\* A jump is emitted and recorded.
LEMMA EmitsJump ==
  ASSUME ModuleOK, CheckInv, NEW ops, Fetch(ops), is_t_jump(Opcode), NEW op \in Nat, is_w_jump(op),
         NEW dest, dest = JumpDest(In, t_ip), NEW stack \in Stacks, SaveJump(dest, stack),
         Emit(CopiedJump(op, dest)), UNCHANGED <<input, check_status, current, wir_dests, w_jumps>>
  PROVE  /\ Emitted(Out \o CopiedJump(op, dest), t_ip + 3, saved', wir_srcs')
         /\ Remains(Out \o CopiedJump(op, dest), saved', wir_srcs')
         /\ t_ip \in Nat /\ t_ip + 2 \in Nat /\ t_ip + 2 < Len(In) /\ (t_ip + 2) + 1 = t_ip + 3
         /\ t_instruction_size(Opcode) = 3
<1> DEFINE v    == CopiedOperand(In, t_ip, Out, wir_dests)
           out2 == Out \o (<<op>> \o U16(v))
<1>1. /\ Flows(In, Jumps) /\ t_ip \in TStarts(In) /\ Opcode = At(In, t_ip)
      /\ WholeCode("w", Out)
      /\ Progress(In, Jumps, Ahead(Jumps, t_ip), Out, t_ip, saved, wir_dests, wir_srcs)
      /\ ~had_error => Mirror(In, Jumps, Ahead(Jumps, t_ip), Out, t_ip, wir_dests, wir_srcs,
                              w_jumps[current + 1])
  BY Fetched, TheFunction
<1>2. t_ip \in TJumps(In)
  BY <1>1 DEF TJumps
<1>3. CopiedJump(op, dest) = <<op>> \o U16(v)
  BY Zenon DEF CopiedJump, CopiedOperand
<1>4. saved' = JumpSaves(saved, dest, stack)
  BY DEF SaveJump, JumpSaves, IsSaved
<1>5. wir_srcs' = [wir_srcs EXCEPT ![dest] = @ \cup {Len(Out)}]
  BY DEF SaveJump
<1>6. /\ Progress(In, Jumps, From(Jumps, t_ip + 3), out2, t_ip + 3, saved', wir_dests, wir_srcs')
      /\ ~had_error => Mirror(In, Jumps, From(Jumps, t_ip + 3), out2, t_ip + 3, wir_dests, wir_srcs',
                              w_jumps[current + 1])
  <2> DEFINE stacks2 == saved'
             srcs2   == wir_srcs'
  <2>1. out2 = Out \o (<<op>> \o U16(v)) /\ v = CopiedOperand(In, t_ip, Out, wir_dests)
    OBVIOUS
  <2>2. stacks2 = JumpSaves(saved, dest, stack)
    BY <1>4
  <2>3. srcs2 = [wir_srcs EXCEPT ![dest] = @ \cup {Len(Out)}]
    BY <1>5
  <2> HIDE DEF out2, v, stacks2, srcs2
  <2>4. Progress(In, Jumps, From(Jumps, t_ip + 3), out2, t_ip + 3, stacks2, wir_dests, srcs2)
    BY <1>1, <1>2, <2>1, <2>2, <2>3, ProgressJump
  <2>5. ~had_error => Mirror(In, Jumps, From(Jumps, t_ip + 3), out2, t_ip + 3, wir_dests, srcs2,
                             w_jumps[current + 1])
    BY <1>1, <1>2, <2>1, <2>3, MirrorJump
  <2>6. QED
    BY <2>4, <2>5 DEF stacks2, srcs2
<1>7. w_code' = [w_code EXCEPT ![current + 1] = Out \o CopiedJump(op, dest)]
  BY DEF Emit, Out
<1>8. Remains(out2, saved', wir_srcs')
  <2> HIDE DEF v
  <2>1. QED
    BY <1>3, <1>7 DEF Remains, input
<1>9. Emitted(out2, t_ip + 3, saved', wir_srcs')
  <2> HIDE DEF v, out2
  <2>1. QED
    BY <1>6 DEF Emitted
<1>10. /\ t_ip \in Nat /\ t_ip + 3 <= Len(In) /\ Len(In) \in Nat
       /\ t_instruction_size(Opcode) = 3
  BY <1>1, <1>2, JumpFits, JumpSize DEF Flows
<1>11. out2 = Out \o CopiedJump(op, dest)
  BY <1>3
<1> HIDE DEF out2, v
<1>12. QED
  BY <1>8, <1>9, <1>10, <1>11

\* A jump of the code goes to one of its destinations: no assertion fails.
LEMMA JumpKnown ==
  ASSUME ModuleOK, CheckInv, NEW ops, Fetch(ops), is_t_jump(Opcode)
  PROVE  JumpDest(In, t_ip) \in Jumps
<1>1. Flows(In, Jumps) /\ t_ip \in TStarts(In) /\ Opcode = At(In, t_ip)
  BY Fetched, TheFunction
<1>2. t_ip \in TJumps(In)
  BY <1>1 DEF TJumps
<1>3. QED
  BY <1>1, <1>2, FlowFacts

LEMMA JumpFalls ==
  ASSUME ModuleOK, CheckInv, NEW ops, Fetch(ops), is_t_jump(Opcode), NEW op \in Nat, is_w_jump(op),
         NEW dest, dest = JumpDest(In, t_ip), NEW stack \in Stacks, SaveJump(dest, stack),
         Emit(CopiedJump(op, dest)), UNCHANGED <<input, check_status, current, wir_dests, w_jumps>>,
         NEW error \in BOOLEAN, FallThrough(stack, error)
  PROVE  CheckInv'
<1> DEFINE out2 == Out \o CopiedJump(op, dest)
           next == t_ip + 3
<1>1. /\ Emitted(out2, next, saved', wir_srcs') /\ Remains(out2, saved', wir_srcs')
      /\ t_instruction_size(Opcode) = 3
  BY EmitsJump
<1>2. /\ t_ip' = next /\ tstack' \in Stacks /\ arrived' = FALSE
      /\ had_error' \in BOOLEAN /\ (had_error => had_error')
  BY <1>1 DEF FallThrough, CheckInv
<1> HIDE DEF out2, next
<1>3. QED
  BY <1>1, <1>2, Falls

LEMMA ConditionalJumpStep ==
  ASSUME ModuleOK, CheckInv, CheckConditionalJump
  PROVE  CheckInv'
<1> USE DEF T_OP_FOR_STARTS, T_OP_JUMP_COND, T_OP_JUMP_NCOND, T_OP_FOR_DEC_START, T_OP_FOR_INC_START,
            W_OP_JUMP_COND, W_OP_JUMP_NCOND, W_OP_FOR_DEC_START, W_OP_FOR_INC_START
<1> DEFINE ops  == {T_OP_JUMP_COND, T_OP_JUMP_NCOND} \cup T_OP_FOR_STARTS
           dest == JumpDest(In, t_ip)
           w_op == CASE Opcode = T_OP_JUMP_COND     -> W_OP_JUMP_COND
                     [] Opcode = T_OP_JUMP_NCOND    -> W_OP_JUMP_NCOND
                     [] Opcode = T_OP_FOR_DEC_START -> W_OP_FOR_DEC_START
                     [] Opcode = T_OP_FOR_INC_START -> W_OP_FOR_INC_START
           error == Underflow \/ Inconsistent(dest, Popped)
<1>1. Fetch(ops)
  BY DEF CheckConditionalJump
<1>2. Opcode \in ops /\ tstack \in Stacks
  BY <1>1, Fetched DEF CheckInv
<1>3. is_t_jump(Opcode)
  BY <1>2, JumpOps
<1>4. w_op \in Nat /\ is_w_jump(w_op)
  BY <1>2, JumpOps
<1>5. dest \in Jumps
  BY <1>1, <1>3, JumpKnown
<1>6. /\ SaveJump(dest, Popped)
      /\ FallThrough(Popped, error)
      /\ Emit(CopiedJump(w_op, dest))
      /\ UNCHANGED <<input, check_status, current, wir_dests, w_jumps>>
  BY <1>5 DEF CheckConditionalJump
<1>7. Popped \in Stacks /\ error \in BOOLEAN
  BY <1>2, PopTypes DEF Inconsistent
<1>8. dest = JumpDest(In, t_ip)
  OBVIOUS
<1> HIDE DEF dest, w_op, error
<1>9. QED
  BY <1>1, <1>3, <1>4, <1>6, <1>7, <1>8, JumpFalls

LEMMA ForUpdateStep ==
  ASSUME ModuleOK, CheckInv, CheckForUpdate
  PROVE  CheckInv'
<1> USE DEF T_OP_FOR_UPDATES, T_OP_FOR_DEC, T_OP_FOR_INC, W_OP_FOR_DEC, W_OP_FOR_INC
<1> DEFINE ops  == T_OP_FOR_UPDATES
           dest == JumpDest(In, t_ip)
           w_op == IF Opcode = T_OP_FOR_DEC THEN W_OP_FOR_DEC ELSE W_OP_FOR_INC
           error == Inconsistent(dest, tstack)
<1>1. Fetch(ops)
  BY DEF CheckForUpdate
<1>2. Opcode \in ops /\ tstack \in Stacks
  BY <1>1, Fetched DEF CheckInv
<1>3. is_t_jump(Opcode)
  BY <1>2, JumpOps
<1>4. w_op \in Nat /\ is_w_jump(w_op)
  BY <1>2, JumpOps
<1>5. dest \in Jumps
  BY <1>1, <1>3, JumpKnown
<1>6. /\ SaveJump(dest, tstack)
      /\ FallThrough(tstack, error)
      /\ Emit(CopiedJump(w_op, dest))
      /\ UNCHANGED <<input, check_status, current, wir_dests, w_jumps>>
  BY <1>5 DEF CheckForUpdate
<1>7. error \in BOOLEAN
  BY DEF Inconsistent
<1>8. dest = JumpDest(In, t_ip)
  OBVIOUS
<1> HIDE DEF dest, w_op, error
<1>9. QED
  BY <1>1, <1>2, <1>3, <1>4, <1>6, <1>7, <1>8, JumpFalls

LEMMA JumpStep ==
  ASSUME ModuleOK, CheckInv, CheckJump
  PROVE  CheckInv'
<1> DEFINE ops   == {T_OP_JUMP}
           dest  == JumpDest(In, t_ip)
           error == Inconsistent(dest, tstack)
           out2  == Out \o CopiedJump(W_OP_JUMP, dest)
<1>1. Fetch(ops)
  BY DEF CheckJump
<1>2. Opcode = T_OP_JUMP /\ tstack \in Stacks
  BY <1>1, Fetched DEF CheckInv
<1>3. is_t_jump(Opcode) /\ W_OP_JUMP \in Nat /\ is_w_jump(W_OP_JUMP)
  BY <1>2, JumpOps DEF T_OP_JUMP, W_OP_JUMP
<1>4. dest \in Jumps
  BY <1>1, <1>3, JumpKnown
<1>5. /\ SaveJump(dest, tstack)
      /\ GoOnAfter(t_ip + 2, tstack, saved', error)
      /\ Emit(CopiedJump(W_OP_JUMP, dest))
      /\ UNCHANGED <<input, check_status, current, wir_dests, w_jumps>>
  BY <1>4 DEF CheckJump
<1>6. error \in BOOLEAN
  BY DEF Inconsistent
<1>7. dest = JumpDest(In, t_ip)
  OBVIOUS
<1> HIDE DEF dest, error
<1>8. /\ Emitted(out2, t_ip + 3, saved', wir_srcs') /\ Remains(out2, saved', wir_srcs')
      /\ t_ip + 2 \in Nat /\ t_ip + 2 < Len(In) /\ (t_ip + 2) + 1 = t_ip + 3
  BY <1>1, <1>2, <1>3, <1>5, <1>7, EmitsJump
<1> HIDE DEF out2
<1>9. PICK last \in Nat : last = t_ip + 2
  BY <1>8
<1>10. /\ GoOnAfter(last, tstack, saved', error)
       /\ last < Len(In)
       /\ Emitted(out2, last + 1, saved', wir_srcs')
  BY <1>5, <1>8, <1>9
<1>11. QED
  BY <1>1, <1>2, <1>6, <1>8, <1>10, GoesOn

\* A destination.
LEMMA ArriveStep ==
  ASSUME ModuleOK, CheckInv, Arrive
  PROVE  CheckInv'
<1> DEFINE forward == IsSaved(t_ip)
           srcs    == wir_srcs[t_ip]
           targets == w_jumps[current + 1]
           out2    == ArrivedOut(Out, saved[t_ip], srcs)
<1>1. check_status = "checking" /\ t_ip < Len(In) /\ t_ip \in Jumps /\ ~arrived
  BY DEF Arrive
<1>2. /\ Flows(In, Jumps) /\ current + 1 \in 1..Len(t_code) /\ Len(Out) \in Nat
      /\ tstack \in Stacks /\ had_error \in BOOLEAN
      /\ w_code \in [1..Len(t_code) -> Seq(Nat)]
      /\ w_jumps \in [1..Len(t_code) -> SUBSET Nat]
  BY <1>1, TheFunction DEF CheckInv
<1>3. Pending = From(Jumps, t_ip)
  BY <1>1 DEF Pending
<1>4. /\ Progress(In, Jumps, From(Jumps, t_ip), Out, t_ip, saved, wir_dests, wir_srcs)
      /\ ~had_error => Mirror(In, Jumps, From(Jumps, t_ip), Out, t_ip, wir_dests, wir_srcs, targets)
  BY <1>1, <1>3 DEF CheckInv, InFunction
<1>5. ~(forward /\ (srcs = {} \/ \E s \in srcs : Len(Out) - s - 1 <= 0))
  <2>1. /\ saved[t_ip] # NotSaved <=> srcs # {}
        /\ \A s \in srcs : Len(Out) - s - 1 > 0
    BY <1>1, <1>2, <1>4, WaitedFor
  <2>2. ASSUME NEW s \in srcs PROVE ~(Len(Out) - s - 1 <= 0)
    <3>1. s \in Nat
      BY <1>1, <1>4, <2>2 DEF Progress, Tables
    <3>2. QED
      BY <1>2, <2>1, <3>1
  <2>3. QED
    BY <2>1, <2>2 DEF IsSaved
<1>6. /\ arrived' = TRUE
      /\ wir_dests' = [wir_dests EXCEPT ![t_ip] = Len(Out)]
      /\ w_jumps' = [w_jumps EXCEPT ![current + 1] = @ \cup {Len(Out)}]
      /\ saved' = IF forward THEN saved ELSE [saved EXCEPT ![t_ip] = tstack]
      /\ had_error' = (had_error \/ (forward /\ saved[t_ip] # tstack))
      /\ w_code' = IF forward THEN [w_code EXCEPT ![current + 1] = PatchAll(@, srcs, Len(@))] ELSE w_code
      /\ UNCHANGED <<t_code, t_jumps, sigs, locals, check_status, current, t_ip, tstack, wir_srcs>>
  BY <1>5 DEF Arrive, input
<1>7. w_code' = [w_code EXCEPT ![current + 1] = out2]
  <2>1. CASE forward
    BY <1>6, <2>1 DEF ArrivedOut, IsSaved, Out
  <2>2. CASE ~forward
    <3>1. out2 = Out
      BY <2>2 DEF ArrivedOut, IsSaved
    <3>2. w_code = [w_code EXCEPT ![current + 1] = Out]
      BY <1>2 DEF Out
    <3>3. QED
      BY <1>6, <2>2, <3>1, <3>2
  <2>3. QED
    BY <2>1, <2>2
<1>8. In' = In /\ Jumps' = Jumps
  BY <1>6 DEF In, Jumps
<1>9. Pending' = Ahead(Jumps, t_ip)
  BY <1>6, <1>8 DEF Pending
<1>10. /\ saved' \in [Jumps -> Stacks \cup {NotSaved}]
       /\ \A d \in Jumps : d # t_ip => saved'[d] = saved[d]
  <2>1. saved \in [Jumps -> Stacks \cup {NotSaved}]
    BY <1>4 DEF Progress, Tables
  <2>2. CASE forward
    BY <1>6, <2>1, <2>2
  <2>3. CASE ~forward
    BY <1>1, <1>2, <1>6, <2>1, <2>3
  <2>4. QED
    BY <2>2, <2>3
<1>11. out2 = ArrivedOut(Out, saved[t_ip], wir_srcs[t_ip])
  OBVIOUS
<1> HIDE DEF out2, forward, srcs
<1>12. Progress(In, Jumps, Pending', out2, t_ip', saved', wir_dests', wir_srcs')
  <2> DEFINE stacks2 == saved'
  <2>1. /\ stacks2 \in [Jumps -> Stacks \cup {NotSaved}]
        /\ \A d \in Jumps : d # t_ip => stacks2[d] = saved[d]
    BY <1>10
  <2> HIDE DEF stacks2
  <2>2. Progress(In, Jumps, Ahead(Jumps, t_ip), out2, t_ip, stacks2,
                 [wir_dests EXCEPT ![t_ip] = Len(Out)], wir_srcs)
    BY <1>1, <1>2, <1>4, <1>11, <2>1, ProgressArrives
  <2>3. QED
    BY <1>6, <1>9, <2>2 DEF stacks2
<1>13. had_error' \in BOOLEAN /\ (had_error => had_error')
  BY <1>2, <1>6
<1>14. ~had_error' => Mirror(In, Jumps, Pending', out2, t_ip', wir_dests', wir_srcs',
                              targets \cup {Len(Out)})
  <2>1. ~had_error => Mirror(In, Jumps, Ahead(Jumps, t_ip), out2, t_ip,
                             [wir_dests EXCEPT ![t_ip] = Len(Out)], wir_srcs, targets \cup {Len(Out)})
    BY <1>1, <1>2, <1>4, <1>11, MirrorArrives
  <2>2. QED
    BY <1>6, <1>9, <1>13, <2>1
<1>15. /\ targets \cup {Len(Out)} \in SUBSET Nat
       /\ w_jumps' = [w_jumps EXCEPT ![current + 1] = targets \cup {Len(Out)}]
  BY <1>2, <1>6
<1>16. Within(out2, targets \cup {Len(Out)})
  BY <1>1, <1>2, <1>6, <1>7, <1>8, <1>12, <1>13, <1>14, <1>15 DEF Within
<1>17. QED
  BY <1>1, <1>16, WithinKeeps

LEMMA Begins ==
  ASSUME ModuleOK, NEW f \in Nat, f < Len(t_code), StartFunction(f), UNCHANGED input,
         w_code'[f + 1] = <<>>, w_jumps'[f + 1] = {}
  PROVE  InFunction' /\ tstack' \in Stacks /\ current' = f /\ arrived' = FALSE
<1> DEFINE block  == t_code[f + 1]
           dests  == t_jumps[f + 1]
           stacks == [dest \in dests |-> NotSaved]
           wdests == [dest \in dests |-> 0]
           srcs   == [dest \in dests |-> {}]
<1>1. f + 1 \in 1..Len(t_code) /\ Flows(block, dests)
  <2>1. Len(t_code) \in Nat
    BY LenProperties DEF ModuleOK
  <2>2. f + 1 \in 1..Len(t_code)
    BY <2>1
  <2>3. QED
    BY <2>2 DEF ModuleOK
<1>2. /\ current' = f /\ t_ip' = 0 /\ tstack' = sigs[f + 1].params /\ arrived' = FALSE
      /\ saved' = stacks /\ wir_dests' = wdests /\ wir_srcs' = srcs
      /\ t_code' = t_code /\ t_jumps' = t_jumps
  BY DEF StartFunction, input
<1>3. In' = block /\ Jumps' = dests /\ Out' = <<>> /\ w_jumps'[current' + 1] = {}
  BY <1>2 DEF In, Jumps, Out
<1>4. srcs = [d \in dests |-> {}]
  OBVIOUS
<1>5. Progress(block, dests, From(dests, 0), <<>>, 0, stacks, wdests, srcs)
  BY <1>1, ProgressStarts
<1> HIDE DEF block, dests, stacks, wdests, srcs
<1>6. Mirror(block, dests, From(dests, 0), <<>>, 0, wdests, srcs, {})
  BY <1>1, <1>4, MirrorStarts
<1>7. Pending' = From(dests, 0)
  BY <1>2, <1>3 DEF Pending
<1>8. InFunction'
  BY <1>2, <1>3, <1>5, <1>6, <1>7 DEF InFunction
<1>9. tstack' \in Stacks
  BY <1>1, <1>2 DEF ModuleOK
<1>10. QED
  BY <1>2, <1>8, <1>9

LEMMA StartStep ==
  ASSUME ModuleOK, CheckInv, Start
  PROVE  CheckInv'
<1>1. /\ check_status' = "checking" /\ StartFunction(0) /\ had_error' = had_error
      /\ w_code' = [f \in DOMAIN t_code |-> <<>>]
      /\ w_jumps' = [f \in DOMAIN t_code |-> {}]
      /\ UNCHANGED input
  BY DEF Start
<1>2. DOMAIN t_code = 1..Len(t_code) /\ Len(t_code) \in Nat /\ 0 < Len(t_code)
  BY LenProperties, EmptySeq DEF ModuleOK
<1>3. /\ w_code' \in [1..Len(t_code) -> Seq(Nat)]
      /\ w_jumps' \in [1..Len(t_code) -> SUBSET Nat]
      /\ \A f \in 1..Len(t_code) : w_code'[f] = <<>> /\ w_jumps'[f] = {}
  BY <1>1, <1>2
<1>4. InFunction' /\ tstack' \in Stacks /\ current' = 0 /\ arrived' = FALSE
  <2>1. w_code'[0 + 1] = <<>> /\ w_jumps'[0 + 1] = {}
    BY <1>2, <1>3
  <2>2. QED
    BY <1>1, <1>2, <2>1, Begins
<1>5. Checked(0)'
  BY DEF Checked
<1>6. t_code' = t_code
  BY <1>1 DEF input
<1>7. ~had_error' => Checked(current)'
  BY <1>4, <1>5 DEF Checked
<1>8. QED
  BY <1>1, <1>2, <1>3, <1>4, <1>6, <1>7 DEF CheckInv

LEMMA NextFunctionStep ==
  ASSUME ModuleOK, CheckInv, NextFunction
  PROVE  CheckInv'
<1> DEFINE cur == current + 1
<1>1. check_status = "checking" /\ t_ip >= Len(In)
  BY DEF NextFunction
<1>2. /\ current \in Nat /\ current < Len(t_code) /\ Len(t_code) \in Nat /\ cur \in 1..Len(t_code)
      /\ Flows(In, Jumps) /\ t_ip \in Nat /\ Len(In) \in Nat
      /\ TStarts(In) \subseteq 0..(Len(In) - 1) /\ Jumps \subseteq TStarts(In)
      /\ w_code \in [1..Len(t_code) -> Seq(Nat)]
      /\ w_jumps \in [1..Len(t_code) -> SUBSET Nat]
      /\ had_error \in BOOLEAN
      /\ arrived \in BOOLEAN /\ (arrived => t_ip \in Jumps)
      /\ \A f \in 1..Len(t_code) : f > cur => w_code[f] = <<>> /\ w_jumps[f] = {}
      /\ InFunction
      /\ ~had_error => Checked(current)
  BY <1>1, TheFunction DEF CheckInv
<1>3. /\ w_code' = w_code /\ w_jumps' = w_jumps /\ had_error' = had_error
      /\ UNCHANGED input /\ t_code' = t_code /\ t_jumps' = t_jumps
      /\ IF current + 1 < Len(t_code)
         THEN StartFunction(current + 1) /\ UNCHANGED check_status
         ELSE check_status' = IF had_error THEN "type_error" ELSE "ok"
  BY DEF NextFunction, input
<1>4. ~arrived /\ Pending = From(Jumps, t_ip)
  <2>1. t_ip \notin Jumps
    BY <1>1, <1>2
  <2>2. QED
    BY <1>2, <2>1 DEF Pending
<1>5. ~had_error => Checked(cur)
  <2>1. SUFFICES ASSUME ~had_error PROVE Checked(cur)
    OBVIOUS
  <2>2. Mirror(In, Jumps, From(Jumps, t_ip), Out, t_ip, wir_dests, wir_srcs, w_jumps[cur])
    BY <1>2, <1>4, <2>1 DEF InFunction
  <2>3. Mirrored(In, Jumps, Out, w_jumps[cur])
    BY <1>1, <1>2, <2>2, MirrorEnds
  <2>4. \A f \in 1..cur : f = cur \/ f \in 1..current
    BY <1>2
  <2>5. QED
    BY <1>2, <2>1, <2>3, <2>4 DEF Checked, In, Jumps, Out
<1>6. ~had_error' => (\A f \in 1..cur : Mirrored(t_code'[f], t_jumps'[f], w_code'[f], w_jumps'[f]))
  BY <1>3, <1>5 DEF Checked
<1>7. CASE cur < Len(t_code)
  <2>1. StartFunction(cur) /\ check_status' = "checking"
    BY <1>1, <1>3, <1>7
  <2>2. cur \in Nat /\ cur + 1 \in 1..Len(t_code) /\ cur + 1 > cur
    BY <1>2, <1>7
  <2>3. w_code'[cur + 1] = <<>> /\ w_jumps'[cur + 1] = {}
    BY <1>2, <1>3, <2>2
  <2> HIDE DEF cur
  <2>4. InFunction' /\ tstack' \in Stacks /\ current' = cur /\ arrived' = FALSE
    BY <1>3, <1>7, <2>1, <2>2, <2>3, Begins
  <2>5. ~had_error' => Checked(current)'
    BY <1>6, <2>4 DEF Checked
  <2>6. \A f \in 1..Len(t_code) : f > cur + 1 => w_code'[f] = <<>> /\ w_jumps'[f] = {}
    <3>1. \A f \in 1..Len(t_code) : f > cur + 1 => f > cur
      BY <1>2, <2>2
    <3>2. QED
      BY <1>2, <1>3, <3>1
  <2>7. /\ w_code' \in [1..Len(t_code) -> Seq(Nat)]
        /\ w_jumps' \in [1..Len(t_code) -> SUBSET Nat]
        /\ had_error' \in BOOLEAN
    BY <1>2, <1>3
  <2>8. QED
    BY <1>3, <1>7, <2>1, <2>2, <2>4, <2>5, <2>6, <2>7 DEF CheckInv
<1>8. CASE ~(cur < Len(t_code))
  <2>1. check_status' = IF had_error THEN "type_error" ELSE "ok"
    BY <1>3, <1>8
  <2>2. cur = Len(t_code)
    BY <1>2, <1>8
  <2>3. w_code' \in [1..Len(t_code') -> Seq(Nat)]
    BY <1>2, <1>3
  <2>4. check_status' = "ok" => Checked(Len(t_code))'
    BY <1>3, <1>6, <2>1, <2>2 DEF Checked
  <2>5. QED
    BY <1>2, <1>3, <2>1, <2>3, <2>4 DEF CheckInv
<1>9. QED
  BY <1>7, <1>8

\* A module that is checked stays what it was.
LEMMA ModuleStays ==
  ASSUME ModuleOK, UNCHANGED input
  PROVE  ModuleOK'
BY DEF ModuleOK, input

LEMMA CheckStepKeepsInput ==
  ASSUME ModuleOK, CheckInv, CheckStep
  PROVE  UNCHANGED input
BY DEF CheckStep, Start, NextFunction, Arrive, Abort, CheckPush, CheckPop, CheckDupe, CheckGetLoopVar,
       CheckLocalGet, CheckLocalSet, CheckCall, CheckConditionalJump, CheckForUpdate, CheckJump,
       CheckExit, CheckRet, Plain

LEMMA CheckStepKeeps ==
  ASSUME ModuleOK, CheckInv, CheckStep
  PROVE  ModuleOK' /\ CheckInv'
<1>1. ModuleOK'
  BY CheckStepKeepsInput, ModuleStays
<1>2. CheckInv'
  BY StartStep, NextFunctionStep, ArriveStep, PlainStep, LocalSetStep, CallStep, ConditionalJumpStep,
     ForUpdateStep, JumpStep, ExitRetStep DEF CheckStep
<1>3. QED
  BY <1>1, <1>2

LEMMA CheckStutter ==
  ASSUME ModuleOK, CheckInv, UNCHANGED vars
  PROVE  ModuleOK' /\ CheckInv'
<1>1. ModuleOK'
  BY ModuleStays DEF vars
<1>2. CheckInv'
  <2>1. /\ t_code' = t_code /\ t_jumps' = t_jumps /\ check_status' = check_status
        /\ current' = current /\ t_ip' = t_ip /\ tstack' = tstack /\ had_error' = had_error
        /\ arrived' = arrived /\ saved' = saved /\ wir_dests' = wir_dests /\ wir_srcs' = wir_srcs
        /\ w_code' = w_code /\ w_jumps' = w_jumps
    BY DEF vars, input, checker
  <2>2. QED
    BY <2>1 DEF CheckInv, InFunction, Checked, Pending, In, Out, Jumps
<1>3. QED
  BY <1>1, <1>2

-----------------------------------------------------------------------------
(* What the invariant says.                                                *)

LEMMA InvPatches ==
  ASSUME ModuleOK, CheckInv
  PROVE  PatchesOwed
<1>1. SUFFICES ASSUME check_status = "checking"
               PROVE  LET pending == {dest \in Jumps : dest > t_ip \/ (dest = t_ip /\ ~arrived)}
                      IN  {ip \in WJumps(Out) : read_s16(Out, ip + 1) = 0}
                            = UNION {wir_srcs[dest] : dest \in pending}
  BY DEF PatchesOwed
<1> DEFINE pending == {dest \in Jumps : dest > t_ip \/ (dest = t_ip /\ ~arrived)}
<1>2. Jumps \subseteq Nat /\ t_ip \in Nat /\ arrived \in BOOLEAN
  BY <1>1, TheFunction DEF CheckInv
<1>3. pending = Pending
  <2>1. CASE arrived
    BY <2>1 DEF Pending, Ahead
  <2>2. CASE ~arrived
    <3>1. \A d \in Jumps : d > t_ip \/ d = t_ip <=> d >= t_ip
      BY <1>2
    <3>2. QED
      BY <2>2, <3>1 DEF Pending, From
  <2>3. QED
    BY <2>1, <2>2
<1>4. Waiting(Out, Pending, saved, wir_srcs)
  BY <1>1 DEF CheckInv, InFunction, Progress
<1>5. Unpatched(Out) = UNION {wir_srcs[dest] : dest \in Pending}
  BY <1>4 DEF Waiting
<1>6. QED
  BY <1>3, <1>5 DEF Unpatched

LEMMA InvNoAssertion ==
  ASSUME CheckInv
  PROVE  NoAssertionFails
BY DEF CheckInv, NoAssertionFails

LEMMA InvResolved ==
  ASSUME ModuleOK, CheckInv
  PROVE  WordJumpsResolved
<1>1. SUFFICES ASSUME check_status = "ok", NEW f \in DOMAIN w_code
               PROVE  LET dests == {JumpDest(w_code[f], ip) : ip \in WJumps(w_code[f])}
                      IN  dests \subseteq WStarts(w_code[f]) /\ w_jumps[f] = dests
  BY DEF WordJumpsResolved
<1>2. f \in 1..Len(t_code) /\ Mirrored(t_code[f], t_jumps[f], w_code[f], w_jumps[f])
  BY <1>1 DEF CheckInv, Checked
<1>3. Flows(t_code[f], t_jumps[f])
  BY <1>2 DEF ModuleOK
<1>4. {JumpDest(w_code[f], ip) : ip \in WJumps(w_code[f])} = t_jumps[f]
  BY <1>2, <1>3 DEF Mirrored, Flows
<1>5. t_jumps[f] \subseteq WStarts(w_code[f])
  BY <1>2, <1>3 DEF Mirrored, Flows
<1>6. QED
  BY <1>2, <1>4, <1>5 DEF Mirrored

LEMMA SameRank ==
  ASSUME NEW block, NEW dests, NEW out, NEW targets, Mirrored(block, dests, out, targets),
         Len(out) \in Nat, TStarts(block) \subseteq Nat, NEW at \in Nat, at < Len(out)
  PROVE  Rank(WStarts(out), at) = Rank(TStarts(block), at)
<1>1. {s \in WStarts(out) : s < at} = {s \in TStarts(block) : s < at}
  BY DEF Mirrored
<1>2. QED
  BY <1>1, Zenon DEF Rank

LEMMA InvMirrored ==
  ASSUME ModuleOK, CheckInv
  PROVE  JumpsMirrored
<1>1. SUFFICES ASSUME check_status = "ok", NEW f \in DOMAIN w_code
               PROVE  LET t_starts == TStarts(t_code[f])
                          w_starts == WStarts(w_code[f])
                      IN  {<<Rank(t_starts, ip), Rank(t_starts, JumpDest(t_code[f], ip))>> :
                             ip \in TJumps(t_code[f])}
                          = {<<Rank(w_starts, ip), Rank(w_starts, JumpDest(w_code[f], ip))>> :
                               ip \in WJumps(w_code[f])}
  BY DEF JumpsMirrored
<1> DEFINE block == t_code[f]
           dests == t_jumps[f]
           out   == w_code[f]
<1>2. f \in 1..Len(t_code) /\ Mirrored(block, dests, out, w_jumps[f])
  BY <1>1 DEF CheckInv, Checked
<1>3. Flows(block, dests) /\ TStarts(block) \subseteq Nat
  <2>1. Flows(block, dests)
    BY <1>2 DEF ModuleOK
  <2>2. TStarts(block) \subseteq 0..(Len(block) - 1)
    BY <2>1 DEF Flows, WholeBlock, Whole
  <2>3. QED
    BY <2>1, <2>2
<1>4. Len(out) \in Nat
  <2>1. out \in Seq(Nat)
    BY <1>1, <1>2 DEF CheckInv
  <2>2. QED
    BY <2>1, LenProperties
<1> HIDE DEF block, dests, out
<1>5. ASSUME NEW ip \in TJumps(block)
      PROVE  /\ Rank(WStarts(out), ip) = Rank(TStarts(block), ip)
             /\ Rank(WStarts(out), JumpDest(out, ip)) = Rank(TStarts(block), JumpDest(block, ip))
  <2>1. ip \in Nat /\ JumpDest(block, ip) \in dests /\ JumpDest(block, ip) \in Nat
    BY <1>3, FlowFacts
  <2>2. ip < Len(out) /\ JumpDest(block, ip) < Len(out) /\ JumpDest(out, ip) = JumpDest(block, ip)
    BY <1>2, <2>1 DEF Mirrored
  <2>3. QED
    BY <1>2, <1>3, <1>4, <2>1, <2>2, SameRank
<1>6. WJumps(out) = TJumps(block)
  BY <1>2 DEF Mirrored
<1>7. {<<Rank(TStarts(block), ip), Rank(TStarts(block), JumpDest(block, ip))>> : ip \in TJumps(block)}
        = {<<Rank(WStarts(out), ip), Rank(WStarts(out), JumpDest(out, ip))>> : ip \in WJumps(out)}
  BY <1>5, <1>6
<1>8. QED
  BY <1>7 DEF block, out

-----------------------------------------------------------------------------
(* Theorems.                                                               *)

\* The type checker on a module of its own: it starts idle, and steps on.
CheckSpec == CheckerInit /\ [][CheckStep]_vars

LEMMA CheckInductive == ModuleOK /\ CheckSpec => [](ModuleOK /\ CheckInv)
<1>1. ASSUME CheckerInit PROVE CheckInv
  BY <1>1 DEF CheckerInit, CheckInv
<1>2. ASSUME ModuleOK, CheckInv, [CheckStep]_vars PROVE ModuleOK' /\ CheckInv'
  BY <1>2, CheckStepKeeps, CheckStutter
<1>3. QED
  BY <1>1, <1>2, PTL DEF CheckSpec

\* save_jump and patch_jump: on every module that is what the compiler promises, the
\* jumps recorded for the destinations ahead are those that still hold the placeholder,
\* whatever is skipped as unreachable.
THEOREM PatchesAlwaysOwed == ModuleOK /\ CheckSpec => []PatchesOwed
BY CheckInductive, InvPatches, PTL

\* No assertion of the type checker fails on such a module: every jump has an entry in
\* the table of destinations, a stack that is saved ahead has its jumps, and these are
\* patched to go forward.
THEOREM AssertionsHold == ModuleOK /\ CheckSpec => []NoAssertionFails
BY CheckInductive, InvNoAssertion, PTL

\* The jumps of the W-code of a module that is accepted land on instructions, and its
\* tables hold just where they land.
THEOREM WordJumpsAlwaysResolved == ModuleOK /\ CheckSpec => []WordJumpsResolved
BY CheckInductive, InvResolved, PTL

\* The W-code of a module that is accepted has the jumps of its T-code.
THEOREM JumpsAlwaysMirrored == ModuleOK /\ CheckSpec => []JumpsMirrored
BY CheckInductive, InvMirrored, PTL

-----------------------------------------------------------------------------
(* The W-code is a translation of the T-code.                              *)

\* The instruction that is emitted for one of the T-code.
Translation(op) ==
  CASE op = T_OP_PUSH8         -> W_OP_PUSH8
    [] op = T_OP_PUSH_INT8     -> W_OP_PUSH_INT8
    [] op = T_OP_POP           -> W_OP_POP
    [] op = T_OP_DUPE          -> W_OP_DUPE
    [] op = T_OP_EXIT          -> W_OP_EXIT
    [] op = T_OP_FOR_DEC_START -> W_OP_FOR_DEC_START
    [] op = T_OP_FOR_DEC       -> W_OP_FOR_DEC
    [] op = T_OP_FOR_INC_START -> W_OP_FOR_INC_START
    [] op = T_OP_FOR_INC       -> W_OP_FOR_INC
    [] op = T_OP_GET_LOOP_VAR  -> W_OP_GET_LOOP_VAR
    [] op = T_OP_JUMP          -> W_OP_JUMP
    [] op = T_OP_JUMP_COND     -> W_OP_JUMP_COND
    [] op = T_OP_JUMP_NCOND    -> W_OP_JUMP_NCOND
    [] op = T_OP_LOCAL_GET     -> W_OP_LOCAL_GET
    [] op = T_OP_LOCAL_SET     -> W_OP_LOCAL_SET
    [] op = T_OP_CALL8         -> W_OP_CALL8
    [] op = T_OP_RET           -> W_OP_RET

Translatable ==
  {T_OP_PUSH8, T_OP_PUSH_INT8, T_OP_POP, T_OP_DUPE, T_OP_EXIT, T_OP_GET_LOOP_VAR, T_OP_JUMP,
   T_OP_JUMP_COND, T_OP_JUMP_NCOND, T_OP_LOCAL_GET, T_OP_LOCAL_SET, T_OP_CALL8, T_OP_RET}
    \cup T_OP_FOR_STARTS \cup T_OP_FOR_UPDATES

\* The instructions, other than jumps, with an operand of one byte or of two.
Narrow == {T_OP_PUSH8, T_OP_PUSH_INT8, T_OP_CALL8}
Wide == {T_OP_GET_LOOP_VAR, T_OP_LOCAL_GET, T_OP_LOCAL_SET}

\* The bytes of out at `at2' translate the instruction at `at' of a function with
\* `size' variables, of which it sets none but those.
Translates(block, at, out, at2, size) ==
  LET op == At(block, at)
  IN  /\ op \in Translatable
      /\ At(out, at2) = Translation(op)
      /\ op \in Narrow \cup Wide => At(out, at2 + 1) = At(block, at + 1)
      /\ op \in Wide => At(out, at2 + 2) = At(block, at + 2)
      /\ op = T_OP_LOCAL_SET => read_u16(block, at + 1) < size

Translated(block, out, size) ==
  \A at \in TStarts(block) : at < Len(out) => Translates(block, at, out, at, size)

\* How far an instruction is from the next.
LEMMA Spaced ==
  ASSUME NEW block, WholeBlock(block), NEW at \in TStarts(block)
  PROVE  /\ at \in Nat /\ Len(block) \in Nat
         /\ After("t", block, at) \in Nat
         /\ After("t", block, at) = at + t_instruction_size(At(block, at))
         /\ t_instruction_size(At(block, at)) \in Nat
         /\ After("t", block, at) > at /\ After("t", block, at) <= Len(block)
         /\ At(block, at) \in Narrow => After("t", block, at) = at + 2
         /\ At(block, at) \in Wide => After("t", block, at) = at + 3
         /\ \A other \in TStarts(block) : other <= at \/ other >= After("t", block, at)
<1>1. /\ block \in Seq(Nat) /\ Len(block) \in Nat
      /\ TStarts(block) \subseteq 0..(Len(block) - 1)
      /\ After("t", block, at) \in TStarts(block) \cup {Len(block)}
      /\ \A other \in TStarts(block) : other <= at \/ other >= After("t", block, at)
  BY LenProperties DEF WholeBlock, Whole
<1>2. at \in Nat /\ After("t", block, at) \in Nat /\ After("t", block, at) > at
  BY <1>1, AfterType
<1>3. After("t", block, at) = at + t_instruction_size(At(block, at))
  BY SizeOfT DEF After
<1>4. t_instruction_size(At(block, at)) \in Nat
  BY SizeOfT, SizeInType
<1>5. /\ At(block, at) \in Narrow => t_instruction_size(At(block, at)) = 2
      /\ At(block, at) \in Wide => t_instruction_size(At(block, at)) = 3
  BY DEF t_instruction_size, is_t_jump, Narrow, Wide, T_OP_JUMP, T_OP_JUMP_COND, T_OP_JUMP_NCOND,
         T_OP_FOR_STARTS, T_OP_FOR_UPDATES, T_OP_FOR_DEC_START, T_OP_FOR_INC_START, T_OP_FOR_DEC,
         T_OP_FOR_INC, T_OP_GET_LOOP_VAR, T_OP_LOCAL_GET, T_OP_LOCAL_SET, T_OP_PUSH8,
         T_OP_PUSH_INT8, T_OP_CALL8
<1>6. After("t", block, at) <= Len(block)
  BY <1>1, <1>2
<1>7. QED
  BY <1>1, <1>2, <1>3, <1>4, <1>5, <1>6

\* Two blocks with the same bytes in an instruction.
LEMMA TranslatesSame ==
  ASSUME NEW block, WholeBlock(block), NEW at \in TStarts(block), NEW out, NEW out2, NEW size,
         Translates(block, at, out, at, size),
         \A k \in Nat :
           at <= k /\ k < After("t", block, at)
             /\ (k = at \/ At(block, at) \in Narrow \cup Wide) => At(out2, k) = At(out, k)
  PROVE  Translates(block, at, out2, at, size)
<1>1. /\ at \in Nat /\ After("t", block, at) \in Nat /\ After("t", block, at) > at
      /\ At(block, at) \in Narrow => After("t", block, at) = at + 2
      /\ At(block, at) \in Wide => After("t", block, at) = at + 3
  BY Spaced
<1>2. At(out2, at) = At(out, at)
  BY <1>1
<1>3. At(block, at) \in Narrow \cup Wide => At(out2, at + 1) = At(out, at + 1)
  BY <1>1
<1>4. At(block, at) \in Wide => At(out2, at + 2) = At(out, at + 2)
  BY <1>1
<1>5. QED
  BY <1>2, <1>3, <1>4 DEF Translates

LEMMA TranslatedAppends ==
  ASSUME NEW block, WholeBlock(block), NEW ip \in TStarts(block), NEW out \in Seq(Nat), Len(out) = ip,
         NEW size, Translated(block, out, size), NEW bytes \in Seq(Nat),
         Len(bytes) = t_instruction_size(At(block, ip)), Translates(block, ip, bytes, 0, size),
         NEW out2, out2 = out \o bytes
  PROVE  Translated(block, out2, size)
<1>1. /\ Len(out2) = Len(out) + Len(bytes)
      /\ \A i \in 0..(Len(out) - 1) : At(out2, i) = At(out, i)
      /\ \A i \in 0..(Len(bytes) - 1) : At(out2, Len(out) + i) = At(bytes, i)
  BY AppendAt
<1>2. /\ ip \in Nat /\ Len(bytes) \in Nat
      /\ After("t", block, ip) = ip + Len(bytes) /\ Len(bytes) > 0
      /\ At(block, ip) \in Narrow => Len(bytes) = 2
      /\ At(block, ip) \in Wide => Len(bytes) = 3
  BY Spaced
<1>3. ASSUME NEW at \in TStarts(block), at < Len(out2), at # ip
      PROVE  Translates(block, at, out2, at, size)
  <2>1. /\ at \in Nat /\ After("t", block, at) \in Nat
        /\ ip <= at \/ ip >= After("t", block, at)
    BY Spaced
  <2>2. at <= ip \/ at >= After("t", block, ip)
    BY Spaced
  <2>3. at < ip /\ After("t", block, at) <= ip
    BY <1>1, <1>2, <1>3, <2>1, <2>2
  <2>4. \A k \in Nat : k < After("t", block, at) => At(out2, k) = At(out, k)
    BY <1>1, <1>2, <2>1, <2>3
  <2>5. Translates(block, at, out, at, size)
    BY <2>3 DEF Translated
  <2>6. QED
    BY <2>4, <2>5, TranslatesSame
<1>4. Translates(block, ip, out2, ip, size)
  <2>1. \A i \in Nat : i < Len(bytes) => At(out2, ip + i) = At(bytes, i)
    BY <1>1, <1>2
  <2>2. At(out2, ip) = At(bytes, 0)
    BY <1>2, <2>1
  <2>3. At(block, ip) \in Narrow \cup Wide => At(out2, ip + 1) = At(bytes, 0 + 1)
    BY <1>2, <2>1
  <2>4. At(block, ip) \in Wide => At(out2, ip + 2) = At(bytes, 0 + 2)
    BY <1>2, <2>1
  <2>5. QED
    BY <2>2, <2>3, <2>4 DEF Translates
<1>5. QED
  BY <1>3, <1>4 DEF Translated

LEMMA TranslatedPatched ==
  ASSUME NEW block, WholeBlock(block), NEW out, WholeCode("w", out), NEW size,
         Translated(block, out, size), Len(out) <= Len(block),
         WJumps(out) = {j \in TJumps(block) : j < Len(out)},
         NEW srcs, srcs \subseteq WJumps(out), NEW dest \in Nat,
         \A at \in TStarts(block) : at < Len(out) => After("t", block, at) <= Len(out),
         NEW out2, out2 = PatchAll(out, srcs, dest)
  PROVE  Translated(block, out2, size)
<1>1. srcs \subseteq JumpsIn("w", out)
  BY ThatIsW
<1>2. PatchedBytes(out, out2, srcs, dest)
  BY <1>1, PatchAllAt
<1>3. /\ Len(out2) = Len(out) /\ Len(out) \in Nat
      /\ \A k \in 0..(Len(out) - 1) : ~OperandByte(srcs, k) => At(out2, k) = At(out, k)
  BY <1>2, LenProperties DEF PatchedBytes, WholeCode
<1>4. ASSUME NEW at \in TStarts(block), at < Len(out2)
      PROVE  Translates(block, at, out2, at, size)
  <2>1. /\ at \in Nat /\ After("t", block, at) \in Nat
        /\ \A other \in TStarts(block) : other <= at \/ other >= After("t", block, at)
    BY Spaced
  <2>2. Translates(block, at, out, at, size)
    BY <1>3, <1>4 DEF Translated
  <2>3. After("t", block, at) <= Len(out)
    BY <1>3, <1>4
  <2>4. ASSUME NEW s \in srcs
        PROVE  /\ s \in Nat /\ s \in TStarts(block) /\ is_t_jump(At(block, s))
               /\ at <= s \/ at >= s + 3
               /\ s <= at \/ s >= After("t", block, at)
    <3>1. s \in TJumps(block)
      OBVIOUS
    <3>2. QED
      BY <2>1, <3>1, JumpFits DEF TJumps
  <2>5. At(block, at) \in Narrow \cup Wide => ~is_t_jump(At(block, at))
    BY DEF is_t_jump, Narrow, Wide, T_OP_JUMP, T_OP_JUMP_COND, T_OP_JUMP_NCOND, T_OP_FOR_STARTS,
           T_OP_FOR_UPDATES, T_OP_FOR_DEC_START, T_OP_FOR_INC_START, T_OP_FOR_DEC, T_OP_FOR_INC,
           T_OP_GET_LOOP_VAR, T_OP_LOCAL_GET, T_OP_LOCAL_SET, T_OP_PUSH8, T_OP_PUSH_INT8, T_OP_CALL8
  <2>6. ASSUME NEW k \in Nat, at <= k, k < After("t", block, at),
               k = at \/ At(block, at) \in Narrow \cup Wide
        PROVE  At(out2, k) = At(out, k)
    <3>1. ASSUME NEW s \in srcs PROVE k # s + 1 /\ k # s + 2
      <4>1. CASE k = at
        BY <2>1, <2>4, <4>1
      <4>2. CASE k # at
        <5>1. at # s
          BY <2>4, <2>5, <2>6, <4>2
        <5>2. QED
          BY <2>1, <2>4, <2>6, <5>1
      <4>3. QED
        BY <4>1, <4>2
    <3>2. ~OperandByte(srcs, k)
      BY <3>1 DEF OperandByte
    <3>3. QED
      BY <1>3, <2>1, <2>3, <2>6, <3>2
  <2>7. QED
    BY <2>2, <2>6, TranslatesSame
<1>5. QED
  BY <1>4 DEF Translated

-----------------------------------------------------------------------------
(* The height of the type stack at each instruction.                       *)

\* The values an instruction takes from the stack, and those it leaves there, where the
\* functions have the signatures s.
Taken(block, at, s) ==
  LET op == At(block, at)
  IN  CASE op \in {T_OP_POP, T_OP_DUPE, T_OP_EXIT, T_OP_JUMP_COND, T_OP_JUMP_NCOND,
                   T_OP_LOCAL_SET} \cup T_OP_FOR_STARTS -> 1
        [] op = T_OP_CALL8 -> Len(s[At(block, at + 1) + 1].params)
        [] OTHER -> 0

Left(block, at, s) ==
  LET op == At(block, at)
  IN  CASE op \in {T_OP_PUSH8, T_OP_PUSH_INT8, T_OP_GET_LOOP_VAR, T_OP_LOCAL_GET} -> 1
        [] op = T_OP_DUPE -> 2
        [] op = T_OP_CALL8 -> Len(s[At(block, at + 1) + 1].rets)
        [] OTHER -> 0

\* The instructions from which control does not go on to the next.
Final == {T_OP_JUMP, T_OP_EXIT, T_OP_RET}

\* The instruction at `at' of function f - 1 has what it takes, where H[x] values are
\* on the stack at the instruction at x.  Of the instructions, those before `len' are
\* translated; the checker has n values on the stack and is at ip.
MeasuredAt(block, len, ip, n, s, f, H, at) ==
  LET op == At(block, at)
      next == After("t", block, at)
      left == H[at] - Taken(block, at, s) + Left(block, at, s)
  IN  /\ Taken(block, at, s) <= H[at]
      /\ op = T_OP_RET => H[at] = Len(s[f].rets)
      /\ is_t_jump(op) => H[JumpDest(block, at)] = H[at] - Taken(block, at, s)
      /\ op \notin Final => /\ next < len => H[next] = left
                            /\ next >= len => next = ip /\ n = left

\* All that is translated has; the stacks that are saved are as high as those that come
\* to their destinations, and none is missing where the checker has been.
Measured(block, dests, pending, len, ip, n, stacks, s, f, H) ==
  /\ H \in [Nat -> Nat]
  /\ H[0] = Len(s[f].params)
  /\ len = 0 => ip = 0 /\ n = H[0]
  /\ \A at \in TStarts(block) : at < len => MeasuredAt(block, len, ip, n, s, f, H, at)
  /\ \A d \in dests : stacks[d] # NotSaved => Len(stacks[d]) = H[d]
  /\ \A d \in dests \ pending : stacks[d] # NotSaved

\* No jump to ip has been translated if no stack is saved there.
LEMMA NoneComes ==
  ASSUME NEW block, NEW dests, Flows(block, dests), NEW pending, NEW out, NEW ip, NEW wdests, NEW srcs,
         NEW targets, NEW stacks, NEW x, x \in dests => x \in pending /\ stacks[x] = NotSaved,
         Waiting(out, pending, stacks, srcs),
         Mirror(block, dests, pending, out, ip, wdests, srcs, targets),
         NEW j \in TJumps(block), j < Len(out)
  PROVE  JumpDest(block, j) # x
<1>1. JumpDest(block, j) \in dests
  BY FlowFacts
<1>2. j \in WJumps(out)
  BY DEF Mirror
<1>3. ASSUME JumpDest(block, j) = x PROVE FALSE
  <2>1. x \in pending /\ stacks[x] = NotSaved
    BY <1>1, <1>3
  <2>2. srcs[x] = {}
    BY <2>1 DEF Waiting
  <2>3. j \in srcs[x]
    BY <1>2, <1>3, <2>1 DEF Mirror
  <2>4. QED
    BY <2>2, <2>3
<1>4. QED
  BY <1>3

\* At an instruction, the stack is as high as all that come there take it to be.
LEMMA Settles ==
  ASSUME NEW block, NEW dests, Flows(block, dests), NEW pending, NEW out, NEW ip \in TStarts(block),
         NEW wdests, NEW srcs, NEW targets, NEW n \in Nat, NEW stacks, NEW s, NEW f, NEW H,
         Waiting(out, pending, stacks, srcs),
         Mirror(block, dests, pending, out, ip, wdests, srcs, targets),
         Measured(block, dests, pending, Len(out), ip, n, stacks, s, f, H),
         ip \in dests /\ stacks[ip] # NotSaved => Len(stacks[ip]) = n
  PROVE  \E H2 : Measured(block, dests, pending, Len(out), ip, n, stacks, s, f, H2) /\ H2[ip] = n
<1>1. Len(out) = ip /\ ip \in Nat
  BY MirrorAt
<1>2. CASE ip \in dests /\ stacks[ip] # NotSaved
  BY <1>2 DEF Measured
<1>3. CASE ~(ip \in dests /\ stacks[ip] # NotSaved)
  <2>1. PICK H2 : H2 = [H EXCEPT ![ip] = n]
    OBVIOUS
  <2>2. H \in [Nat -> Nat]
    BY DEF Measured
  <2>3. H2 \in [Nat -> Nat] /\ H2[ip] = n /\ \A x \in Nat : x # ip => H2[x] = H[x]
    BY <1>1, <2>1, <2>2
  <2>4. H2[0] = H[0]
    BY <1>1, <2>3 DEF Measured
  <2>5. ip \in dests => ip \in pending /\ stacks[ip] = NotSaved
    BY <1>3 DEF Measured
  <2>6. ASSUME NEW at \in TStarts(block), at < Len(out)
        PROVE  MeasuredAt(block, Len(out), ip, n, s, f, H2, at)
    <3>1. MeasuredAt(block, Len(out), ip, n, s, f, H, at)
      BY <2>6 DEF Measured
    <3>2. at \in Nat /\ After("t", block, at) \in Nat
      BY Spaced DEF Flows
    <3>3. H2[at] = H[at]
      BY <1>1, <2>3, <2>6, <3>2
    <3>4. is_t_jump(At(block, at)) => H2[JumpDest(block, at)] = H[JumpDest(block, at)]
      <4>1. ASSUME is_t_jump(At(block, at)) PROVE H2[JumpDest(block, at)] = H[JumpDest(block, at)]
        <5>1. at \in TJumps(block)
          BY <4>1 DEF TJumps
        <5>2. JumpDest(block, at) # ip
          BY <2>5, <2>6, <5>1, NoneComes
        <5>3. JumpDest(block, at) \in Nat
          BY <5>1, FlowFacts
        <5>4. QED
          BY <2>3, <5>2, <5>3
      <4>2. QED
        BY <4>1
    <3>5. After("t", block, at) < Len(out) => H2[After("t", block, at)] = H[After("t", block, at)]
      <4>1. \A x \in Nat : x < Len(out) => H2[x] = H[x]
        BY <1>1, <2>3
      <4>2. QED
        BY <3>2, <4>1, Zenon
    <3>6. QED
      BY <3>1, <3>3, <3>4, <3>5, Zenon DEF MeasuredAt
  <2>7. ASSUME NEW d \in dests, stacks[d] # NotSaved PROVE Len(stacks[d]) = H2[d]
    <3>1. d # ip
      BY <1>3, <2>7
    <3>2. d \in Nat
      BY DEF Flows, WholeBlock, Whole
    <3>3. Len(stacks[d]) = H[d]
      BY <2>7 DEF Measured
    <3>4. QED
      BY <2>3, <3>1, <3>2, <3>3
  <2>8. Measured(block, dests, pending, Len(out), ip, n, stacks, s, f, H2)
    BY <2>3, <2>4, <2>6, <2>7 DEF Measured
  <2>9. QED
    BY <2>3, <2>8
<1>4. QED
  BY <1>2, <1>3

\* The instruction at ip, with n values on the stack, leaves n2 there and goes on at ip2.
Passes(block, ip, n, ip2, n2, s, f) ==
  /\ Taken(block, ip, s) <= n
  /\ At(block, ip) = T_OP_RET => n = Len(s[f].rets)
  /\ At(block, ip) \notin Final =>
       ip2 = After("t", block, ip) /\ n2 = n - Taken(block, ip, s) + Left(block, ip, s)

LEMMA MeasuredNext ==
  ASSUME NEW block, WholeBlock(block), NEW dests, NEW pending, NEW ip \in TStarts(block), NEW n,
         NEW stacks, NEW s, NEW f, NEW H,
         Measured(block, dests, pending, ip, ip, n, stacks, s, f, H), H[ip] = n,
         NEW ip2, NEW n2, Passes(block, ip, n, ip2, n2, s, f),
         is_t_jump(At(block, ip)) => H[JumpDest(block, ip)] = n - Taken(block, ip, s),
         NEW pending2, dests \ pending2 \subseteq dests \ pending
  PROVE  Measured(block, dests, pending2, After("t", block, ip), ip2, n2, stacks, s, f, H)
<1> DEFINE len2 == After("t", block, ip)
<1>1. ip \in Nat /\ len2 \in Nat /\ len2 > ip
  BY Spaced
<1>2. ASSUME NEW at \in TStarts(block), at < len2, at # ip
      PROVE  MeasuredAt(block, len2, ip2, n2, s, f, H, at)
  <2>1. /\ at \in Nat /\ After("t", block, at) \in Nat
        /\ ip <= at \/ ip >= After("t", block, at)
        /\ at <= ip \/ at >= len2
    BY Spaced
  <2>2. at < ip /\ After("t", block, at) <= ip /\ After("t", block, at) < len2
    BY <1>1, <1>2, <2>1
  <2>3. MeasuredAt(block, ip, ip, n, s, f, H, at)
    BY <2>2 DEF Measured
  <2>4. After("t", block, at) >= ip => After("t", block, at) = ip
    BY <1>1, <2>1, <2>2
  <2> HIDE DEF len2
  <2>5. At(block, at) \notin Final =>
          H[After("t", block, at)] = H[at] - Taken(block, at, s) + Left(block, at, s)
    <3>1. CASE After("t", block, at) < ip
      BY <2>3, <3>1 DEF MeasuredAt
    <3>2. CASE After("t", block, at) >= ip
      <4>1. After("t", block, at) = ip
        BY <2>4, <3>2
      <4>2. At(block, at) \notin Final => n = H[at] - Taken(block, at, s) + Left(block, at, s)
        BY <2>3, <3>2 DEF MeasuredAt
      <4>3. QED
        BY <4>1, <4>2
    <3>3. QED
      BY <1>1, <2>1, <3>1, <3>2
  <2>6. ~(After("t", block, at) >= len2)
    BY <1>1, <2>1, <2>2
  <2>7. QED
    BY <2>3, <2>5, <2>6, Zenon DEF MeasuredAt
<1>3. MeasuredAt(block, len2, ip2, n2, s, f, H, ip)
  <2>1. ~(len2 < len2)
    BY <1>1
  <2>2. QED
    BY <2>1 DEF MeasuredAt, Passes
<1>4. len2 # 0
  BY <1>1
<1> HIDE DEF len2
<1>5. Measured(block, dests, pending2, len2, ip2, n2, stacks, s, f, H)
  BY <1>2, <1>3, <1>4 DEF Measured
<1>6. QED
  BY <1>5 DEF len2

\* A jump saves the stack at its destination.
LEMMA MeasuredJump ==
  ASSUME NEW block, NEW dests, Flows(block, dests), NEW out, NEW ip \in TJumps(block),
         NEW wdests, NEW srcs, NEW targets, NEW n, NEW stacks \in [dests -> Stacks \cup {NotSaved}],
         NEW s, NEW f, NEW H,
         Waiting(out, Ahead(dests, ip), stacks, srcs),
         Mirror(block, dests, Ahead(dests, ip), out, ip, wdests, srcs, targets),
         Measured(block, dests, Ahead(dests, ip), ip, ip, n, stacks, s, f, H), H[ip] = n,
         NEW stack \in Stacks, Len(stack) = n - Taken(block, ip, s),
         stacks[JumpDest(block, ip)] # NotSaved => stacks[JumpDest(block, ip)] = stack
  PROVE  \E H2 : /\ Measured(block, dests, Ahead(dests, ip), ip, ip, n,
                             JumpSaves(stacks, JumpDest(block, ip), stack), s, f, H2)
                 /\ H2[ip] = n
                 /\ H2[JumpDest(block, ip)] = n - Taken(block, ip, s)
<1>1. PICK d : d = JumpDest(block, ip)
  OBVIOUS
<1>2. d \in dests /\ d \in Nat /\ ip \in Nat /\ (d <= ip \/ d >= ip + 3)
  BY <1>1, FlowFacts
<1>3. ip \in TStarts(block) /\ Len(out) = ip
  BY MirrorAt DEF TJumps
<1>4. CASE stacks[d] # NotSaved
  <2>1. JumpSaves(stacks, d, stack) = stacks
    BY <1>4 DEF JumpSaves
  <2>2. H[d] = n - Taken(block, ip, s)
    BY <1>1, <1>2, <1>4 DEF Measured
  <2>3. QED
    BY <1>1, <2>1, <2>2
<1>5. CASE stacks[d] = NotSaved
  <2>1. PICK H2 : H2 = [H EXCEPT ![d] = Len(stack)]
    OBVIOUS
  <2>2. PICK stacks2 : stacks2 = [stacks EXCEPT ![d] = stack]
    OBVIOUS
  <2>3. /\ H \in [Nat -> Nat] /\ Len(stack) \in Nat
        /\ d \in Ahead(dests, ip)
    BY <1>2, <1>5, LenProperties DEF Measured, Stacks
  <2>4. d > ip
    BY <2>3 DEF Ahead
  <2>5. H2 \in [Nat -> Nat] /\ H2[d] = Len(stack) /\ \A x \in Nat : x # d => H2[x] = H[x]
    BY <1>2, <2>1, <2>3
  <2>6. stacks2[d] = stack /\ \A x \in dests : x # d => stacks2[x] = stacks[x]
    BY <1>2, <2>2
  <2>7. ASSUME NEW at \in TStarts(block), at < ip
        PROVE  MeasuredAt(block, ip, ip, n, s, f, H2, at)
    <3>1. MeasuredAt(block, ip, ip, n, s, f, H, at)
      BY <2>7 DEF Measured
    <3>2. at \in Nat /\ After("t", block, at) \in Nat
      BY Spaced DEF Flows
    <3>3. H2[at] = H[at]
      BY <1>2, <2>4, <2>5, <2>7, <3>2
    <3>4. is_t_jump(At(block, at)) => H2[JumpDest(block, at)] = H[JumpDest(block, at)]
      <4>1. ASSUME is_t_jump(At(block, at)) PROVE H2[JumpDest(block, at)] = H[JumpDest(block, at)]
        <5>1. at \in TJumps(block)
          BY <4>1 DEF TJumps
        <5>2. JumpDest(block, at) # d
          BY <1>3, <1>5, <2>3, <2>7, <5>1, NoneComes
        <5>3. JumpDest(block, at) \in Nat
          BY <5>1, FlowFacts
        <5>4. QED
          BY <2>5, <5>2, <5>3
      <4>2. QED
        BY <4>1
    <3>5. After("t", block, at) < ip => H2[After("t", block, at)] = H[After("t", block, at)]
      <4>1. \A x \in Nat : x < ip => H2[x] = H[x]
        BY <1>2, <2>4, <2>5
      <4>2. QED
        BY <3>2, <4>1, Zenon
    <3>6. QED
      BY <3>1, <3>3, <3>4, <3>5, Zenon DEF MeasuredAt
  <2>8. ASSUME NEW x \in dests, stacks2[x] # NotSaved PROVE Len(stacks2[x]) = H2[x]
    <3>1. x \in Nat
      BY DEF Flows, WholeBlock, Whole
    <3>2. CASE x = d
      BY <2>5, <2>6, <3>2
    <3>3. CASE x # d
      <4>1. Len(stacks[x]) = H[x]
        BY <2>6, <2>8, <3>3 DEF Measured
      <4>2. QED
        BY <2>5, <2>6, <3>1, <3>3, <4>1
    <3>4. QED
      BY <3>2, <3>3
  <2>9. ASSUME NEW x \in dests \ Ahead(dests, ip) PROVE stacks2[x] # NotSaved
    <3>1. x # d
      BY <2>3
    <3>2. QED
      BY <2>6, <3>1 DEF Measured
  <2>10. H2[0] = H[0] /\ H2[ip] = n
    BY <1>2, <2>4, <2>5, SMTT(40)
  <2>11. Measured(block, dests, Ahead(dests, ip), ip, ip, n, stacks2, s, f, H2)
    <3>1. /\ H[0] = Len(s[f].params)
          /\ ip = 0 => n = H[0]
      BY DEF Measured
    <3>2. QED
      BY <2>5, <2>7, <2>8, <2>9, <2>10, <3>1 DEF Measured
  <2>12. JumpSaves(stacks, d, stack) = stacks2
    BY <1>5, <2>2 DEF JumpSaves
  <2>13. QED
    BY <1>1, <2>5, <2>10, <2>11, <2>12
<1>6. QED
  BY <1>4, <1>5


-----------------------------------------------------------------------------
(* The invariant of the heights.                                           *)

ValueStacks == Seq({IntType, WordType})

\* What else the compiler promises: every function ends with a RET, no variable is read
\* that is not in the table, and nothing has the type of an error.
ModuleComplete ==
  \A f \in 1..Len(t_code) :
    /\ sigs[f].params \in ValueStacks /\ sigs[f].rets \in ValueStacks
    /\ locals[f] \in ValueStacks
    /\ Len(t_code[f]) - 1 \in TStarts(t_code[f])
    /\ At(t_code[f], Len(t_code[f]) - 1) = T_OP_RET
    /\ \A at \in TStarts(t_code[f]) :
         At(t_code[f], at) = T_OP_LOCAL_GET => read_u16(t_code[f], at + 1) < Len(locals[f])

\* The instruction at `at' has what it takes, and what follows agrees with what it leaves.
SoundAt(block, len, s, f, H, at) ==
  LET op == At(block, at)
      next == After("t", block, at)
  IN  /\ Taken(block, at, s) <= H[at]
      /\ op = T_OP_RET => H[at] = Len(s[f].rets)
      /\ is_t_jump(op) => H[JumpDest(block, at)] = H[at] - Taken(block, at, s)
      /\ op \notin Final =>
           next < len /\ H[next] = H[at] - Taken(block, at, s) + Left(block, at, s)

\* The W-code `out' of function f - 1 is a translation, and the main stack has one height
\* at each of its instructions, whichever way control gets there.
Sound(block, out, size, s, f) ==
  /\ Len(out) > 0
  /\ Translated(block, out, size)
  /\ \E H : /\ H \in [Nat -> Nat]
            /\ H[0] = Len(s[f].params)
            /\ \A at \in TStarts(block) : at < Len(out) => SoundAt(block, Len(out), s, f, H, at)

AllSound(n) == \A f \in 1..n : Sound(t_code[f], w_code[f], Len(locals[f]), sigs, f)

\* The function the checker is in, as long as there was no error.
HeightsHere ==
  /\ tstack \in ValueStacks
  /\ \A d \in Jumps : saved[d] # NotSaved => saved[d] \in ValueStacks
  /\ arrived => saved[t_ip] = tstack
  /\ Translated(In, Out, Len(locals[current + 1]))
  /\ \E H : Measured(In, Jumps, Pending, Len(Out), t_ip, Len(tstack), saved, sigs, current + 1, H)

HeightsInv ==
  /\ check_status = "checking" /\ ~had_error => HeightsHere /\ AllSound(current)
  /\ check_status = "ok" => AllSound(Len(t_code))

\* A step within a function keeps what is true of those before.
HeightsWithin(out2) ==
  /\ UNCHANGED <<t_code, t_jumps, sigs, locals, check_status, current>>
  /\ w_code' = [w_code EXCEPT ![current + 1] = out2]
  /\ tstack' \in ValueStacks
  /\ \A d \in Jumps : saved'[d] # NotSaved => saved'[d] \in ValueStacks
  /\ arrived' => saved'[t_ip'] = tstack'
  /\ Translated(In, out2, Len(locals[current + 1]))
  /\ \E H : Measured(In, Jumps, Pending', Len(out2), t_ip', Len(tstack'), saved', sigs, current + 1, H)

LEMMA HeightsWithinKeeps ==
  ASSUME ModuleOK, CheckInv, HeightsInv, check_status = "checking", ~had_error,
         NEW out2, HeightsWithin(out2)
  PROVE  HeightsInv'
<1> DEFINE cur == current + 1
<1>1. /\ current \in Nat /\ current < Len(t_code) /\ Len(t_code) \in Nat /\ cur \in 1..Len(t_code)
      /\ w_code \in [1..Len(t_code) -> Seq(Nat)]
      /\ AllSound(current)
  BY TheFunction DEF CheckInv, HeightsInv
<1>2. /\ t_code' = t_code /\ t_jumps' = t_jumps /\ sigs' = sigs /\ locals' = locals
      /\ check_status' = check_status /\ current' = current
      /\ w_code' = [w_code EXCEPT ![cur] = out2]
  BY DEF HeightsWithin
<1>3. w_code'[cur] = out2 /\ \A f \in 1..Len(t_code) : f # cur => w_code'[f] = w_code[f]
  BY <1>1, <1>2
<1>4. In' = In /\ Jumps' = Jumps /\ Out' = out2
  BY <1>2, <1>3 DEF In, Jumps, Out
<1>5. HeightsHere'
  <2>1. \A d \in Jumps : saved'[d] # NotSaved' => saved'[d] \in ValueStacks'
    BY DEF HeightsWithin, NotSaved, ValueStacks, IntType, WordType
  <2>2. tstack' \in ValueStacks' /\ (arrived' => saved'[t_ip'] = tstack')
    BY DEF HeightsWithin, ValueStacks, IntType, WordType
  <2>3. Translated(In', Out', Len(locals'[current' + 1]))
    BY <1>2, <1>4 DEF HeightsWithin
  <2>4. \E H : Measured(In', Jumps', Pending', Len(Out'), t_ip', Len(tstack'), saved', sigs',
                        current' + 1, H)
    BY <1>2, <1>4 DEF HeightsWithin
  <2>5. QED
    BY <1>4, <2>1, <2>2, <2>3, <2>4 DEF HeightsHere
<1>6. AllSound(current)'
  <2>1. \A f \in 1..current : f \in 1..Len(t_code) /\ f # cur
    BY <1>1
  <2>2. QED
    BY <1>1, <1>2, <1>3, <2>1 DEF AllSound
<1>7. QED
  BY <1>2, <1>5, <1>6 DEF HeightsInv

\* What the invariant says at an instruction.
AtHeight(H) ==
  /\ Measured(In, Jumps, Ahead(Jumps, t_ip), t_ip, t_ip, Len(tstack), saved, sigs, current + 1, H)
  /\ H[t_ip] = Len(tstack)

LEMMA AtInstruction ==
  ASSUME ModuleOK, CheckInv, HeightsInv, ~had_error, NEW ops, Fetch(ops)
  PROVE  /\ check_status = "checking" /\ current + 1 \in 1..Len(t_code)
         /\ Flows(In, Jumps) /\ WholeBlock(In) /\ WholeCode("w", Out) /\ Out \in Seq(Nat)
         /\ t_ip \in TStarts(In) /\ t_ip \in Nat /\ Opcode \in ops /\ Opcode = At(In, t_ip)
         /\ Progress(In, Jumps, Ahead(Jumps, t_ip), Out, t_ip, saved, wir_dests, wir_srcs)
         /\ Mirror(In, Jumps, Ahead(Jumps, t_ip), Out, t_ip, wir_dests, wir_srcs,
                   w_jumps[current + 1])
         /\ Len(Out) = t_ip
         /\ tstack \in ValueStacks /\ Len(tstack) \in Nat
         /\ \A d \in Jumps : saved[d] # NotSaved => saved[d] \in ValueStacks
         /\ Translated(In, Out, Len(locals[current + 1]))
         /\ \E H : AtHeight(H)
<1>1. /\ check_status = "checking"
      /\ t_ip \in TStarts(In) /\ Opcode \in ops /\ Opcode = At(In, t_ip)
      /\ Progress(In, Jumps, Ahead(Jumps, t_ip), Out, t_ip, saved, wir_dests, wir_srcs)
      /\ Mirror(In, Jumps, Ahead(Jumps, t_ip), Out, t_ip, wir_dests, wir_srcs,
                w_jumps[current + 1])
  BY Fetched
<1>2. /\ current + 1 \in 1..Len(t_code) /\ Flows(In, Jumps) /\ t_ip \in Nat
      /\ WholeCode("w", Out) /\ Out \in Seq(Nat) /\ Jumps \subseteq Nat
  BY <1>1, TheFunction
<1>3. WholeBlock(In)
  BY <1>2 DEF Flows
<1>4. HeightsHere
  BY <1>1 DEF HeightsInv
<1>5. tstack \in ValueStacks /\ Len(tstack) \in Nat
  BY <1>4, LenProperties DEF HeightsHere, ValueStacks
<1>6. Len(Out) = t_ip
  BY <1>1, <1>2, MirrorAt
<1>7. t_ip \in Jumps => arrived
  BY DEF Fetch
<1>8. Pending = Ahead(Jumps, t_ip)
  <2>1. CASE arrived
    BY <2>1 DEF Pending
  <2>2. CASE ~arrived
    <3>1. Ahead(Jumps, t_ip) = From(Jumps, t_ip) \ {t_ip}
      BY <1>2, AheadFrom
    <3>2. t_ip \notin From(Jumps, t_ip)
      BY <1>7, <2>2 DEF From
    <3>3. QED
      BY <2>2, <3>1, <3>2 DEF Pending
  <2>3. QED
    BY <2>1, <2>2
<1>9. \E H : AtHeight(H)
  <2>1. PICK H : Measured(In, Jumps, Pending, Len(Out), t_ip, Len(tstack), saved, sigs, current + 1, H)
    BY <1>4 DEF HeightsHere
  <2>2. Measured(In, Jumps, Ahead(Jumps, t_ip), Len(Out), t_ip, Len(tstack), saved, sigs, current + 1, H)
    BY <1>8, <2>1
  <2>3. Waiting(Out, Ahead(Jumps, t_ip), saved, wir_srcs)
    BY <1>1 DEF Progress
  <2>4. t_ip \in Jumps /\ saved[t_ip] # NotSaved => Len(saved[t_ip]) = Len(tstack)
    BY <1>4, <1>7 DEF HeightsHere
  <2>5. \E H2 : /\ Measured(In, Jumps, Ahead(Jumps, t_ip), Len(Out), t_ip, Len(tstack), saved, sigs,
                            current + 1, H2)
                /\ H2[t_ip] = Len(tstack)
    BY <1>1, <1>2, <1>5, <2>2, <2>3, <2>4, Settles
  <2>6. QED
    BY <1>6, <2>5 DEF AtHeight
<1>10. QED
  BY <1>1, <1>2, <1>3, <1>4, <1>5, <1>6, <1>9 DEF HeightsHere

\* Without an error, the destinations that have been dealt with are those of the W-code's
\* jump table.
LEMMA PendingStays ==
  ASSUME ModuleOK, CheckInv, CheckInv', HeightsInv, ~had_error, ~had_error', NEW ops, Fetch(ops),
         UNCHANGED <<t_code, t_jumps, check_status, current, w_jumps>>
  PROVE  Jumps \ Pending' \subseteq Jumps \ Ahead(Jumps, t_ip)
<1>1. w_jumps[current + 1] = Jumps \ Ahead(Jumps, t_ip)
  BY AtInstruction DEF Mirror
<1>2. check_status' = "checking"
  BY AtInstruction
<1>3. In' = In /\ Jumps' = Jumps /\ current' = current /\ w_jumps' = w_jumps
  BY DEF In, Jumps
<1>4. w_jumps'[current' + 1] = Jumps' \ Pending'
  BY <1>2 DEF CheckInv, InFunction, Mirror
<1>5. QED
  BY <1>1, <1>3, <1>4

\* An instruction that is no jump is translated.
LEMMA HeightsPlain ==
  ASSUME ModuleOK, CheckInv, CheckInv', HeightsInv, ~had_error, ~had_error', NEW ops, Fetch(ops),
         ~is_t_jump(Opcode), NEW bytes \in Seq(Nat), Len(bytes) = t_instruction_size(Opcode),
         Emit(bytes), Plain, Translates(In, t_ip, bytes, 0, Len(locals[current + 1])),
         Passes(In, t_ip, Len(tstack), t_ip', Len(tstack'), sigs, current + 1),
         tstack' \in ValueStacks, arrived' = FALSE
  PROVE  HeightsInv'
<1> DEFINE out2 == Out \o bytes
<1>1. /\ check_status = "checking" /\ WholeBlock(In) /\ t_ip \in TStarts(In) /\ Opcode = At(In, t_ip)
      /\ Out \in Seq(Nat) /\ Len(Out) = t_ip
      /\ Translated(In, Out, Len(locals[current + 1]))
      /\ \A d \in Jumps : saved[d] # NotSaved => saved[d] \in ValueStacks
  BY AtInstruction
<1>2. PICK H : AtHeight(H)
  BY AtInstruction
<1>3. /\ UNCHANGED <<t_code, t_jumps, sigs, locals, check_status, current, w_jumps>>
      /\ saved' = saved
      /\ w_code' = [w_code EXCEPT ![current + 1] = out2]
  BY DEF Emit, Plain, Out, input
<1>4. Jumps \ Pending' \subseteq Jumps \ Ahead(Jumps, t_ip)
  BY <1>3, PendingStays
<1>5. Len(out2) = After("t", In, t_ip)
  <2>1. Len(out2) = Len(Out) + Len(bytes)
    BY <1>1, AppendAt
  <2>2. QED
    BY <1>1, <2>1, Spaced
<1>6. Translated(In, out2, Len(locals[current + 1]))
  BY <1>1, TranslatedAppends
<1> HIDE DEF out2
<1>7. Measured(In, Jumps, Pending', After("t", In, t_ip), t_ip', Len(tstack'), saved, sigs, current + 1, H)
  <2>1. ~is_t_jump(At(In, t_ip))
    BY <1>1
  <2>2. QED
    BY <1>1, <1>2, <1>4, <2>1, MeasuredNext DEF AtHeight
<1>8. HeightsWithin(out2)
  BY <1>1, <1>3, <1>5, <1>6, <1>7 DEF HeightsWithin
<1>9. QED
  BY <1>1, <1>8, HeightsWithinKeeps

\* Jumps and what they are translated to.
LEMMA JumpTranslates ==
  ASSUME is_t_jump(Opcode), Opcode = At(In, t_ip), NEW bytes, NEW size,
         At(bytes, 0) = Translation(Opcode)
  PROVE  Translates(In, t_ip, bytes, 0, size)
<1>1. Opcode \in Translatable
  BY DEF is_t_jump, Translatable
<1>2. Opcode \notin Narrow \cup Wide /\ Opcode # T_OP_LOCAL_SET
  BY JumpOps DEF Narrow, Wide, T_OP_PUSH8, T_OP_PUSH_INT8, T_OP_CALL8, T_OP_GET_LOOP_VAR,
     T_OP_LOCAL_GET, T_OP_LOCAL_SET
<1>3. QED
  BY <1>1, <1>2 DEF Translates

LEMMA CopiedBytes ==
  ASSUME NEW op \in Nat, NEW v \in Int, NEW bytes, bytes = <<op>> \o U16(v)
  PROVE  bytes \in Seq(Nat) /\ Len(bytes) = 3 /\ At(bytes, 0) = op
<1>1. U16(v) \in Seq(Nat) /\ Len(U16(v)) = 2
  BY U16Bytes
<1> DEFINE first == <<op>>
           rest  == U16(v)
<1>2. first \in Seq(Nat) /\ Len(first) = 1 /\ first[1] = op
  OBVIOUS
<1>3. rest \in Seq(Nat) /\ Len(rest) = 2 /\ bytes = first \o rest
  BY <1>1
<1> HIDE DEF first, rest
<1>4. /\ first \o rest \in Seq(Nat) /\ Len(first \o rest) = Len(first) + Len(rest)
      /\ \A i \in 0..(Len(first) - 1) : At(first \o rest, i) = At(first, i)
  BY <1>2, <1>3, AppendAt
<1>5. At(first, 0) = op /\ 0 \in 0..(Len(first) - 1)
  BY <1>2 DEF At
<1>6. At(first \o rest, 0) = op
  BY <1>4, <1>5
<1>7. Len(first \o rest) = 3
  BY <1>2, <1>3, <1>4
<1>8. QED
  BY <1>3, <1>4, <1>6, <1>7, Zenon

\* A jump is translated, and the stack saved where it goes.
LEMMA HeightsJump ==
  ASSUME ModuleOK, CheckInv, CheckInv', HeightsInv, ~had_error, ~had_error', NEW ops, Fetch(ops),
         is_t_jump(Opcode), NEW op \in Nat, is_w_jump(op), op = Translation(Opcode),
         NEW dest, dest = JumpDest(In, t_ip), NEW stack \in ValueStacks, SaveJump(dest, stack),
         Len(stack) = Len(tstack) - Taken(In, t_ip, sigs), ~Inconsistent(dest, stack),
         Emit(CopiedJump(op, dest)), UNCHANGED <<input, check_status, current, wir_dests, w_jumps>>,
         Passes(In, t_ip, Len(tstack), t_ip', Len(tstack'), sigs, current + 1),
         tstack' \in ValueStacks, arrived' = FALSE
  PROVE  HeightsInv'
<1> DEFINE bytes == CopiedJump(op, dest)
           out2 == Out \o bytes
<1>1. /\ check_status = "checking" /\ Flows(In, Jumps) /\ WholeBlock(In)
      /\ t_ip \in TStarts(In) /\ Opcode = At(In, t_ip)
      /\ Out \in Seq(Nat) /\ Len(Out) = t_ip
      /\ Progress(In, Jumps, Ahead(Jumps, t_ip), Out, t_ip, saved, wir_dests, wir_srcs)
      /\ Mirror(In, Jumps, Ahead(Jumps, t_ip), Out, t_ip, wir_dests, wir_srcs,
                w_jumps[current + 1])
      /\ Translated(In, Out, Len(locals[current + 1]))
      /\ \A d \in Jumps : saved[d] # NotSaved => saved[d] \in ValueStacks
  BY AtInstruction
<1>2. PICK H : AtHeight(H)
  BY AtInstruction
<1>3. /\ UNCHANGED <<t_code, t_jumps, sigs, locals, check_status, current, w_jumps>>
      /\ w_code' = [w_code EXCEPT ![current + 1] = out2]
      /\ saved' = JumpSaves(saved, dest, stack)
  BY DEF Emit, Out, input, SaveJump, JumpSaves, IsSaved
<1>4. Jumps \ Pending' \subseteq Jumps \ Ahead(Jumps, t_ip)
  BY <1>3, PendingStays
<1>5. t_ip \in TJumps(In) /\ dest \in Jumps
  BY <1>1, FlowFacts DEF TJumps
<1>6. bytes \in Seq(Nat) /\ Len(bytes) = 3 /\ At(bytes, 0) = op
  <2>1. CopiedOperand(In, t_ip, Out, wir_dests) \in Int
    BY <1>1, <1>5, OperandFits
  <2>2. bytes = <<op>> \o U16(CopiedOperand(In, t_ip, Out, wir_dests))
    BY Zenon DEF CopiedJump, CopiedOperand
  <2> HIDE DEF bytes
  <2>3. QED
    BY <2>1, <2>2, CopiedBytes
<1> HIDE DEF bytes
<1>7. t_instruction_size(Opcode) = 3
  BY JumpSize
<1>8. Len(out2) = After("t", In, t_ip)
  <2>1. Len(out2) = Len(Out) + Len(bytes)
    BY <1>1, <1>6, AppendAt
  <2>2. QED
    BY <1>1, <1>6, <1>7, <2>1, Spaced
<1>9. Translated(In, out2, Len(locals[current + 1]))
  <2>1. Translates(In, t_ip, bytes, 0, Len(locals[current + 1]))
    BY <1>1, <1>6, JumpTranslates
  <2>2. QED
    BY <1>1, <1>6, <1>7, <2>1, TranslatedAppends
<1> HIDE DEF out2
<1>10. PICK H2 : /\ Measured(In, Jumps, Ahead(Jumps, t_ip), t_ip, t_ip, Len(tstack), saved', sigs,
                             current + 1, H2)
                 /\ H2[t_ip] = Len(tstack)
                 /\ H2[dest] = Len(tstack) - Taken(In, t_ip, sigs)
  <2>1. saved[JumpDest(In, t_ip)] # NotSaved => saved[JumpDest(In, t_ip)] = stack
    BY DEF Inconsistent, IsSaved
  <2>2. /\ Waiting(Out, Ahead(Jumps, t_ip), saved, wir_srcs)
        /\ saved \in [Jumps -> Stacks \cup {NotSaved}]
    BY <1>1 DEF Progress, Tables
  <2>3. stack \in Stacks
    BY DEF Stacks, ValueStacks, Types, IntType, WordType, ErrorType
  <2>4. QED
    BY <1>1, <1>2, <1>3, <1>5, <2>1, <2>2, <2>3, MeasuredJump DEF AtHeight
<1>11. Measured(In, Jumps, Pending', After("t", In, t_ip), t_ip', Len(tstack'), saved', sigs,
                current + 1, H2)
  BY <1>1, <1>4, <1>10, MeasuredNext
<1>12. \A d \in Jumps : saved'[d] # NotSaved => saved'[d] \in ValueStacks
  <2>1. saved \in [Jumps -> Stacks \cup {NotSaved}]
    BY <1>1 DEF Progress, Tables
  <2>2. CASE saved[dest] # NotSaved
    BY <1>1, <1>3, <2>2 DEF JumpSaves
  <2>3. CASE saved[dest] = NotSaved
    <3>1. saved' = [saved EXCEPT ![dest] = stack]
      BY <1>3, <2>3 DEF JumpSaves
    <3>2. \A d \in Jumps : saved'[d] = stack \/ saved'[d] = saved[d]
      BY <2>1, <3>1
    <3>3. QED
      BY <1>1, <3>2
  <2>4. QED
    BY <2>2, <2>3
<1>13. HeightsWithin(out2)
  BY <1>1, <1>3, <1>8, <1>9, <1>11, <1>12 DEF HeightsWithin
<1>14. QED
  BY <1>1, <1>13, HeightsWithinKeeps

\* What check_unreachable leaves on the stack.
LEMMA GoOnValues ==
  ASSUME ModuleOK, CheckInv, NEW ops, Fetch(ops), NEW out2, NEW last \in Nat, last < Len(In),
         NEW stacks2, NEW srcs2, Emitted(out2, last + 1, stacks2, srcs2),
         NEW stack \in ValueStacks, NEW error \in BOOLEAN,
         \A d \in Jumps : stacks2[d] # NotSaved => stacks2[d] \in ValueStacks,
         GoOnAfter(last, stack, stacks2, error)
  PROVE  /\ tstack' \in ValueStacks /\ arrived' = FALSE
         /\ ~had_error' => ~error
<1>1. /\ Known(In, Len(t_code)) /\ In \in Seq(Nat) /\ Len(In) \in Nat
      /\ Jumps \subseteq 0..(Len(In) - 1)
  BY Fetched, TheFunction
<1>2. PICK past \in PastBytes :
        LET next == Unreachable(last, past, stacks2)
        IN  /\ t_ip' = next.ip + 1
            /\ tstack' = IF next.load = -1 THEN stack ELSE stacks2[next.load]
            /\ had_error' = (had_error \/ error \/ next.error)
            /\ arrived' = FALSE
  BY DEF GoOnAfter
<1> DEFINE next == Unreachable(last, past, stacks2)
<1>3. last + 1 \in TStarts(In) \/ last + 1 >= Len(In)
  BY DEF Emitted, Progress
<1>4. Resumes(In, Jumps, stacks2, last, next)
  <2>1. last + 1 < Len(In) => At(In, last + 1) # T_OP_NOP
    BY <1>1, <1>3 DEF Known, KnownAt
  <2>2. last + 1 <= Len(In)
    BY <1>1
  <2> HIDE DEF next
  <2>3. QED
    BY <1>1, <2>1, <2>2, UnreachableResumes DEF next
<1>5. /\ tstack' = IF next.load = -1 THEN stack ELSE stacks2[next.load]
      /\ had_error' = (had_error \/ error \/ next.error)
      /\ arrived' = FALSE
  BY <1>2
<1> HIDE DEF next
<1>6. next.load = -1 \/ (next.load \in Jumps /\ stacks2[next.load] # NotSaved)
  BY <1>4 DEF Resumes
<1>7. QED
  BY <1>5, <1>6

-----------------------------------------------------------------------------
(* The steps.                                                              *)

\* What the instructions take and leave.
LEMMA TakenLeft ==
  ASSUME NEW block, NEW at, NEW s, NEW op, op = At(block, at)
  PROVE  /\ op \in {T_OP_PUSH8, T_OP_PUSH_INT8, T_OP_GET_LOOP_VAR, T_OP_LOCAL_GET} =>
              Taken(block, at, s) = 0 /\ Left(block, at, s) = 1
         /\ op \in {T_OP_POP, T_OP_LOCAL_SET, T_OP_EXIT, T_OP_JUMP_COND, T_OP_JUMP_NCOND}
                     \cup T_OP_FOR_STARTS =>
              Taken(block, at, s) = 1 /\ Left(block, at, s) = 0
         /\ op = T_OP_DUPE => Taken(block, at, s) = 1 /\ Left(block, at, s) = 2
         /\ op \in {T_OP_JUMP, T_OP_RET} \cup T_OP_FOR_UPDATES =>
              Taken(block, at, s) = 0 /\ Left(block, at, s) = 0
         /\ op = T_OP_CALL8 =>
              /\ Taken(block, at, s) = Len(s[At(block, at + 1) + 1].params)
              /\ Left(block, at, s) = Len(s[At(block, at + 1) + 1].rets)
BY DEF Taken, Left, T_OP_PUSH8, T_OP_PUSH_INT8, T_OP_GET_LOOP_VAR, T_OP_LOCAL_GET, T_OP_POP,
       T_OP_LOCAL_SET, T_OP_EXIT, T_OP_JUMP_COND, T_OP_JUMP_NCOND, T_OP_FOR_STARTS, T_OP_DUPE,
       T_OP_JUMP, T_OP_RET, T_OP_FOR_UPDATES, T_OP_CALL8, T_OP_FOR_DEC_START, T_OP_FOR_INC_START,
       T_OP_FOR_DEC, T_OP_FOR_INC

\* The instructions that are copied with no operand, or with what they have.
LEMMA SimplyTranslated ==
  ASSUME NEW block, NEW at, NEW op, op = At(block, at), NEW bytes, NEW size,
         At(bytes, 0) = Translation(op)
  PROVE  /\ op \in {T_OP_POP, T_OP_DUPE, T_OP_EXIT, T_OP_RET} => Translates(block, at, bytes, 0, size)
         /\ op \in Narrow /\ At(bytes, 1) = At(block, at + 1) => Translates(block, at, bytes, 0, size)
         /\ /\ op \in Wide /\ At(bytes, 1) = At(block, at + 1) /\ At(bytes, 2) = At(block, at + 2)
            /\ op = T_OP_LOCAL_SET => read_u16(block, at + 1) < size
            => Translates(block, at, bytes, 0, size)
<1>1. \A o \in {T_OP_POP, T_OP_DUPE, T_OP_EXIT, T_OP_RET} :
        o \in Translatable /\ o \notin Narrow \cup Wide /\ o # T_OP_LOCAL_SET
  BY DEF Translatable, Narrow, Wide, T_OP_PUSH8, T_OP_PUSH_INT8, T_OP_CALL8, T_OP_GET_LOOP_VAR,
     T_OP_LOCAL_GET, T_OP_LOCAL_SET, T_OP_POP, T_OP_DUPE, T_OP_EXIT, T_OP_RET
<1>2. /\ \A o \in Narrow : o \in Translatable /\ o \notin Wide /\ o # T_OP_LOCAL_SET
      /\ \A o \in Wide : o \in Translatable
  BY DEF Translatable, Narrow, Wide, T_OP_PUSH8, T_OP_PUSH_INT8, T_OP_CALL8, T_OP_GET_LOOP_VAR,
     T_OP_LOCAL_GET, T_OP_LOCAL_SET
<1>3. At(bytes, 0 + 1) = At(bytes, 1) /\ At(bytes, 0 + 2) = At(bytes, 2)
  OBVIOUS
<1>4. ASSUME op \in {T_OP_POP, T_OP_DUPE, T_OP_EXIT, T_OP_RET}
      PROVE  Translates(block, at, bytes, 0, size)
  BY <1>1, <1>4 DEF Translates
<1>5. ASSUME op \in Narrow, At(bytes, 1) = At(block, at + 1)
      PROVE  Translates(block, at, bytes, 0, size)
  BY <1>2, <1>3, <1>5 DEF Translates
<1>6. ASSUME op \in Wide, At(bytes, 1) = At(block, at + 1), At(bytes, 2) = At(block, at + 2),
             op = T_OP_LOCAL_SET => read_u16(block, at + 1) < size
      PROVE  Translates(block, at, bytes, 0, size)
  BY <1>2, <1>3, <1>6 DEF Translates
<1>7. QED
  BY <1>4, <1>5, <1>6

\* A plain instruction that falls through.
LEMMA FallsHeights ==
  ASSUME ModuleOK, CheckInv, CheckInv', HeightsInv, ~had_error, ~had_error', NEW ops, Fetch(ops),
         ~is_t_jump(Opcode), NEW bytes \in Seq(Nat), Len(bytes) = t_instruction_size(Opcode),
         Emit(bytes), Plain, Translates(In, t_ip, bytes, 0, Len(locals[current + 1])),
         NEW stack \in ValueStacks, NEW error, FallThrough(stack, error), Opcode \notin Final,
         Taken(In, t_ip, sigs) <= Len(tstack),
         Len(stack) = Len(tstack) - Taken(In, t_ip, sigs) + Left(In, t_ip, sigs)
  PROVE  HeightsInv'
<1>1. WholeBlock(In) /\ t_ip \in TStarts(In) /\ Opcode = At(In, t_ip)
  BY AtInstruction
<1>2. /\ t_ip' = t_ip + t_instruction_size(Opcode) /\ tstack' = stack /\ arrived' = FALSE
  BY DEF FallThrough
<1>3. t_ip' = After("t", In, t_ip)
  BY <1>1, <1>2, Spaced
<1>4. At(In, t_ip) # T_OP_RET /\ At(In, t_ip) \notin Final
  BY <1>1 DEF Final
<1>5. Passes(In, t_ip, Len(tstack), t_ip', Len(tstack'), sigs, current + 1)
  BY <1>2, <1>3, <1>4 DEF Passes
<1>6. QED
  BY <1>2, <1>5, HeightsPlain

\* The first elements of a sequence.
LEMMA Taking ==
  ASSUME NEW S, NEW seq \in Seq(S), NEW n \in Nat, n <= Len(seq)
  PROVE  SubSeq(seq, 1, n) \in Seq(S) /\ Len(SubSeq(seq, 1, n)) = n
<1>1. Len(seq) \in Nat
  BY LenProperties
<1>2. CASE n = 0
  <2>1. SubSeq(seq, 1, 0) = <<>>
    BY <1>1, SubSeqProperties, EmptySeq
  <2>2. QED
    BY <1>2, <2>1
<1>3. CASE n # 0
  BY <1>1, <1>3, SubSeqProperties
<1>4. QED
  BY <1>2, <1>3

LEMMA PopValues ==
  ASSUME tstack \in ValueStacks, ~Underflow
  PROVE  /\ Len(tstack) \in Nat /\ Len(tstack) >= 1
         /\ Popped \in ValueStacks /\ Len(Popped) = Len(tstack) - 1
         /\ PoppedType \in {IntType, WordType}
<1>1. Len(tstack) \in Nat /\ Len(tstack) >= 1
  BY LenProperties, EmptySeq DEF ValueStacks, Underflow
<1>2. Popped \in Seq({IntType, WordType}) /\ Len(Popped) = Len(tstack) - 1
  <2> DEFINE n == Len(tstack) - 1
  <2>1. Popped = SubSeq(tstack, 1, n)
    BY DEF Popped
  <2>2. n \in Nat /\ n <= Len(tstack) /\ tstack \in Seq({IntType, WordType})
    BY <1>1 DEF ValueStacks
  <2> HIDE DEF n
  <2>3. SubSeq(tstack, 1, n) \in Seq({IntType, WordType}) /\ Len(SubSeq(tstack, 1, n)) = n
    BY <1>1, <2>2, Taking
  <2>4. QED
    BY <2>1, <2>3 DEF n
<1>3. PoppedType \in {IntType, WordType}
  BY <1>1, ElementOfSeq DEF PoppedType, ValueStacks
<1>4. QED
  BY <1>1, <1>2, <1>3 DEF ValueStacks

\* The sizes of the plain instructions.
LEMMA PlainOps ==
  /\ \A op \in {T_OP_PUSH8, T_OP_PUSH_INT8, T_OP_POP, T_OP_DUPE, T_OP_GET_LOOP_VAR, T_OP_LOCAL_GET,
                T_OP_LOCAL_SET, T_OP_CALL8} : ~is_t_jump(op) /\ op \notin Final
  /\ \A op \in {T_OP_EXIT, T_OP_RET} : ~is_t_jump(op) /\ op \in Final
  /\ \A op \in {T_OP_POP, T_OP_DUPE, T_OP_EXIT, T_OP_RET} : t_instruction_size(op) = 1
  /\ \A op \in Narrow : t_instruction_size(op) = 2
  /\ \A op \in Wide : t_instruction_size(op) = 3
BY DEF is_t_jump, t_instruction_size, Final, Narrow, Wide, T_OP_JUMP, T_OP_JUMP_COND, T_OP_JUMP_NCOND,
       T_OP_FOR_STARTS, T_OP_FOR_UPDATES, T_OP_FOR_DEC_START, T_OP_FOR_INC_START, T_OP_FOR_DEC,
       T_OP_FOR_INC, T_OP_GET_LOOP_VAR, T_OP_LOCAL_GET, T_OP_LOCAL_SET, T_OP_PUSH8,
       T_OP_PUSH_INT8, T_OP_CALL8, T_OP_POP, T_OP_DUPE, T_OP_EXIT, T_OP_RET

\* The opcodes that are emitted.
LEMMA TranslationIs ==
  /\ Translation(T_OP_PUSH8) = W_OP_PUSH8 /\ Translation(T_OP_PUSH_INT8) = W_OP_PUSH_INT8
  /\ Translation(T_OP_POP) = W_OP_POP /\ Translation(T_OP_DUPE) = W_OP_DUPE
  /\ Translation(T_OP_EXIT) = W_OP_EXIT /\ Translation(T_OP_RET) = W_OP_RET
  /\ Translation(T_OP_FOR_DEC_START) = W_OP_FOR_DEC_START
  /\ Translation(T_OP_FOR_DEC) = W_OP_FOR_DEC
  /\ Translation(T_OP_FOR_INC_START) = W_OP_FOR_INC_START
  /\ Translation(T_OP_FOR_INC) = W_OP_FOR_INC
  /\ Translation(T_OP_GET_LOOP_VAR) = W_OP_GET_LOOP_VAR
  /\ Translation(T_OP_JUMP) = W_OP_JUMP /\ Translation(T_OP_JUMP_COND) = W_OP_JUMP_COND
  /\ Translation(T_OP_JUMP_NCOND) = W_OP_JUMP_NCOND
  /\ Translation(T_OP_LOCAL_GET) = W_OP_LOCAL_GET /\ Translation(T_OP_LOCAL_SET) = W_OP_LOCAL_SET
  /\ Translation(T_OP_CALL8) = W_OP_CALL8
BY DEF Translation, T_OP_JUMP, T_OP_JUMP_COND, T_OP_JUMP_NCOND,
       T_OP_FOR_DEC_START, T_OP_FOR_INC_START, T_OP_FOR_DEC,
       T_OP_FOR_INC, T_OP_GET_LOOP_VAR, T_OP_LOCAL_GET, T_OP_LOCAL_SET, T_OP_PUSH8,
       T_OP_PUSH_INT8, T_OP_CALL8, T_OP_POP, T_OP_DUPE, T_OP_EXIT, T_OP_RET

\* What an instruction of its kind is fetched with.
LEMMA AtOperands ==
  ASSUME ModuleOK, CheckInv, HeightsInv, ~had_error, NEW ops, Fetch(ops)
  PROVE  /\ Opcode \in ops /\ Opcode = At(In, t_ip) /\ Operand8 = At(In, t_ip + 1)
         /\ tstack \in ValueStacks /\ Len(tstack) \in Nat
         /\ t_instruction_size(Opcode) >= 2 => Operand8 \in Nat
         /\ t_instruction_size(Opcode) >= 3 => At(In, t_ip + 2) \in Nat
<1>1. WholeBlock(In) /\ t_ip \in TStarts(In) /\ Opcode \in ops /\ Opcode = At(In, t_ip)
  BY AtInstruction
<1>2. tstack \in ValueStacks /\ Len(tstack) \in Nat
  BY AtInstruction
<1>3. /\ t_instruction_size(Opcode) >= 2 => At(In, t_ip + 1) \in Nat
      /\ t_instruction_size(Opcode) >= 3 => At(In, t_ip + 2) \in Nat
  BY <1>1, OperandBytes
<1>4. QED
  BY <1>1, <1>2, <1>3 DEF Operand8

\* A value more.
LEMMA PushValue ==
  ASSUME NEW stack \in ValueStacks, NEW type \in {IntType, WordType}
  PROVE  Append(stack, type) \in ValueStacks /\ Len(Append(stack, type)) = Len(stack) + 1
BY AppendProperties DEF ValueStacks

LEMMA PushHeights ==
  ASSUME ModuleOK, CheckInv, CheckInv', HeightsInv, ~had_error, ~had_error', CheckPush
  PROVE  HeightsInv'
<1> DEFINE op    == IF Opcode = T_OP_PUSH8 THEN W_OP_PUSH8 ELSE W_OP_PUSH_INT8
           bytes == <<op, Operand8>>
           type  == IF Opcode = T_OP_PUSH8 THEN WordType ELSE IntType
           stack == Append(tstack, type)
           ops   == {T_OP_PUSH8, T_OP_PUSH_INT8}
<1>1. Fetch(ops) /\ FallThrough(stack, FALSE) /\ Emit(bytes) /\ Plain
  BY DEF CheckPush
<1>2. /\ Opcode \in ops /\ Opcode = At(In, t_ip) /\ Operand8 = At(In, t_ip + 1)
      /\ tstack \in ValueStacks /\ Len(tstack) \in Nat
      /\ t_instruction_size(Opcode) >= 2 => Operand8 \in Nat
  BY <1>1, AtOperands
<1>3. Opcode \in Narrow
  BY <1>2 DEF Narrow
<1>4. /\ ~is_t_jump(Opcode) /\ Opcode \notin Final /\ t_instruction_size(Opcode) = 2
      /\ Operand8 \in Nat
  BY <1>2, <1>3, PlainOps
<1>5. Taken(In, t_ip, sigs) = 0 /\ Left(In, t_ip, sigs) = 1
  BY <1>2, TakenLeft
<1>6. op \in Nat /\ op = Translation(Opcode)
  BY <1>2, TranslationIs DEF W_OP_PUSH8, W_OP_PUSH_INT8
<1>7. stack \in ValueStacks /\ Len(stack) = Len(tstack) + 1
  BY <1>2, PushValue
<1> HIDE DEF op, stack
<1>8. bytes \in Seq(Nat) /\ Len(bytes) = 2 /\ At(bytes, 0) = op /\ At(bytes, 1) = Operand8
  BY <1>4, <1>6 DEF At
<1> HIDE DEF bytes
<1>9. Translates(In, t_ip, bytes, 0, Len(locals[current + 1]))
  BY <1>2, <1>3, <1>6, <1>8, SimplyTranslated
<1>10. 0 <= Len(tstack) /\ Len(stack) = Len(tstack) - 0 + 1
  BY <1>2, <1>7
<1>11. QED
  BY <1>1, <1>4, <1>5, <1>7, <1>8, <1>9, <1>10, FallsHeights

LEMMA PopHeights ==
  ASSUME ModuleOK, CheckInv, CheckInv', HeightsInv, ~had_error, ~had_error', CheckPop
  PROVE  HeightsInv'
<1> DEFINE bytes == <<W_OP_POP>>
           ops   == {T_OP_POP}
<1>1. Fetch(ops) /\ FallThrough(Popped, Underflow) /\ Emit(bytes) /\ Plain
  BY DEF CheckPop
<1>2. Opcode = T_OP_POP /\ Opcode = At(In, t_ip) /\ tstack \in ValueStacks
  BY <1>1, AtOperands
<1>3. ~Underflow
  BY <1>1 DEF FallThrough
<1>4. /\ Len(tstack) \in Nat /\ Len(tstack) >= 1
      /\ Popped \in ValueStacks /\ Len(Popped) = Len(tstack) - 1
  BY <1>2, <1>3, PopValues
<1>5. ~is_t_jump(Opcode) /\ Opcode \notin Final /\ t_instruction_size(Opcode) = 1
  BY <1>2, PlainOps
<1>6. Taken(In, t_ip, sigs) = 1 /\ Left(In, t_ip, sigs) = 0
  BY <1>2, TakenLeft
<1>7. W_OP_POP \in Nat /\ W_OP_POP = Translation(Opcode)
  BY <1>2, TranslationIs DEF W_OP_POP
<1>8. bytes \in Seq(Nat) /\ Len(bytes) = 1 /\ At(bytes, 0) = W_OP_POP
  BY <1>7 DEF At
<1> HIDE DEF bytes
<1>9. Translates(In, t_ip, bytes, 0, Len(locals[current + 1]))
  BY <1>2, <1>7, <1>8, SimplyTranslated
<1>10. 1 <= Len(tstack) /\ Len(Popped) = Len(tstack) - 1 + 0
  BY <1>4
<1>11. QED
  BY <1>1, <1>4, <1>5, <1>6, <1>8, <1>9, <1>10, FallsHeights

\* Two stacks of values.
LEMMA JoinValues ==
  ASSUME NEW low \in ValueStacks, NEW high \in Seq({IntType, WordType})
  PROVE  low \o high \in ValueStacks /\ Len(low \o high) = Len(low) + Len(high)
<1> DEFINE S == {IntType, WordType}
<1>1. low \in Seq(S) /\ high \in Seq(S) /\ ValueStacks = Seq(S)
  BY DEF ValueStacks
<1> HIDE DEF S
<1>2. low \o high \in Seq(S) /\ Len(low \o high) = Len(low) + Len(high)
  BY <1>1, ConcatProperties
<1>3. QED
  BY <1>1, <1>2

LEMMA DupeHeights ==
  ASSUME ModuleOK, CheckInv, CheckInv', HeightsInv, ~had_error, ~had_error', CheckDupe
  PROVE  HeightsInv'
<1> DEFINE bytes == <<W_OP_DUPE>>
           ops   == {T_OP_DUPE}
           two   == <<PoppedType, PoppedType>>
           stack == Popped \o two
<1>1. Fetch(ops) /\ FallThrough(stack, Underflow) /\ Emit(bytes) /\ Plain
  BY DEF CheckDupe
<1>2. Opcode = T_OP_DUPE /\ Opcode = At(In, t_ip) /\ tstack \in ValueStacks
  BY <1>1, AtOperands
<1>3. ~Underflow
  BY <1>1 DEF FallThrough
<1>4. /\ Len(tstack) \in Nat /\ Len(tstack) >= 1
      /\ Popped \in ValueStacks /\ Len(Popped) = Len(tstack) - 1
      /\ PoppedType \in {IntType, WordType}
  BY <1>2, <1>3, PopValues
<1>5. ~is_t_jump(Opcode) /\ Opcode \notin Final /\ t_instruction_size(Opcode) = 1
  BY <1>2, PlainOps
<1>6. Taken(In, t_ip, sigs) = 1 /\ Left(In, t_ip, sigs) = 2
  BY <1>2, TakenLeft
<1>7. W_OP_DUPE \in Nat /\ W_OP_DUPE = Translation(Opcode)
  BY <1>2, TranslationIs DEF W_OP_DUPE
<1>8. bytes \in Seq(Nat) /\ Len(bytes) = 1 /\ At(bytes, 0) = W_OP_DUPE
  BY <1>7 DEF At
<1>9. two \in Seq({IntType, WordType}) /\ Len(two) = 2
  BY <1>4
<1> HIDE DEF bytes, two
<1>10. stack \in ValueStacks /\ Len(stack) = Len(Popped) + 2
  BY <1>4, <1>9, JoinValues
<1> HIDE DEF stack
<1>11. Translates(In, t_ip, bytes, 0, Len(locals[current + 1]))
  BY <1>2, <1>7, <1>8, SimplyTranslated
<1>12. 1 <= Len(tstack) /\ Len(stack) = Len(tstack) - 1 + 2
  BY <1>4, <1>10
<1>13. QED
  BY <1>1, <1>5, <1>6, <1>8, <1>10, <1>11, <1>12, FallsHeights

LEMMA GetLoopVarHeights ==
  ASSUME ModuleOK, CheckInv, CheckInv', HeightsInv, ~had_error, ~had_error', CheckGetLoopVar
  PROVE  HeightsInv'
<1> DEFINE bytes == <<W_OP_GET_LOOP_VAR, Operand8, At(In, t_ip + 2)>>
           stack == Append(tstack, IntType)
           ops   == {T_OP_GET_LOOP_VAR}
<1>1. Fetch(ops) /\ FallThrough(stack, FALSE) /\ Emit(bytes) /\ Plain
  BY DEF CheckGetLoopVar
<1>2. /\ Opcode = T_OP_GET_LOOP_VAR /\ Opcode = At(In, t_ip) /\ Operand8 = At(In, t_ip + 1)
      /\ tstack \in ValueStacks /\ Len(tstack) \in Nat
      /\ t_instruction_size(Opcode) >= 2 => Operand8 \in Nat
      /\ t_instruction_size(Opcode) >= 3 => At(In, t_ip + 2) \in Nat
  BY <1>1, AtOperands
<1>3. Opcode \in Wide
  BY <1>2 DEF Wide
<1>4. /\ ~is_t_jump(Opcode) /\ Opcode \notin Final /\ t_instruction_size(Opcode) = 3
      /\ Operand8 \in Nat /\ At(In, t_ip + 2) \in Nat
  BY <1>2, <1>3, PlainOps
<1>5. Taken(In, t_ip, sigs) = 0 /\ Left(In, t_ip, sigs) = 1
  BY <1>2, TakenLeft
<1>6. W_OP_GET_LOOP_VAR \in Nat /\ W_OP_GET_LOOP_VAR = Translation(Opcode)
  BY <1>2, TranslationIs DEF W_OP_GET_LOOP_VAR
<1>7. stack \in ValueStacks /\ Len(stack) = Len(tstack) + 1
  BY <1>2, PushValue
<1> HIDE DEF stack
<1>8. /\ bytes \in Seq(Nat) /\ Len(bytes) = 3 /\ At(bytes, 0) = W_OP_GET_LOOP_VAR
      /\ At(bytes, 1) = Operand8 /\ At(bytes, 2) = At(In, t_ip + 2)
  BY <1>4, <1>6 DEF At
<1> HIDE DEF bytes
<1>9. Translates(In, t_ip, bytes, 0, Len(locals[current + 1]))
  <2>1. Opcode # T_OP_LOCAL_SET
    BY <1>2 DEF T_OP_GET_LOOP_VAR, T_OP_LOCAL_SET
  <2>2. QED
    BY <1>2, <1>3, <1>6, <1>8, <2>1, SimplyTranslated
<1>10. 0 <= Len(tstack) /\ Len(stack) = Len(tstack) - 0 + 1
  BY <1>2, <1>7
<1>11. QED
  BY <1>1, <1>4, <1>5, <1>7, <1>8, <1>9, <1>10, FallsHeights

\* The type of a variable that is in the table.
LEMMA LocalValue ==
  ASSUME NEW index \in Nat, index < Len(locals[current + 1]), locals[current + 1] \in ValueStacks
  PROVE  LocalType(index) \in {IntType, WordType}
<1> DEFINE table == locals[current + 1]
<1>1. table \in Seq({IntType, WordType}) /\ Len(table) \in Nat
  BY LenProperties DEF ValueStacks
<1>2. LocalType(index) = table[index + 1]
  BY DEF LocalType
<1> HIDE DEF table
<1>3. index + 1 \in 1..Len(table)
  BY <1>1 DEF table
<1>4. QED
  BY <1>1, <1>2, <1>3, ElementOfSeq

\* An operand that is read.
LEMMA ReadIs ==
  ASSUME NEW block, NEW at \in Nat, At(block, at) \in Nat, At(block, at + 1) \in Nat
  PROVE  read_u16(block, at) \in Nat
BY ByteBaseAssumption DEF read_u16

LEMMA LocalGetHeights ==
  ASSUME ModuleOK, ModuleComplete, CheckInv, CheckInv', HeightsInv, ~had_error, ~had_error',
         CheckLocalGet
  PROVE  HeightsInv'
<1> DEFINE bytes == <<W_OP_LOCAL_GET, Operand8, At(In, t_ip + 2)>>
           index == read_u16(In, t_ip + 1)
           type  == LocalType(index)
           stack == Append(tstack, type)
           ops   == {T_OP_LOCAL_GET}
<1>1. Fetch(ops) /\ FallThrough(stack, FALSE) /\ Emit(bytes) /\ Plain
  BY DEF CheckLocalGet
<1>2. /\ Opcode = T_OP_LOCAL_GET /\ Opcode = At(In, t_ip) /\ Operand8 = At(In, t_ip + 1)
      /\ tstack \in ValueStacks /\ Len(tstack) \in Nat
      /\ t_instruction_size(Opcode) >= 2 => Operand8 \in Nat
      /\ t_instruction_size(Opcode) >= 3 => At(In, t_ip + 2) \in Nat
  BY <1>1, AtOperands
<1>3. Opcode \in Wide
  BY <1>2 DEF Wide
<1>4. /\ ~is_t_jump(Opcode) /\ Opcode \notin Final /\ t_instruction_size(Opcode) = 3
      /\ Operand8 \in Nat /\ At(In, t_ip + 2) \in Nat
  BY <1>2, <1>3, PlainOps
<1>5. Taken(In, t_ip, sigs) = 0 /\ Left(In, t_ip, sigs) = 1
  BY <1>2, TakenLeft
<1>6. W_OP_LOCAL_GET \in Nat /\ W_OP_LOCAL_GET = Translation(Opcode)
  BY <1>2, TranslationIs DEF W_OP_LOCAL_GET
<1>7. type \in {IntType, WordType}
  <2>1. current + 1 \in 1..Len(t_code) /\ t_ip \in TStarts(In)
    BY <1>1, AtInstruction
  <2>2. locals[current + 1] \in ValueStacks
    BY <2>1 DEF ModuleComplete
  <2>3. index < Len(locals[current + 1])
    BY <1>2, <2>1 DEF ModuleComplete, In
  <2>4. index \in Nat
    <3>1. t_ip + 1 \in Nat /\ t_ip + 1 + 1 = t_ip + 2
      BY <1>1, AtInstruction
    <3>2. QED
      BY <1>2, <1>4, <3>1, ReadIs
  <2> HIDE DEF index
  <2>5. QED
    BY <2>2, <2>3, <2>4, LocalValue
<1> HIDE DEF type
<1>8. stack \in ValueStacks /\ Len(stack) = Len(tstack) + 1
  BY <1>2, <1>7, PushValue
<1> HIDE DEF stack
<1>9. /\ bytes \in Seq(Nat) /\ Len(bytes) = 3 /\ At(bytes, 0) = W_OP_LOCAL_GET
      /\ At(bytes, 1) = Operand8 /\ At(bytes, 2) = At(In, t_ip + 2)
  BY <1>4, <1>6 DEF At
<1> HIDE DEF bytes
<1>10. Translates(In, t_ip, bytes, 0, Len(locals[current + 1]))
  <2>1. Opcode # T_OP_LOCAL_SET
    BY <1>2 DEF T_OP_LOCAL_GET, T_OP_LOCAL_SET
  <2>2. QED
    BY <1>2, <1>3, <1>6, <1>9, <2>1, SimplyTranslated
<1>11. 0 <= Len(tstack) /\ Len(stack) = Len(tstack) - 0 + 1
  BY <1>2, <1>8
<1>12. QED
  BY <1>1, <1>4, <1>5, <1>8, <1>9, <1>10, <1>11, FallsHeights

LEMMA LocalSetHeights ==
  ASSUME ModuleOK, ModuleComplete, CheckInv, CheckInv', HeightsInv, ~had_error, ~had_error',
         CheckLocalSet
  PROVE  HeightsInv'
<1> DEFINE bytes == <<W_OP_LOCAL_SET, Operand8, At(In, t_ip + 2)>>
           index == read_u16(In, t_ip + 1)
           ops   == {T_OP_LOCAL_SET}
<1>1. Fetch(ops)
  BY DEF CheckLocalSet
<1>2. CASE PoppedType # LocalType(index)
  <2>1. check_status' = "exit"
    BY <1>2 DEF CheckLocalSet, Abort
  <2>2. QED
    BY <2>1 DEF HeightsInv
<1>3. CASE PoppedType = LocalType(index)
  <2>1. FallThrough(Popped, Underflow) /\ Emit(bytes) /\ Plain
    BY <1>3 DEF CheckLocalSet
  <2>2. /\ Opcode = T_OP_LOCAL_SET /\ Opcode = At(In, t_ip) /\ Operand8 = At(In, t_ip + 1)
        /\ tstack \in ValueStacks
        /\ t_instruction_size(Opcode) >= 2 => Operand8 \in Nat
        /\ t_instruction_size(Opcode) >= 3 => At(In, t_ip + 2) \in Nat
    BY <1>1, AtOperands
  <2>3. Opcode \in Wide
    BY <2>2 DEF Wide
  <2>4. /\ ~is_t_jump(Opcode) /\ Opcode \notin Final /\ t_instruction_size(Opcode) = 3
        /\ Operand8 \in Nat /\ At(In, t_ip + 2) \in Nat
    BY <2>2, <2>3, PlainOps
  <2>5. Taken(In, t_ip, sigs) = 1 /\ Left(In, t_ip, sigs) = 0
    BY <2>2, TakenLeft
  <2>6. W_OP_LOCAL_SET \in Nat /\ W_OP_LOCAL_SET = Translation(Opcode)
    BY <2>2, TranslationIs DEF W_OP_LOCAL_SET
  <2>7. ~Underflow
    BY <2>1 DEF FallThrough
  <2>8. /\ Len(tstack) \in Nat /\ Len(tstack) >= 1
        /\ Popped \in ValueStacks /\ Len(Popped) = Len(tstack) - 1
        /\ PoppedType \in {IntType, WordType}
    BY <2>2, <2>7, PopValues
  <2>9. index < Len(locals[current + 1])
    BY <1>3, <2>8 DEF LocalType, IntType, WordType, ErrorType
  <2>10. /\ bytes \in Seq(Nat) /\ Len(bytes) = 3 /\ At(bytes, 0) = W_OP_LOCAL_SET
         /\ At(bytes, 1) = Operand8 /\ At(bytes, 2) = At(In, t_ip + 2)
    BY <2>4, <2>6 DEF At
  <2> HIDE DEF bytes
  <2>11. Translates(In, t_ip, bytes, 0, Len(locals[current + 1]))
    BY <2>2, <2>3, <2>6, <2>9, <2>10, SimplyTranslated
  <2>12. 1 <= Len(tstack) /\ Len(Popped) = Len(tstack) - 1 + 0
    BY <2>8
  <2>13. QED
    BY <1>1, <2>1, <2>4, <2>5, <2>8, <2>10, <2>11, <2>12, FallsHeights
<1>4. QED
  BY <1>2, <1>3

LEMMA CallHeights ==
  ASSUME ModuleOK, ModuleComplete, CheckInv, CheckInv', HeightsInv, ~had_error, ~had_error', CheckCall
  PROVE  HeightsInv'
<1> DEFINE ops    == {T_OP_CALL8}
           bytes  == <<W_OP_CALL8, Operand8>>
           sig    == sigs[Operand8 + 1]
           height == Len(tstack) - Len(sig.params)
           kept   == IF height < 0 THEN <<>> ELSE SubSeq(tstack, 1, height)
           stack  == kept \o sig.rets
           error  == tstack # kept \o sig.params
<1>1. Fetch(ops) /\ FallThrough(stack, error) /\ Emit(bytes) /\ Plain
  BY DEF CheckCall
<1>2. /\ Opcode = T_OP_CALL8 /\ Opcode = At(In, t_ip) /\ Operand8 = At(In, t_ip + 1)
      /\ tstack \in ValueStacks /\ Len(tstack) \in Nat
  BY <1>1, AtOperands
<1>3. Operand8 \in Nat /\ Operand8 < Len(t_code) /\ Len(t_code) \in Nat
  BY <1>1, <1>2, AtInstruction, TheFunction DEF Known, KnownAt
<1>4. Opcode \in Narrow /\ ~is_t_jump(Opcode) /\ Opcode \notin Final /\ t_instruction_size(Opcode) = 2
  BY <1>2, PlainOps DEF Narrow
<1>5. Taken(In, t_ip, sigs) = Len(sig.params) /\ Left(In, t_ip, sigs) = Len(sig.rets)
  BY <1>2, TakenLeft
<1>6. sig.params \in ValueStacks /\ sig.rets \in ValueStacks
  BY <1>3, SMTT(40) DEF ModuleComplete
<1>7. ~error
  BY <1>1 DEF FallThrough
<1> HIDE DEF sig
<1>8. /\ Len(sig.params) \in Nat /\ Len(sig.rets) \in Nat
      /\ sig.rets \in Seq({IntType, WordType}) /\ sig.params \in Seq({IntType, WordType})
  BY <1>6, LenProperties DEF ValueStacks
<1>9. height >= 0
  <2>1. SUFFICES ASSUME height < 0 PROVE FALSE
    BY <1>2, <1>8
  <2>2. tstack = <<>> \o sig.params
    BY <1>7, <2>1
  <2>3. Len(tstack) = Len(sig.params)
    BY <1>8, <2>2, ConcatEmptySeq
  <2>4. QED
    BY <1>2, <1>8, <2>1, <2>3
<1>10. height \in Nat /\ height <= Len(tstack) /\ Len(sig.params) <= Len(tstack)
       /\ kept = SubSeq(tstack, 1, height)
  BY <1>2, <1>8, <1>9
<1>11. kept \in ValueStacks /\ Len(kept) = height
  <2>1. tstack \in Seq({IntType, WordType})
    BY <1>2 DEF ValueStacks
  <2> HIDE DEF height, kept
  <2>2. SubSeq(tstack, 1, height) \in Seq({IntType, WordType}) /\ Len(SubSeq(tstack, 1, height)) = height
    BY <1>10, <2>1, Taking
  <2>3. QED
    BY <1>10, <2>2 DEF ValueStacks
<1> HIDE DEF kept
<1>12. stack \in ValueStacks /\ Len(stack) = Len(tstack) - Len(sig.params) + Len(sig.rets)
  <2>1. stack \in ValueStacks /\ Len(stack) = Len(kept) + Len(sig.rets)
    BY <1>8, <1>11, JoinValues
  <2>2. QED
    BY <1>11, <2>1
<1>13. bytes \in Seq(Nat) /\ Len(bytes) = 2 /\ At(bytes, 0) = W_OP_CALL8 /\ At(bytes, 1) = Operand8
  BY <1>3 DEF At, W_OP_CALL8
<1> HIDE DEF stack, error, bytes
<1>14. Translates(In, t_ip, bytes, 0, Len(locals[current + 1]))
  BY <1>2, <1>4, <1>13, SimplyTranslated, TranslationIs
<1>15. QED
  BY <1>1, <1>4, <1>5, <1>10, <1>12, <1>13, <1>14, FallsHeights, SMTT(40)

\* A jump that falls through.
LEMMA JumpFallsHeights ==
  ASSUME ModuleOK, CheckInv, CheckInv', HeightsInv, ~had_error, ~had_error', NEW ops, Fetch(ops),
         is_t_jump(Opcode), NEW op \in Nat, is_w_jump(op), op = Translation(Opcode),
         NEW dest, dest = JumpDest(In, t_ip), NEW stack \in ValueStacks, SaveJump(dest, stack),
         Len(stack) = Len(tstack) - Taken(In, t_ip, sigs), Left(In, t_ip, sigs) = 0,
         Taken(In, t_ip, sigs) \in {0, 1}, Taken(In, t_ip, sigs) <= Len(tstack),
         Emit(CopiedJump(op, dest)), UNCHANGED <<input, check_status, current, wir_dests, w_jumps>>,
         NEW error, ~error => ~Inconsistent(dest, stack),
         FallThrough(stack, error)
  PROVE  HeightsInv'
<1>1. /\ WholeBlock(In) /\ t_ip \in TStarts(In) /\ Opcode = At(In, t_ip)
      /\ tstack \in ValueStacks /\ Len(tstack) \in Nat
  BY AtInstruction
<1>2. /\ t_ip' = t_ip + t_instruction_size(Opcode) /\ tstack' = stack /\ arrived' = FALSE
      /\ ~error
  BY DEF FallThrough
<1>3. t_ip' = After("t", In, t_ip)
  BY <1>1, <1>2, Spaced
<1>4. At(In, t_ip) # T_OP_RET
  BY <1>1, JumpOps DEF T_OP_RET
<1>5. Len(stack) = Len(tstack) - Taken(In, t_ip, sigs) + Left(In, t_ip, sigs)
  BY <1>1
<1>6. Passes(In, t_ip, Len(tstack), t_ip', Len(tstack'), sigs, current + 1)
  BY <1>2, <1>3, <1>4, <1>5 DEF Passes
<1>7. ~Inconsistent(dest, stack)
  BY <1>2
<1>8. QED
  BY <1>2, <1>6, <1>7, HeightsJump

LEMMA ConditionalJumpHeights ==
  ASSUME ModuleOK, CheckInv, CheckInv', HeightsInv, ~had_error, ~had_error', CheckConditionalJump
  PROVE  HeightsInv'
<1> DEFINE ops  == {T_OP_JUMP_COND, T_OP_JUMP_NCOND} \cup T_OP_FOR_STARTS
           dest == JumpDest(In, t_ip)
           w_op == CASE Opcode = T_OP_JUMP_COND     -> W_OP_JUMP_COND
                     [] Opcode = T_OP_JUMP_NCOND    -> W_OP_JUMP_NCOND
                     [] Opcode = T_OP_FOR_DEC_START -> W_OP_FOR_DEC_START
                     [] Opcode = T_OP_FOR_INC_START -> W_OP_FOR_INC_START
           error == Underflow \/ Inconsistent(dest, Popped)
<1>1. Fetch(ops)
  BY DEF CheckConditionalJump
<1>2. Opcode \in ops /\ Opcode = At(In, t_ip) /\ tstack \in ValueStacks
  BY <1>1, AtOperands
<1>3. is_t_jump(Opcode)
  BY <1>2, JumpOps DEF T_OP_FOR_STARTS, T_OP_JUMP_COND, T_OP_JUMP_NCOND, T_OP_FOR_DEC_START,
     T_OP_FOR_INC_START
<1>4. w_op \in {W_OP_JUMP_COND, W_OP_JUMP_NCOND, W_OP_FOR_DEC_START, W_OP_FOR_INC_START}
      /\ w_op = Translation(Opcode)
  BY <1>2, TranslationIs DEF T_OP_FOR_STARTS, T_OP_JUMP_COND, T_OP_JUMP_NCOND, T_OP_FOR_DEC_START,
     T_OP_FOR_INC_START
<1>5. w_op \in Nat /\ is_w_jump(w_op)
  <2>1. \A o \in {W_OP_JUMP_COND, W_OP_JUMP_NCOND, W_OP_FOR_DEC_START, W_OP_FOR_INC_START} :
          o \in Nat /\ is_w_jump(o)
    BY JumpOps DEF W_OP_JUMP_COND, W_OP_JUMP_NCOND, W_OP_FOR_DEC_START, W_OP_FOR_INC_START
  <2> HIDE DEF w_op
  <2>2. QED
    BY <1>4, <2>1
<1>6. dest \in Jumps
  BY <1>1, <1>3, JumpKnown
<1>7. /\ SaveJump(dest, Popped)
      /\ FallThrough(Popped, error)
      /\ Emit(CopiedJump(w_op, dest))
      /\ UNCHANGED <<input, check_status, current, wir_dests, w_jumps>>
  BY <1>6 DEF CheckConditionalJump
<1>8. ~error
  BY <1>7 DEF FallThrough
<1>9. ~Underflow /\ ~Inconsistent(dest, Popped)
  BY <1>8
<1>10. /\ Len(tstack) \in Nat /\ Len(tstack) >= 1
       /\ Popped \in ValueStacks /\ Len(Popped) = Len(tstack) - 1
  BY <1>2, <1>9, PopValues
<1>11. Taken(In, t_ip, sigs) = 1 /\ Left(In, t_ip, sigs) = 0
  BY <1>2, TakenLeft
<1>12. dest = JumpDest(In, t_ip) /\ (~error => ~Inconsistent(dest, Popped))
  BY <1>9
<1> HIDE DEF dest, w_op, error
<1>13. 1 <= Len(tstack) /\ 1 \in {0, 1}
  BY <1>10
<1>14. QED
  BY <1>1, <1>3, <1>4, <1>5, <1>7, <1>10, <1>11, <1>12, <1>13, JumpFallsHeights

LEMMA ForUpdateHeights ==
  ASSUME ModuleOK, CheckInv, CheckInv', HeightsInv, ~had_error, ~had_error', CheckForUpdate
  PROVE  HeightsInv'
<1> DEFINE ops  == T_OP_FOR_UPDATES
           dest == JumpDest(In, t_ip)
           w_op == IF Opcode = T_OP_FOR_DEC THEN W_OP_FOR_DEC ELSE W_OP_FOR_INC
           error == Inconsistent(dest, tstack)
<1>1. Fetch(ops)
  BY DEF CheckForUpdate
<1>2. Opcode \in ops /\ Opcode = At(In, t_ip) /\ tstack \in ValueStacks /\ Len(tstack) \in Nat
  BY <1>1, AtOperands
<1>3. is_t_jump(Opcode)
  BY <1>2, JumpOps DEF T_OP_FOR_UPDATES, T_OP_FOR_DEC, T_OP_FOR_INC
<1>4. w_op \in {W_OP_FOR_DEC, W_OP_FOR_INC} /\ w_op = Translation(Opcode)
  BY <1>2, TranslationIs DEF T_OP_FOR_UPDATES, T_OP_FOR_DEC, T_OP_FOR_INC
<1>5. w_op \in Nat /\ is_w_jump(w_op)
  BY <1>4, JumpOps DEF W_OP_FOR_DEC, W_OP_FOR_INC
<1>6. dest \in Jumps
  BY <1>1, <1>3, JumpKnown
<1>7. /\ SaveJump(dest, tstack)
      /\ FallThrough(tstack, error)
      /\ Emit(CopiedJump(w_op, dest))
      /\ UNCHANGED <<input, check_status, current, wir_dests, w_jumps>>
  BY <1>6 DEF CheckForUpdate
<1>8. Taken(In, t_ip, sigs) = 0 /\ Left(In, t_ip, sigs) = 0
  BY <1>2, TakenLeft
<1>9. dest = JumpDest(In, t_ip) /\ (~error => ~Inconsistent(dest, tstack))
  BY <1>7 DEF FallThrough
<1> HIDE DEF dest, w_op, error
<1>10. 0 <= Len(tstack) /\ 0 \in {0, 1} /\ Len(tstack) = Len(tstack) - 0
  BY <1>2
<1>11. QED
  BY <1>1, <1>2, <1>3, <1>4, <1>5, <1>7, <1>8, <1>9, <1>10, JumpFallsHeights

\* The stacks that are saved hold values.
LEMMA SavedValues ==
  ASSUME ModuleOK, CheckInv, HeightsInv, ~had_error, NEW ops, Fetch(ops),
         NEW dest \in Jumps, NEW stack \in ValueStacks, SaveJump(dest, stack)
  PROVE  \A d \in Jumps : saved'[d] # NotSaved => saved'[d] \in ValueStacks
<1>1. /\ Progress(In, Jumps, Ahead(Jumps, t_ip), Out, t_ip, saved, wir_dests, wir_srcs)
      /\ \A d \in Jumps : saved[d] # NotSaved => saved[d] \in ValueStacks
  BY AtInstruction
<1>2. saved \in [Jumps -> Stacks \cup {NotSaved}]
  BY <1>1 DEF Progress, Tables
<1>3. saved' = saved \/ saved' = [saved EXCEPT ![dest] = stack]
  BY DEF SaveJump
<1>4. ASSUME NEW d \in Jumps PROVE saved'[d] = saved[d] \/ saved'[d] = stack
  BY <1>2, <1>3
<1>5. QED
  BY <1>1, <1>4

LEMMA JumpHeights ==
  ASSUME ModuleOK, CheckInv, CheckInv', HeightsInv, ~had_error, ~had_error', CheckJump
  PROVE  HeightsInv'
<1> DEFINE ops   == {T_OP_JUMP}
           dest  == JumpDest(In, t_ip)
           error == Inconsistent(dest, tstack)
           out2  == Out \o CopiedJump(W_OP_JUMP, dest)
<1>1. Fetch(ops)
  BY DEF CheckJump
<1>2. Opcode = T_OP_JUMP /\ Opcode = At(In, t_ip) /\ tstack \in ValueStacks /\ Len(tstack) \in Nat
  BY <1>1, AtOperands
<1>3. is_t_jump(Opcode) /\ W_OP_JUMP \in Nat /\ is_w_jump(W_OP_JUMP) /\ W_OP_JUMP = Translation(Opcode)
  BY <1>2, JumpOps, TranslationIs DEF T_OP_JUMP, W_OP_JUMP
<1>4. dest \in Jumps
  BY <1>1, <1>3, JumpKnown
<1>5. /\ SaveJump(dest, tstack)
      /\ GoOnAfter(t_ip + 2, tstack, saved', error)
      /\ Emit(CopiedJump(W_OP_JUMP, dest))
      /\ UNCHANGED <<input, check_status, current, wir_dests, w_jumps>>
  BY <1>4 DEF CheckJump
<1>6. error \in BOOLEAN /\ tstack \in Stacks
  BY <1>2 DEF Inconsistent, Stacks, ValueStacks, Types, IntType, WordType, ErrorType
<1>7. dest = JumpDest(In, t_ip)
  OBVIOUS
<1> HIDE DEF dest, error
<1>8. /\ Emitted(out2, t_ip + 3, saved', wir_srcs')
      /\ t_ip \in Nat /\ t_ip + 2 \in Nat /\ t_ip + 2 < Len(In) /\ (t_ip + 2) + 1 = t_ip + 3
  BY <1>1, <1>3, <1>5, <1>6, <1>7, EmitsJump
<1> HIDE DEF out2
<1>9. \A d \in Jumps : saved'[d] # NotSaved => saved'[d] \in ValueStacks
  BY <1>1, <1>2, <1>4, <1>5, SavedValues
<1>10. tstack' \in ValueStacks /\ arrived' = FALSE /\ (~had_error' => ~error)
  <2>1. PICK last \in Nat : last = t_ip + 2
    BY <1>8
  <2>2. PICK stacks2 : stacks2 = saved'
    OBVIOUS
  <2>3. PICK srcs2 : srcs2 = wir_srcs'
    OBVIOUS
  <2>4. Emitted(out2, last + 1, stacks2, srcs2) /\ last < Len(In)
    BY <1>8, <2>1, <2>2, <2>3
  <2>5. GoOnAfter(last, tstack, stacks2, error)
    BY <1>5, <2>1, <2>2
  <2>6. \A d \in Jumps : stacks2[d] # NotSaved => stacks2[d] \in ValueStacks
    BY <1>9, <2>2
  <2>7. QED
    BY <1>1, <1>2, <1>6, <2>4, <2>5, <2>6, GoOnValues
<1>11. Taken(In, t_ip, sigs) = 0 /\ Left(In, t_ip, sigs) = 0
  BY <1>2, TakenLeft
<1>12. Passes(In, t_ip, Len(tstack), t_ip', Len(tstack'), sigs, current + 1)
  <2>1. At(In, t_ip) # T_OP_RET /\ At(In, t_ip) \in Final
    BY <1>2 DEF T_OP_RET, T_OP_JUMP, Final
  <2>2. QED
    BY <1>2, <1>11, <2>1 DEF Passes
<1>13. ~Inconsistent(dest, tstack)
  BY <1>10 DEF error
<1>14. Len(tstack) = Len(tstack) - Taken(In, t_ip, sigs)
  BY <1>2, <1>11
<1>15. QED
  BY <1>1, <1>2, <1>3, <1>5, <1>7, <1>10, <1>12, <1>13, <1>14, HeightsJump

\* EXIT and RET, and what may be on the stack after them.
LEMMA LeavesValues ==
  ASSUME ModuleOK, CheckInv, HeightsInv, ~had_error, NEW t_op, NEW w_op,
         \/ t_op = T_OP_EXIT /\ w_op = W_OP_EXIT
         \/ t_op = T_OP_RET /\ w_op = W_OP_RET,
         Fetch({t_op}), NEW stack \in ValueStacks, NEW error \in BOOLEAN,
         GoOnAfter(t_ip, stack, saved, error), Emit(<<w_op>>), Plain
  PROVE  tstack' \in ValueStacks /\ arrived' = FALSE /\ (~had_error' => ~error)
<1> DEFINE bytes == <<w_op>>
           out2  == Out \o bytes
<1>1. /\ Opcode = t_op /\ t_ip \in Nat /\ t_ip \in TStarts(In) /\ check_status = "checking"
      /\ \A d \in Jumps : saved[d] # NotSaved => saved[d] \in ValueStacks
  BY AtInstruction
<1>2. ~is_t_jump(t_op) /\ t_instruction_size(t_op) = 1
  BY PlainOps
<1>3. w_op \in Nat /\ ~is_w_jump(w_op) /\ get_w_instruction_size(w_op) = 1
  BY DEF is_w_jump, get_w_instruction_size, W_OP_JUMP, W_OP_JUMP_COND, W_OP_JUMP_NCOND,
       W_OP_FOR_STARTS, W_OP_FOR_UPDATES, W_OP_FOR_DEC_START, W_OP_FOR_INC_START, W_OP_FOR_DEC,
       W_OP_FOR_INC, W_OP_CALL8, W_OP_LOCAL_GET, W_OP_LOCAL_SET, W_OP_GET_LOOP_VAR, W_OP_PUSH8,
       W_OP_PUSH_INT8, W_OP_EXIT, W_OP_RET
<1>4. bytes \in Seq(Nat) /\ Len(bytes) = 1 /\ At(bytes, 0) = w_op
  BY <1>3 DEF At
<1>5. Emit(bytes) /\ Plain
  OBVIOUS
<1> HIDE DEF bytes
<1>6. Emitted(out2, t_ip + t_instruction_size(Opcode), saved, wir_srcs)
  BY <1>1, <1>2, <1>3, <1>4, <1>5, EmitsPlain
<1>7. Emitted(out2, t_ip + 1, saved, wir_srcs)
  BY <1>1, <1>2, <1>6
<1> HIDE DEF out2
<1>8. t_ip < Len(In)
  BY <1>1, TheFunction
<1>9. QED
  BY <1>1, <1>7, <1>8, GoOnValues

LEMMA LeavesHeights ==
  ASSUME ModuleOK, CheckInv, CheckInv', HeightsInv, ~had_error, ~had_error', NEW t_op, NEW w_op,
         \/ t_op = T_OP_EXIT /\ w_op = W_OP_EXIT
         \/ t_op = T_OP_RET /\ w_op = W_OP_RET,
         Fetch({t_op}), NEW stack \in ValueStacks, NEW error \in BOOLEAN,
         GoOnAfter(t_ip, stack, saved, error), Emit(<<w_op>>), Plain,
         ~error => Taken(In, t_ip, sigs) <= Len(tstack),
         ~error /\ t_op = T_OP_RET => Len(tstack) = Len(sigs[current + 1].rets)
  PROVE  HeightsInv'
<1> DEFINE bytes == <<w_op>>
<1>1. Opcode = t_op /\ Opcode = At(In, t_ip)
  BY AtInstruction
<1>2. tstack' \in ValueStacks /\ arrived' = FALSE /\ ~error
  BY LeavesValues
<1>3. ~is_t_jump(t_op) /\ t_instruction_size(t_op) = 1 /\ t_op \in Final
  BY PlainOps
<1>4. w_op \in Nat /\ w_op = Translation(t_op)
  BY TranslationIs DEF W_OP_EXIT, W_OP_RET
<1>5. bytes \in Seq(Nat) /\ Len(bytes) = 1 /\ At(bytes, 0) = w_op
  BY <1>4 DEF At
<1>6. Emit(bytes)
  OBVIOUS
<1> HIDE DEF bytes
<1>7. Translates(In, t_ip, bytes, 0, Len(locals[current + 1]))
  BY <1>1, <1>4, <1>5, SimplyTranslated
<1>8. Passes(In, t_ip, Len(tstack), t_ip', Len(tstack'), sigs, current + 1)
  BY <1>1, <1>2, <1>3 DEF Passes
<1>9. ~is_t_jump(Opcode) /\ Len(bytes) = t_instruction_size(Opcode)
  BY <1>1, <1>3, <1>5
<1>10. QED
  BY <1>2, <1>5, <1>6, <1>7, <1>8, <1>9, HeightsPlain

LEMMA ExitHeights ==
  ASSUME ModuleOK, CheckInv, CheckInv', HeightsInv, ~had_error, ~had_error', CheckExit
  PROVE  HeightsInv'
<1> DEFINE error == Underflow \/ PoppedType = ErrorType
<1>1. Fetch({T_OP_EXIT}) /\ GoOnAfter(t_ip, Popped, saved, error) /\ Emit(<<W_OP_EXIT>>) /\ Plain
  BY DEF CheckExit
<1>2. Opcode = At(In, t_ip) /\ Opcode = T_OP_EXIT /\ tstack \in ValueStacks
  BY <1>1, AtOperands
<1>3. ~Underflow => Popped \in ValueStacks /\ Len(tstack) \in Nat /\ Len(tstack) >= 1
  BY <1>2, PopValues
<1>4. Popped \in ValueStacks
  BY <1>3 DEF Popped, ValueStacks
<1>5. Taken(In, t_ip, sigs) = 1
  BY <1>2, TakenLeft
<1>6. error \in BOOLEAN /\ (~error => ~Underflow)
  OBVIOUS
<1>7. T_OP_EXIT # T_OP_RET
  BY DEF T_OP_EXIT, T_OP_RET
<1> HIDE DEF error
<1>8. ~error => Taken(In, t_ip, sigs) <= Len(tstack)
  BY <1>3, <1>5, <1>6
<1>9. QED
  BY <1>1, <1>4, <1>6, <1>7, <1>8, LeavesHeights

LEMMA RetHeights ==
  ASSUME ModuleOK, CheckInv, CheckInv', HeightsInv, ~had_error, ~had_error', CheckRet
  PROVE  HeightsInv'
<1> DEFINE error == tstack # sigs[current + 1].rets
<1>1. Fetch({T_OP_RET}) /\ GoOnAfter(t_ip, tstack, saved, error) /\ Emit(<<W_OP_RET>>) /\ Plain
  BY DEF CheckRet
<1>2. Opcode = At(In, t_ip) /\ Opcode = T_OP_RET /\ tstack \in ValueStacks /\ Len(tstack) \in Nat
  BY <1>1, AtOperands
<1>3. Taken(In, t_ip, sigs) = 0
  BY <1>2, TakenLeft
<1>4. error \in BOOLEAN /\ (~error => Len(tstack) = Len(sigs[current + 1].rets))
  OBVIOUS
<1> HIDE DEF error
<1>5. ~error => Taken(In, t_ip, sigs) <= Len(tstack)
  BY <1>2, <1>3
<1>6. QED
  BY <1>1, <1>2, <1>4, <1>5, LeavesHeights

\* The stack is saved at the destination the checker is at.
LEMMA MeasuredArrives ==
  ASSUME NEW block, NEW dests, Flows(block, dests), NEW len, NEW ip \in dests, NEW n, NEW stacks,
         NEW stacks2, NEW s, NEW f, NEW H,
         Measured(block, dests, From(dests, ip), len, ip, n, stacks, s, f, H), H[ip] = n,
         \A d \in dests : d # ip => stacks2[d] = stacks[d],
         stacks2[ip] # NotSaved, Len(stacks2[ip]) = n
  PROVE  Measured(block, dests, Ahead(dests, ip), len, ip, n, stacks2, s, f, H)
<1>1. dests \subseteq Nat
  BY DEF Flows, WholeBlock, Whole
<1>2. ASSUME NEW d \in dests, stacks2[d] # NotSaved PROVE Len(stacks2[d]) = H[d]
  <2>1. CASE d = ip
    BY <2>1
  <2>2. CASE d # ip
    BY <1>2, <2>2 DEF Measured
  <2>3. QED
    BY <2>1, <2>2
<1>3. ASSUME NEW d \in dests \ Ahead(dests, ip) PROVE stacks2[d] # NotSaved
  <2>1. CASE d = ip
    BY <2>1
  <2>2. CASE d # ip
    <3>1. d \in dests \ From(dests, ip)
      BY <1>1, <2>2 DEF Ahead, From
    <3>2. QED
      BY <2>2, <3>1 DEF Measured
  <2>3. QED
    BY <2>1, <2>2
<1>4. QED
  BY <1>2, <1>3 DEF Measured

LEMMA ArriveHeights ==
  ASSUME ModuleOK, CheckInv, CheckInv', HeightsInv, ~had_error, ~had_error', Arrive
  PROVE  HeightsInv'
<1> DEFINE forward == IsSaved(t_ip)
           srcs    == wir_srcs[t_ip]
           targets == w_jumps[current + 1]
           out2    == ArrivedOut(Out, saved[t_ip], srcs)
<1>1. check_status = "checking" /\ t_ip < Len(In) /\ t_ip \in Jumps /\ ~arrived
  BY DEF Arrive
<1>2. /\ Flows(In, Jumps) /\ WholeBlock(In) /\ current + 1 \in 1..Len(t_code) /\ Len(Out) \in Nat
      /\ tstack \in Stacks /\ t_ip \in TStarts(In) /\ WholeCode("w", Out)
      /\ w_code \in [1..Len(t_code) -> Seq(Nat)]
  BY <1>1, TheFunction DEF CheckInv, Flows
<1>3. Pending = From(Jumps, t_ip)
  BY <1>1 DEF Pending
<1>4. /\ Progress(In, Jumps, From(Jumps, t_ip), Out, t_ip, saved, wir_dests, wir_srcs)
      /\ Mirror(In, Jumps, From(Jumps, t_ip), Out, t_ip, wir_dests, wir_srcs, targets)
  BY <1>1, <1>3 DEF CheckInv, InFunction
<1>5. HeightsHere
  BY <1>1 DEF HeightsInv
<1>6. CASE check_status' # "checking"
  <2>1. check_status' = "assert"
    BY <1>1, <1>6 DEF Arrive, Abort
  <2>2. QED
    BY <2>1 DEF HeightsInv
<1>7. CASE check_status' = "checking"
  <2>1. /\ arrived' = TRUE
        /\ saved' = IF forward THEN saved ELSE [saved EXCEPT ![t_ip] = tstack]
        /\ forward => saved[t_ip] = tstack
        /\ w_code' = IF forward THEN [w_code EXCEPT ![current + 1] = PatchAll(@, srcs, Len(@))] ELSE w_code
        /\ UNCHANGED <<t_code, t_jumps, sigs, locals, check_status, current, t_ip, tstack, wir_srcs>>
    BY <1>7 DEF Arrive, Abort, input
  <2>2. w_code' = [w_code EXCEPT ![current + 1] = out2]
    <3>1. CASE forward
      BY <2>1, <3>1 DEF ArrivedOut, IsSaved, Out
    <3>2. CASE ~forward
      <4>1. out2 = Out
        BY <3>2 DEF ArrivedOut, IsSaved
      <4>2. w_code = [w_code EXCEPT ![current + 1] = Out]
        BY <1>2 DEF Out
      <4>3. QED
        BY <2>1, <3>2, <4>1, <4>2
    <3>3. QED
      BY <3>1, <3>2
  <2>3. In' = In /\ Jumps' = Jumps
    BY <2>1 DEF In, Jumps
  <2>4. Pending' = Ahead(Jumps, t_ip)
    BY <2>1, <2>3 DEF Pending
  <2>5. saved \in [Jumps -> Stacks \cup {NotSaved}]
    BY <1>4 DEF Progress, Tables
  <2>6. /\ \A d \in Jumps : d # t_ip => saved'[d] = saved[d]
        /\ saved'[t_ip] = tstack
    BY <1>1, <2>1, <2>5
  <2>7. \A d \in Jumps : saved'[d] # NotSaved => saved'[d] \in ValueStacks
    <3>1. tstack \in ValueStacks /\ \A d \in Jumps : saved[d] # NotSaved => saved[d] \in ValueStacks
      BY <1>5 DEF HeightsHere
    <3>2. QED
      BY <2>6, <3>1
  <2>8. Translated(In, out2, Len(locals[current + 1])) /\ Len(out2) = Len(Out)
    <3>1. Translated(In, Out, Len(locals[current + 1]))
      BY <1>5 DEF HeightsHere
    <3>2. Len(Out) = t_ip
      BY <1>2, <1>4, MirrorAt
    <3>3. CASE forward
      <4>1. out2 = PatchAll(Out, srcs, Len(Out))
        BY <3>3 DEF ArrivedOut, IsSaved
      <4>2. /\ srcs \subseteq WJumps(Out)
            /\ Len(Out) <= Len(In)
            /\ WJumps(Out) = {j \in TJumps(In) : j < Len(Out)}
        BY <1>1, <1>2, <1>4, WaitedFor DEF Mirror
      <4>3. ASSUME NEW at \in TStarts(In), at < Len(Out) PROVE After("t", In, at) <= Len(Out)
        <5>1. /\ at \in Nat /\ After("t", In, at) \in Nat
              /\ t_ip <= at \/ t_ip >= After("t", In, at)
          BY <1>2, Spaced
        <5>2. QED
          BY <1>2, <3>2, <4>3, <5>1
      <4> HIDE DEF out2, srcs
      <4>4. Translated(In, out2, Len(locals[current + 1]))
        BY <1>2, <3>1, <4>1, <4>2, <4>3, TranslatedPatched
      <4>5. Len(out2) = Len(Out)
        BY <1>2, <4>1, <4>2, PatchWaiting DEF Redirected
      <4>6. QED
        BY <4>4, <4>5
    <3>4. CASE ~forward
      BY <3>1, <3>4 DEF ArrivedOut, IsSaved
    <3>5. QED
      BY <3>3, <3>4
  <2> HIDE DEF out2, srcs
  <2>9. \E H : Measured(In, Jumps, Pending', Len(Out), t_ip, Len(tstack), saved', sigs, current + 1, H)
    <3>1. PICK H1 : Measured(In, Jumps, From(Jumps, t_ip), Len(Out), t_ip, Len(tstack), saved, sigs,
                             current + 1, H1)
      BY <1>3, <1>5 DEF HeightsHere
    <3>2. Waiting(Out, From(Jumps, t_ip), saved, wir_srcs)
      BY <1>4 DEF Progress
    <3>3. t_ip \in Jumps /\ saved[t_ip] # NotSaved => Len(saved[t_ip]) = Len(tstack)
      BY <2>1 DEF IsSaved
    <3>4. Len(tstack) \in Nat
      BY <1>2, LenProperties DEF Stacks
    <3>5. PICK H : /\ Measured(In, Jumps, From(Jumps, t_ip), Len(Out), t_ip, Len(tstack), saved, sigs,
                               current + 1, H)
                   /\ H[t_ip] = Len(tstack)
      BY <1>2, <1>4, <3>1, <3>2, <3>3, <3>4, Settles
    <3>6. PICK stacks2 : stacks2 = saved'
      OBVIOUS
    <3>7. /\ \A d \in Jumps : d # t_ip => stacks2[d] = saved[d]
          /\ stacks2[t_ip] # NotSaved /\ Len(stacks2[t_ip]) = Len(tstack)
      BY <1>2, <2>6, <3>6, NotSavedIsNoStack
    <3>8. Measured(In, Jumps, Ahead(Jumps, t_ip), Len(Out), t_ip, Len(tstack), stacks2, sigs, current + 1, H)
      BY <1>1, <1>2, <3>5, <3>7, MeasuredArrives
    <3>9. QED
      BY <2>4, <3>6, <3>8
  <2>10. arrived' => saved'[t_ip'] = tstack'
    BY <2>1, <2>6
  <2>11. tstack' \in ValueStacks
    BY <1>5, <2>1 DEF HeightsHere
  <2>12. HeightsWithin(out2)
    BY <2>1, <2>2, <2>7, <2>8, <2>9, <2>10, <2>11 DEF HeightsWithin
  <2>13. QED
    BY <1>1, <2>12, HeightsWithinKeeps
<1>8. QED
  BY <1>6, <1>7

\* A function begins.
LEMMA BeginsHeights ==
  ASSUME ModuleOK, ModuleComplete, NEW f \in Nat, f < Len(t_code), StartFunction(f), UNCHANGED input,
         w_code'[f + 1] = <<>>
  PROVE  HeightsHere'
<1> DEFINE block  == t_code[f + 1]
           dests  == t_jumps[f + 1]
           stacks == [dest \in dests |-> NotSaved]
           params == sigs[f + 1].params
<1>1. f + 1 \in 1..Len(t_code) /\ Flows(block, dests) /\ params \in ValueStacks
  <2>1. Len(t_code) \in Nat
    BY LenProperties DEF ModuleOK
  <2>2. f + 1 \in 1..Len(t_code)
    BY <2>1
  <2>3. QED
    BY <2>2 DEF ModuleOK, ModuleComplete
<1>2. /\ current' = f /\ t_ip' = 0 /\ tstack' = params /\ arrived' = FALSE
      /\ saved' = stacks
      /\ t_code' = t_code /\ t_jumps' = t_jumps /\ sigs' = sigs /\ locals' = locals
  BY DEF StartFunction, input
<1>3. In' = block /\ Jumps' = dests /\ Out' = <<>>
  BY <1>2 DEF In, Jumps, Out
<1>4. Len(params) \in Nat /\ dests \subseteq Nat /\ TStarts(block) \subseteq Nat
  BY <1>1, LenProperties DEF ValueStacks, Flows, WholeBlock, Whole
<1>5. \A d \in dests : stacks[d] = NotSaved
  OBVIOUS
<1> HIDE DEF block, dests, stacks, params
<1>6. Pending' = From(dests, 0)
  BY <1>2, <1>3 DEF Pending
<1>7. Len(<<>>) = 0 /\ \A at \in TStarts(block) : ~(at < Len(<<>>))
  <2>1. Len(<<>>) = 0
    OBVIOUS
  <2>2. QED
    BY <1>4, <2>1
<1>8. Translated(block, <<>>, Len(locals[f + 1]))
  BY <1>7 DEF Translated
<1>9. \E H : Measured(block, dests, From(dests, 0), Len(<<>>), 0, Len(params), stacks, sigs, f + 1, H)
  <2>1. PICK H : H = [x \in Nat |-> Len(params)]
    OBVIOUS
  <2>2. H \in [Nat -> Nat] /\ H[0] = Len(params)
    BY <1>4, <2>1
  <2>3. dests \ From(dests, 0) = {}
    <3>1. ASSUME NEW d \in dests PROVE d \in From(dests, 0)
      BY <1>4 DEF From
    <3>2. QED
      BY <3>1
  <2>4. Len(params) = Len(sigs[f + 1].params)
    BY DEF params
  <2>5. Measured(block, dests, From(dests, 0), Len(<<>>), 0, Len(params), stacks, sigs, f + 1, H)
    BY <1>5, <1>7, <2>2, <2>3, <2>4 DEF Measured
  <2>6. QED
    BY <2>5
<1>10. tstack' \in ValueStacks'
  BY <1>1, <1>2 DEF ValueStacks, IntType, WordType
<1>11. \A d \in Jumps' : saved'[d] # NotSaved' => saved'[d] \in ValueStacks'
  BY <1>2, <1>3, <1>5 DEF NotSaved
<1>12. Translated(In', Out', Len(locals'[current' + 1]))
  BY <1>2, <1>3, <1>8
<1>13. \E H : Measured(In', Jumps', Pending', Len(Out'), t_ip', Len(tstack'), saved', sigs', current' + 1, H)
  BY <1>2, <1>3, <1>6, <1>9
<1>14. ~arrived'
  BY <1>2
<1>15. QED
  BY <1>10, <1>11, <1>12, <1>13, <1>14 DEF HeightsHere

\* A function ends: nothing falls through its end, since it ends with a RET.
LEMMA EndsSound ==
  ASSUME NEW block, NEW dests, Flows(block, dests), NEW pending, NEW out, WholeCode("w", out),
         NEW ip \in Nat, ip >= Len(block), NEW n, NEW stacks, NEW size, NEW s, NEW f, NEW H,
         Measured(block, dests, pending, Len(out), ip, n, stacks, s, f, H),
         Translated(block, out, size),
         Len(block) - 1 \in TStarts(block), At(block, Len(block) - 1) = T_OP_RET
  PROVE  Sound(block, out, size, s, f)
<1>1. WholeBlock(block) /\ Len(block) \in Nat /\ Len(out) \in Nat
  BY Spaced, LenProperties DEF Flows, WholeCode
<1>2. Len(block) > 0
  BY <1>1, Spaced
<1>3. Len(out) > 0
  BY <1>1, <1>2 DEF Measured
<1>4. ASSUME NEW at \in TStarts(block), at < Len(out)
      PROVE  SoundAt(block, Len(out), s, f, H, at)
  <2>1. MeasuredAt(block, Len(out), ip, n, s, f, H, at)
    BY <1>4 DEF Measured
  <2>2. /\ at \in Nat /\ After("t", block, at) \in Nat /\ After("t", block, at) <= Len(block)
        /\ Len(block) - 1 <= at \/ Len(block) - 1 >= After("t", block, at)
        /\ After("t", block, at) > at
    BY <1>1, Spaced
  <2>3. ASSUME At(block, at) \notin Final, ~(After("t", block, at) < Len(out)) PROVE FALSE
    <3>1. After("t", block, at) >= Len(out)
      BY <1>1, <2>2, <2>3
    <3>2. After("t", block, at) = ip
      BY <2>1, <2>3, <3>1 DEF MeasuredAt
    <3>3. at = Len(block) - 1
      BY <1>1, <2>2, <3>2
    <3>4. QED
      BY <2>3, <3>3 DEF Final
  <2>4. QED
    BY <2>1, <2>3, Zenon DEF MeasuredAt, SoundAt
<1>5. QED
  BY <1>3, <1>4 DEF Sound, Measured

LEMMA StartHeights ==
  ASSUME ModuleOK, ModuleComplete, CheckInv, HeightsInv, Start
  PROVE  HeightsInv'
<1>1. /\ check_status' = "checking" /\ StartFunction(0)
      /\ w_code' = [f \in DOMAIN t_code |-> <<>>]
      /\ UNCHANGED input
  BY DEF Start
<1>2. DOMAIN t_code = 1..Len(t_code) /\ Len(t_code) \in Nat /\ 0 < Len(t_code)
  BY LenProperties, EmptySeq DEF ModuleOK
<1>3. w_code'[0 + 1] = <<>>
  BY <1>1, <1>2
<1>4. HeightsHere' /\ current' = 0
  BY <1>1, <1>2, <1>3, BeginsHeights DEF StartFunction
<1>5. AllSound(current)'
  BY <1>4 DEF AllSound
<1>6. QED
  BY <1>1, <1>4, <1>5 DEF HeightsInv

LEMMA NextFunctionHeights ==
  ASSUME ModuleOK, ModuleComplete, CheckInv, HeightsInv, ~had_error, NextFunction
  PROVE  HeightsInv'
<1> DEFINE cur == current + 1
<1>1. check_status = "checking" /\ t_ip >= Len(In)
  BY DEF NextFunction
<1>2. /\ current \in Nat /\ current < Len(t_code) /\ Len(t_code) \in Nat /\ cur \in 1..Len(t_code)
      /\ Flows(In, Jumps) /\ t_ip \in Nat /\ WholeCode("w", Out)
      /\ \A f \in 1..Len(t_code) : f > cur => w_code[f] = <<>>
  BY <1>1, TheFunction DEF CheckInv
<1>3. HeightsHere /\ AllSound(current)
  BY <1>1 DEF HeightsInv
<1>4. /\ w_code' = w_code /\ UNCHANGED input
      /\ t_code' = t_code /\ sigs' = sigs /\ locals' = locals
      /\ IF current + 1 < Len(t_code)
         THEN StartFunction(current + 1) /\ UNCHANGED check_status
         ELSE check_status' = IF had_error THEN "type_error" ELSE "ok"
  BY DEF NextFunction, input
<1>5. AllSound(cur)
  <2>1. PICK H : Measured(In, Jumps, Pending, Len(Out), t_ip, Len(tstack), saved, sigs, cur, H)
    BY <1>3 DEF HeightsHere
  <2>2. Translated(In, Out, Len(locals[cur]))
    BY <1>3 DEF HeightsHere
  <2>3. Len(In) - 1 \in TStarts(In) /\ At(In, Len(In) - 1) = T_OP_RET
    BY <1>2 DEF ModuleComplete, In
  <2>4. Sound(In, Out, Len(locals[cur]), sigs, cur)
    BY <1>1, <1>2, <2>1, <2>2, <2>3, EndsSound
  <2>5. \A f \in 1..cur : f = cur \/ f \in 1..current
    BY <1>2
  <2>6. QED
    BY <1>3, <2>4, <2>5 DEF AllSound, In, Out
<1>6. \A f \in 1..cur : Sound(t_code'[f], w_code'[f], Len(locals'[f]), sigs', f)
  BY <1>4, <1>5 DEF AllSound
<1>7. CASE cur < Len(t_code)
  <2>1. StartFunction(cur) /\ check_status' = "checking"
    BY <1>1, <1>4, <1>7
  <2>2. cur \in Nat /\ cur + 1 \in 1..Len(t_code) /\ cur + 1 > cur
    BY <1>2, <1>7
  <2>3. w_code'[cur + 1] = <<>>
    BY <1>2, <1>4, <2>2
  <2> HIDE DEF cur
  <2>4. HeightsHere'
    BY <1>4, <1>7, <2>1, <2>2, <2>3, BeginsHeights
  <2>5. current' = cur
    BY <2>1 DEF StartFunction
  <2>6. AllSound(current)'
    BY <1>6, <2>5 DEF AllSound
  <2>7. QED
    BY <2>1, <2>4, <2>6 DEF HeightsInv
<1>8. CASE ~(cur < Len(t_code))
  <2>1. check_status' = "ok"
    BY <1>4, <1>8
  <2>2. cur = Len(t_code)
    BY <1>2, <1>8
  <2>3. AllSound(Len(t_code))'
    BY <1>4, <1>6, <2>2 DEF AllSound
  <2>4. QED
    BY <2>1, <2>3 DEF HeightsInv
<1>9. QED
  BY <1>7, <1>8

\* What the module promises stays.
LEMMA CompleteStays ==
  ASSUME ModuleComplete, UNCHANGED input
  PROVE  ModuleComplete'
<1>1. t_code' = t_code /\ sigs' = sigs /\ locals' = locals
  BY DEF input
<1>2. QED
  BY <1>1 DEF ModuleComplete, ValueStacks, IntType, WordType

\* An error stays, and keeps the module from being accepted.
LEMMA ErrorsStay ==
  ASSUME CheckStep
  PROVE  /\ had_error => had_error'
         /\ had_error' => check_status' # "ok"
<1>1. ASSUME CheckPush \/ CheckPop \/ CheckDupe \/ CheckGetLoopVar \/ CheckLocalGet \/ CheckCall
      PROVE  (had_error => had_error') /\ check_status' = "checking"
  BY <1>1 DEF CheckPush, CheckPop, CheckDupe, CheckGetLoopVar, CheckLocalGet, CheckCall, Fetch,
     FallThrough, Plain
<1>2. ASSUME CheckLocalSet
      PROVE  (had_error => had_error') /\ check_status' \in {"checking", "exit"}
  BY <1>2 DEF CheckLocalSet, Fetch, FallThrough, Plain, Abort
<1>3. ASSUME CheckConditionalJump \/ CheckForUpdate
      PROVE  (had_error => had_error') /\ check_status' \in {"checking", "assert"}
  BY <1>3 DEF CheckConditionalJump, CheckForUpdate, Fetch, FallThrough, Abort
<1>4. ASSUME CheckJump
      PROVE  (had_error => had_error') /\ check_status' \in {"checking", "assert"}
  BY <1>4 DEF CheckJump, Fetch, GoOnAfter, Abort
<1>5. ASSUME CheckExit \/ CheckRet
      PROVE  (had_error => had_error') /\ check_status' = "checking"
  BY <1>5 DEF CheckExit, CheckRet, Fetch, GoOnAfter, Plain
<1>6. ASSUME Arrive
      PROVE  (had_error => had_error') /\ check_status' \in {"checking", "assert"}
  BY <1>6 DEF Arrive, Abort
<1>7. ASSUME Start
      PROVE  (had_error => had_error') /\ check_status' = "checking"
  BY <1>7 DEF Start
<1>8. ASSUME NextFunction
      PROVE  (had_error => had_error') /\ (had_error' => check_status' # "ok")
  BY <1>8 DEF NextFunction
<1>9. QED
  BY <1>1, <1>2, <1>3, <1>4, <1>5, <1>6, <1>7, <1>8, SMTT(40) DEF CheckStep

LEMMA HeightsStepKeeps ==
  ASSUME ModuleOK, ModuleComplete, CheckInv, HeightsInv, CheckStep
  PROVE  HeightsInv'
<1>1. CheckInv'
  BY CheckStepKeeps
<1>2. CASE had_error'
  BY <1>2, ErrorsStay DEF HeightsInv
<1>3. CASE ~had_error'
  <2>1. ~had_error
    BY <1>3, ErrorsStay
  <2>2. QED
    BY <1>1, <1>3, <2>1, StartHeights, NextFunctionHeights, ArriveHeights, PushHeights, PopHeights,
       DupeHeights, GetLoopVarHeights, LocalGetHeights, LocalSetHeights, CallHeights,
       ConditionalJumpHeights, ForUpdateHeights, JumpHeights, ExitHeights, RetHeights DEF CheckStep
<1>4. QED
  BY <1>2, <1>3

LEMMA HeightsStutter ==
  ASSUME ModuleComplete, HeightsInv, UNCHANGED vars
  PROVE  ModuleComplete' /\ HeightsInv'
<1>1. /\ UNCHANGED input /\ t_code' = t_code /\ t_jumps' = t_jumps /\ sigs' = sigs /\ locals' = locals
      /\ check_status' = check_status /\ current' = current /\ t_ip' = t_ip /\ tstack' = tstack
      /\ had_error' = had_error /\ arrived' = arrived /\ saved' = saved /\ w_code' = w_code
  BY DEF vars, input, checker
<1>2. In' = In /\ Jumps' = Jumps /\ Out' = Out
  BY <1>1 DEF In, Jumps, Out
<1>3. Pending' = Pending
  BY <1>1, <1>2 DEF Pending
<1>4. HeightsHere => HeightsHere'
  BY <1>1, <1>2, <1>3 DEF HeightsHere, ValueStacks, IntType, WordType, NotSaved
<1>5. HeightsInv'
  BY <1>1, <1>4 DEF HeightsInv, AllSound
<1>6. QED
  BY <1>1, <1>5, CompleteStays

\* type_check: for every module with the code the compiler promises, what is accepted is
\* translated instruction by instruction, and the interpreter's stack has one height at
\* every instruction, whichever way control gets there: enough for what the instruction
\* takes, and at a RET exactly the results of the function.
THEOREM AcceptedCodeIsTyped ==
  ModuleOK /\ ModuleComplete /\ CheckSpec => [](check_status = "ok" => AllSound(Len(t_code)))
<1> DEFINE Inv == ModuleOK /\ ModuleComplete /\ CheckInv /\ HeightsInv
<1>1. ModuleOK /\ ModuleComplete /\ CheckerInit => Inv
  BY DEF CheckerInit, CheckInv, HeightsInv
<1>2. Inv /\ [CheckStep]_vars => Inv'
  <2>1. SUFFICES ASSUME Inv, CheckStep \/ UNCHANGED vars PROVE Inv'
    OBVIOUS
  <2>2. CASE CheckStep
    BY <2>1, <2>2, CheckStepKeeps, CheckStepKeepsInput, CompleteStays, HeightsStepKeeps
  <2>3. CASE UNCHANGED vars
    BY <2>1, <2>3, CheckStutter, HeightsStutter
  <2>4. QED
    BY <2>1, <2>2, <2>3
<1>3. Inv => (check_status = "ok" => AllSound(Len(t_code)))
  BY DEF HeightsInv
<1>4. QED
  BY <1>1, <1>2, <1>3, PTL DEF CheckSpec

-----------------------------------------------------------------------------
(* The types of the checker's fields.                                      *)

\* Every opcode of the W-code has its byte.
WordBytesSuffice == W_OP_RET < ByteBase

\* The code of the module is a string of bytes.
ModuleInBytes == \A f \in 1..Len(t_code) : t_code[f] \in Seq(ByteValues)

\* What CheckInv leaves open: the fields when the checker is not at work, and that the
\* W-code is bytes as well.
FieldsInv ==
  /\ current \in Nat /\ t_ip \in Nat /\ tstack \in Stacks /\ arrived \in BOOLEAN
  /\ Len(w_jumps) = Len(w_code)
  /\ check_status = "checking" => \A f \in 1..Len(t_code) : w_code[f] \in Seq(ByteValues)

LEMMA WordOpcodesAreBytes ==
  ASSUME WordBytesSuffice
  PROVE  {W_OP_PUSH8, W_OP_PUSH_INT8, W_OP_POP, W_OP_DUPE, W_OP_EXIT, W_OP_FOR_DEC_START,
          W_OP_FOR_DEC, W_OP_FOR_INC_START, W_OP_FOR_INC, W_OP_GET_LOOP_VAR, W_OP_JUMP,
          W_OP_JUMP_COND, W_OP_JUMP_NCOND, W_OP_LOCAL_GET, W_OP_LOCAL_SET, W_OP_CALL8, W_OP_RET}
           \subseteq ByteValues
BY ByteBaseAssumption
   DEF WordBytesSuffice, ByteValues, W_OP_PUSH8, W_OP_PUSH_INT8, W_OP_POP, W_OP_DUPE, W_OP_EXIT,
       W_OP_FOR_DEC_START, W_OP_FOR_DEC, W_OP_FOR_INC_START, W_OP_FOR_INC, W_OP_GET_LOOP_VAR,
       W_OP_JUMP, W_OP_JUMP_COND, W_OP_JUMP_NCOND, W_OP_LOCAL_GET, W_OP_LOCAL_SET, W_OP_CALL8,
       W_OP_RET

\* The operand of the instruction at hand is bytes of the T-code.
LEMMA OperandsInBytes ==
  ASSUME ModuleOK, CheckInv, ModuleInBytes, NEW ops, Fetch(ops)
  PROVE  /\ t_instruction_size(Opcode) >= 2 => Operand8 \in ByteValues
         /\ t_instruction_size(Opcode) >= 3 => At(In, t_ip + 2) \in ByteValues
<1>1. /\ t_ip \in TStarts(In) /\ Opcode = At(In, t_ip)
      /\ current + 1 \in 1..Len(t_code) /\ WholeBlock(In)
  BY Fetched, TheFunction DEF Flows
<1>2. In \in Seq(ByteValues)
  BY <1>1 DEF ModuleInBytes, In
<1> DEFINE size == t_instruction_size(Opcode)
<1>3. t_ip \in Nat /\ t_ip + size <= Len(In) /\ Len(In) \in Nat /\ size \in {1, 2, 3}
  BY <1>1, OperandBytes
<1> HIDE DEF size
<1>4. size >= 2 => (t_ip + 1) + 1 \in 1..Len(In)
  BY <1>3
<1>5. size >= 3 => (t_ip + 2) + 1 \in 1..Len(In)
  BY <1>3
<1>6. \A i \in 1..Len(In) : In[i] \in ByteValues
  BY <1>2, ElementOfSeq
<1>7. QED
  BY <1>4, <1>5, <1>6 DEF At, Operand8, size

\* A jump that is copied, with its destination or with the placeholder.
LEMMA CopiedInBytes ==
  ASSUME ModuleOK, CheckInv, check_status = "checking", NEW op \in ByteValues, NEW dest \in Jumps
  PROVE  CopiedJump(op, dest) \in Seq(ByteValues)
<1> DEFINE v == IF read_s16(In, t_ip + 1) < 0 THEN wir_dests[dest] - Len(Out) - 1 ELSE 0
<1>1. wir_dests[dest] \in Nat /\ Len(Out) \in Nat
  BY TheFunction DEF CheckInv, InFunction, Progress, Tables
<1>2. v \in Int
  BY <1>1
<1>3. CopiedJump(op, dest) = <<op>> \o U16(v)
  BY DEF CopiedJump
<1> HIDE DEF v
<1>4. QED
  BY <1>2, <1>3, OperandInBytes

\* A patched block.
LEMMA PatchAllInBytes ==
  ASSUME NEW block \in Seq(ByteValues), NEW srcs \in SUBSET Nat, NEW dest \in Nat
  PROVE  PatchAll(block, srcs, dest) \in Seq(ByteValues)
<1> DEFINE owners(i) == {s \in srcs : i \in {s + 2, s + 3}}
           byte(i) == IF owners(i) = {} THEN block[i]
                      ELSE U16(dest - (CHOOSE s \in owners(i) : TRUE) - 1)[i - (CHOOSE s \in owners(i) : TRUE) - 1]
<1>1. Len(block) \in Nat /\ DOMAIN block = 1..Len(block) /\ \A i \in 1..Len(block) : block[i] \in ByteValues
  BY LenProperties, ElementOfSeq
<1>2. ASSUME NEW i \in 1..Len(block)
      PROVE  byte(i) \in ByteValues
  <2>1. CASE owners(i) = {}
    BY <1>1, <2>1
  <2>2. CASE owners(i) # {}
    <3> DEFINE src == CHOOSE s \in owners(i) : TRUE
    <3>1. src \in owners(i)
      BY <2>2
    <3>2. src \in Nat /\ (i = src + 2 \/ i = src + 3)
      BY <3>1
    <3>3. byte(i) = U16(dest - src - 1)[i - src - 1]
      BY <2>2
    <3> HIDE DEF src, byte, owners
    <3>4. dest - src - 1 \in Int /\ (i - src - 1 = 1 \/ i - src - 1 = 2)
      BY <3>2
    <3>5. 0 \in ByteValues
      BY ByteBaseAssumption DEF ByteValues
    <3>6. U16(dest - src - 1)[1] \in ByteValues /\ U16(dest - src - 1)[2] \in ByteValues
      BY <3>4, <3>5, OperandInBytes
    <3>7. QED
      BY <3>3, <3>4, <3>6
  <2>3. QED
    BY <2>1, <2>2
<1>3. PatchAll(block, srcs, dest) = [i \in 1..Len(block) |-> byte(i)]
  BY <1>1, Zenon DEF PatchAll
<1> HIDE DEF byte
<1>4. [i \in 1..Len(block) |-> byte(i)] \in [1..Len(block) -> ByteValues]
  BY <1>2
<1>5. \A n \in Nat : \A s \in [1..n -> ByteValues] : s \in Seq(ByteValues)
  BY IsASeq
<1>6. QED
  BY <1>1, <1>3, <1>4, <1>5

\* What a step writes to the W-code.
WritesBytes ==
  \/ UNCHANGED w_code
  \/ \E block \in Seq(ByteValues) : w_code' = [w_code EXCEPT ![current + 1] = block]

LEMMA EmitsBytes ==
  ASSUME ModuleOK, CheckInv, FieldsInv, check_status = "checking",
         NEW bytes \in Seq(ByteValues), Emit(bytes)
  PROVE  WritesBytes
<1>1. Out \in Seq(ByteValues)
  BY TheFunction DEF FieldsInv, Out
<1>2. w_code' = [w_code EXCEPT ![current + 1] = Out \o bytes]
  BY DEF Emit, Out
<1>3. Out \o bytes \in Seq(ByteValues)
  BY <1>1, ConcatProperties
<1>4. QED
  BY <1>2, <1>3 DEF WritesBytes

LEMMA PlainWritesBytes ==
  ASSUME WordBytesSuffice, ModuleInBytes, ModuleOK, CheckInv, FieldsInv,
         \/ CheckPush \/ CheckPop \/ CheckDupe \/ CheckGetLoopVar \/ CheckLocalGet
         \/ CheckLocalSet \/ CheckCall \/ CheckExit \/ CheckRet
  PROVE  WritesBytes
<1>1. PICK ops : Fetch(ops) /\ check_status = "checking"
  BY DEF CheckPush, CheckPop, CheckDupe, CheckGetLoopVar, CheckLocalGet, CheckLocalSet, CheckCall,
         CheckExit, CheckRet, Fetch
<1>2. /\ t_instruction_size(Opcode) >= 2 => Operand8 \in ByteValues
      /\ t_instruction_size(Opcode) >= 3 => At(In, t_ip + 2) \in ByteValues
  BY <1>1, OperandsInBytes
<1>3. /\ Opcode \in Narrow => t_instruction_size(Opcode) = 2
      /\ Opcode \in Wide => t_instruction_size(Opcode) = 3
  BY DEF Narrow, Wide, is_t_jump, t_instruction_size, T_OP_JUMP, T_OP_JUMP_COND, T_OP_JUMP_NCOND,
       T_OP_FOR_STARTS, T_OP_FOR_UPDATES, T_OP_FOR_DEC_START, T_OP_FOR_INC_START, T_OP_FOR_DEC,
       T_OP_FOR_INC, T_OP_LOCAL_SET, T_OP_LOCAL_GET, T_OP_GET_LOOP_VAR, T_OP_CALL8, T_OP_PUSH8,
       T_OP_PUSH_INT8
<1>4. /\ Opcode \in Narrow => Operand8 \in ByteValues
      /\ Opcode \in Wide => Operand8 \in ByteValues /\ At(In, t_ip + 2) \in ByteValues
  BY <1>2, <1>3
<1>5. {W_OP_PUSH8, W_OP_PUSH_INT8, W_OP_POP, W_OP_DUPE, W_OP_EXIT, W_OP_GET_LOOP_VAR,
       W_OP_LOCAL_GET, W_OP_LOCAL_SET, W_OP_CALL8, W_OP_RET} \subseteq ByteValues
  BY WordOpcodesAreBytes
<1>6. CASE CheckPush
  <2>1. Opcode \in Narrow
    BY <1>6 DEF CheckPush, Fetch, Narrow
  <2>2. PICK op \in {W_OP_PUSH8, W_OP_PUSH_INT8} : Emit(<<op, Operand8>>)
    BY <1>6 DEF CheckPush
  <2>3. <<op, Operand8>> \in Seq(ByteValues)
    BY <1>4, <1>5, <2>1
  <2>4. QED
    BY <1>1, <2>2, <2>3, EmitsBytes
<1>7. CASE CheckPop \/ CheckDupe \/ CheckExit \/ CheckRet
  <2>1. PICK op \in {W_OP_POP, W_OP_DUPE, W_OP_EXIT, W_OP_RET} : Emit(<<op>>)
    BY <1>7 DEF CheckPop, CheckDupe, CheckExit, CheckRet
  <2>2. <<op>> \in Seq(ByteValues)
    BY <1>5
  <2>3. QED
    BY <1>1, <2>1, <2>2, EmitsBytes
<1>8. CASE CheckGetLoopVar \/ CheckLocalGet \/ CheckLocalSet
  <2>1. Opcode \in Wide
    BY <1>8 DEF CheckGetLoopVar, CheckLocalGet, CheckLocalSet, Fetch, Wide
  <2>2. CASE UNCHANGED w_code
    BY <2>2 DEF WritesBytes
  <2>3. CASE \E op \in {W_OP_GET_LOOP_VAR, W_OP_LOCAL_GET, W_OP_LOCAL_SET} :
               Emit(<<op, Operand8, At(In, t_ip + 2)>>)
    <3>1. PICK op \in {W_OP_GET_LOOP_VAR, W_OP_LOCAL_GET, W_OP_LOCAL_SET} :
            Emit(<<op, Operand8, At(In, t_ip + 2)>>)
      BY <2>3
    <3>2. <<op, Operand8, At(In, t_ip + 2)>> \in Seq(ByteValues)
      BY <1>4, <1>5, <2>1
    <3>3. QED
      BY <1>1, <3>1, <3>2, EmitsBytes
  <2>4. QED
    BY <1>8, <2>2, <2>3 DEF CheckGetLoopVar, CheckLocalGet, CheckLocalSet, Abort
<1>9. CASE CheckCall
  <2>1. Opcode \in Narrow /\ Emit(<<W_OP_CALL8, Operand8>>)
    BY <1>9 DEF CheckCall, Fetch, Narrow
  <2>2. <<W_OP_CALL8, Operand8>> \in Seq(ByteValues)
    BY <1>4, <1>5, <2>1
  <2>3. QED
    BY <1>1, <2>1, <2>2, EmitsBytes
<1>10. QED
  BY <1>6, <1>7, <1>8, <1>9

LEMMA JumpWritesBytes ==
  ASSUME WordBytesSuffice, ModuleOK, CheckInv, FieldsInv,
         CheckConditionalJump \/ CheckForUpdate \/ CheckJump
  PROVE  WritesBytes
<1> DEFINE dest == JumpDest(In, t_ip)
           ops  == {W_OP_JUMP, W_OP_JUMP_COND, W_OP_JUMP_NCOND, W_OP_FOR_DEC_START,
                    W_OP_FOR_INC_START, W_OP_FOR_DEC, W_OP_FOR_INC}
<1>1. check_status = "checking"
  BY DEF CheckConditionalJump, CheckForUpdate, CheckJump, Fetch
<1>2. dest \in Jumps
  <2>1. PICK fetched : Fetch(fetched) /\ \A op \in fetched : is_t_jump(op)
    <3>1. \A op \in {T_OP_JUMP, T_OP_JUMP_COND, T_OP_JUMP_NCOND} \cup T_OP_FOR_STARTS
                    \cup T_OP_FOR_UPDATES : is_t_jump(op)
      BY DEF is_t_jump
    <3>2. CASE CheckConditionalJump
      <4>1. Fetch({T_OP_JUMP_COND, T_OP_JUMP_NCOND} \cup T_OP_FOR_STARTS)
        BY <3>2 DEF CheckConditionalJump
      <4>2. QED
        BY <3>1, <4>1
    <3>3. CASE CheckForUpdate
      <4>1. Fetch(T_OP_FOR_UPDATES)
        BY <3>3 DEF CheckForUpdate
      <4>2. QED
        BY <3>1, <4>1
    <3>4. CASE CheckJump
      <4>1. Fetch({T_OP_JUMP})
        BY <3>4 DEF CheckJump
      <4>2. QED
        BY <3>1, <4>1
    <3>5. QED
      BY <3>2, <3>3, <3>4
  <2>2. is_t_jump(Opcode)
    BY <2>1 DEF Fetch
  <2>3. QED
    BY <2>1, <2>2, JumpKnown
<1>3. PICK op \in ops : Emit(CopiedJump(op, dest))
  <2>1. CASE CheckConditionalJump
    <3> DEFINE w_op == CASE Opcode = T_OP_JUMP_COND     -> W_OP_JUMP_COND
                         [] Opcode = T_OP_JUMP_NCOND    -> W_OP_JUMP_NCOND
                         [] Opcode = T_OP_FOR_DEC_START -> W_OP_FOR_DEC_START
                         [] Opcode = T_OP_FOR_INC_START -> W_OP_FOR_INC_START
    <3>1. Opcode \in {T_OP_JUMP_COND, T_OP_JUMP_NCOND, T_OP_FOR_DEC_START, T_OP_FOR_INC_START}
      BY <2>1 DEF CheckConditionalJump, Fetch, T_OP_FOR_STARTS
    <3>2. w_op \in ops
      BY <3>1 DEF T_OP_JUMP_COND, T_OP_JUMP_NCOND, T_OP_FOR_DEC_START, T_OP_FOR_INC_START
    <3>3. Emit(CopiedJump(w_op, dest))
      BY <1>2, <2>1 DEF CheckConditionalJump
    <3> HIDE DEF w_op, dest, ops
    <3>4. QED
      BY <3>2, <3>3
  <2>2. CASE CheckForUpdate
    <3> DEFINE w_op == IF Opcode = T_OP_FOR_DEC THEN W_OP_FOR_DEC ELSE W_OP_FOR_INC
    <3>1. Emit(CopiedJump(w_op, dest))
      BY <1>2, <2>2 DEF CheckForUpdate
    <3>2. w_op \in ops
      OBVIOUS
    <3> HIDE DEF w_op, dest, ops
    <3>3. QED
      BY <3>1, <3>2
  <2>3. CASE CheckJump
    <3>1. Emit(CopiedJump(W_OP_JUMP, dest)) /\ W_OP_JUMP \in ops
      BY <1>2, <2>3 DEF CheckJump
    <3> HIDE DEF dest, ops
    <3>2. QED
      BY <3>1
  <2>4. QED
    BY <2>1, <2>2, <2>3
<1>4. op \in ByteValues
  BY WordOpcodesAreBytes
<1> HIDE DEF dest, ops
<1>5. CopiedJump(op, dest) \in Seq(ByteValues)
  BY <1>1, <1>2, <1>4, CopiedInBytes
<1>6. QED
  BY <1>1, <1>3, <1>5, EmitsBytes

LEMMA ArriveWritesBytes ==
  ASSUME ModuleOK, CheckInv, FieldsInv, Arrive
  PROVE  WritesBytes
<1> DEFINE srcs == wir_srcs[t_ip]
           block == PatchAll(Out, srcs, Len(Out))
<1>1. check_status = "checking" /\ t_ip \in Jumps
  BY DEF Arrive
<1>2. UNCHANGED w_code \/ w_code' = [w_code EXCEPT ![current + 1] = block]
  BY DEF Arrive, Abort, Out
<1>3. Out \in Seq(ByteValues) /\ Len(Out) \in Nat
  BY <1>1, TheFunction DEF FieldsInv, Out
<1>4. srcs \in SUBSET Nat
  BY <1>1 DEF CheckInv, InFunction, Progress, Tables
<1> HIDE DEF srcs
<1>5. block \in Seq(ByteValues)
  BY <1>3, <1>4, PatchAllInBytes
<1> HIDE DEF block
<1>6. QED
  BY <1>2, <1>5 DEF WritesBytes

LEMMA CheckStepWritesBytes ==
  ASSUME WordBytesSuffice, ModuleInBytes, ModuleOK, CheckInv, FieldsInv, CheckStep, ~Start
  PROVE  WritesBytes
<1>1. CASE NextFunction
  BY <1>1 DEF NextFunction, WritesBytes
<1>2. QED
  BY <1>1, PlainWritesBytes, JumpWritesBytes, ArriveWritesBytes, Zenon DEF CheckStep

\* Where the checker stops, it leaves its fields alone.
LEMMA StopsWithFields ==
  ASSUME CheckStep, check_status' # "checking"
  PROVE  UNCHANGED <<current, t_ip, tstack, arrived, w_code, w_jumps>>
<1>1. CASE NextFunction
  BY <1>1 DEF NextFunction
<1>2. CASE Arrive
  BY <1>2 DEF Arrive, Abort
<1>3. CASE CheckConditionalJump \/ CheckForUpdate \/ CheckJump
  BY <1>3 DEF CheckConditionalJump, CheckForUpdate, CheckJump, Abort, Fetch
<1>4. CASE CheckLocalSet
  BY <1>4 DEF CheckLocalSet, Abort, Plain, Fetch
<1>5. CASE CheckPush \/ CheckPop \/ CheckDupe \/ CheckGetLoopVar \/ CheckLocalGet \/ CheckCall
           \/ CheckExit \/ CheckRet
  BY <1>5 DEF CheckPush, CheckPop, CheckDupe, CheckGetLoopVar, CheckLocalGet, CheckCall,
              CheckExit, CheckRet, Plain, Fetch
<1>6. CASE Start
  BY <1>6 DEF Start
<1>7. QED
  BY <1>1, <1>2, <1>3, <1>4, <1>5, <1>6 DEF CheckStep

\* The fields of a checker at work.
LEMMA FieldsAtWork ==
  ASSUME CheckInv, check_status = "checking", Len(t_code) \in Nat
  PROVE  /\ current \in Nat /\ t_ip \in Nat /\ tstack \in Stacks /\ arrived \in BOOLEAN
         /\ Len(w_jumps) = Len(w_code) /\ Len(w_code) = Len(t_code)
<1>1. /\ current \in Nat /\ tstack \in Stacks /\ arrived \in BOOLEAN /\ t_ip \in Nat
      /\ w_code \in [1..Len(t_code) -> Seq(Nat)]
      /\ w_jumps \in [1..Len(t_code) -> SUBSET Nat]
  BY DEF CheckInv, InFunction, Progress
<1>2. Len(w_code) = Len(t_code) /\ Len(w_jumps) = Len(t_code)
  BY <1>1
<1>3. QED
  BY <1>1, <1>2

LEMMA CheckStepKeepsFields ==
  ASSUME WordBytesSuffice, ModuleInBytes, ModuleOK, CheckInv, FieldsInv, CheckStep
  PROVE  FieldsInv'
<1>1. CASE check_status' # "checking"
  BY <1>1, StopsWithFields DEF FieldsInv
<1>2. CASE check_status' = "checking"
  <2>1. CheckInv' /\ t_code' = t_code /\ Len(t_code) \in Nat
    BY CheckStepKeeps, CheckStepKeepsInput, LenProperties DEF input, ModuleOK
  <2>2. /\ current' \in Nat /\ tstack' \in Stacks /\ arrived' \in BOOLEAN /\ t_ip' \in Nat
        /\ w_code' \in [1..Len(t_code) -> Seq(Nat)]
        /\ w_jumps' \in [1..Len(t_code) -> SUBSET Nat]
    BY <1>2, <2>1 DEF CheckInv, InFunction, Progress
  <2>3. Len(w_code') = Len(t_code) /\ Len(w_jumps') = Len(t_code)
    BY <2>1, <2>2
  <2>4. \A f \in 1..Len(t_code) : w_code'[f] \in Seq(ByteValues)
    <3>1. CASE Start
      <4>1. w_code' = [f \in DOMAIN t_code |-> <<>>] /\ DOMAIN t_code = 1..Len(t_code)
        BY <3>1, LenProperties DEF Start, ModuleOK
      <4>2. <<>> \in Seq(ByteValues)
        OBVIOUS
      <4>3. QED
        BY <4>1, <4>2
    <3>2. CASE ~Start
      <4>1. WritesBytes /\ check_status = "checking"
        <5>1. check_status = "checking"
          BY <3>2 DEF CheckStep, NextFunction, Arrive, CheckPush, CheckPop, CheckDupe,
                      CheckGetLoopVar, CheckLocalGet, CheckLocalSet, CheckCall,
                      CheckConditionalJump, CheckForUpdate, CheckJump, CheckExit, CheckRet, Fetch
        <5>2. QED
          BY <3>2, <5>1, CheckStepWritesBytes
      <4>2. /\ \A f \in 1..Len(t_code) : w_code[f] \in Seq(ByteValues)
            /\ w_code \in [1..Len(t_code) -> Seq(Nat)]
        BY <4>1 DEF FieldsInv, CheckInv
      <4>3. CASE UNCHANGED w_code
        BY <4>2, <4>3
      <4>4. ASSUME NEW block \in Seq(ByteValues), w_code' = [w_code EXCEPT ![current + 1] = block]
            PROVE  \A f \in 1..Len(t_code) : w_code'[f] \in Seq(ByteValues)
        BY <4>2, <4>4, Zenon
      <4>5. QED
        BY <4>1, <4>3, <4>4 DEF WritesBytes
    <3>3. QED
      BY <3>1, <3>2
  <2>5. QED
    BY <2>1, <2>2, <2>3, <2>4 DEF FieldsInv
<1>3. QED
  BY <1>1, <1>2

LEMMA ModuleStaysInBytes ==
  ASSUME ModuleInBytes, UNCHANGED input
  PROVE  ModuleInBytes'
BY DEF ModuleInBytes, input

LEMMA InvFields ==
  ASSUME ModuleOK, CheckInv, FieldsInv
  PROVE  CheckerTypeOK
<1>1. CASE check_status # "checking"
  BY <1>1 DEF CheckInv, FieldsInv, CheckerTypeOK, Stacks
<1>2. CASE check_status = "checking"
  <2>1. Len(t_code) \in Nat /\ current + 1 \in 1..Len(t_code)
    BY <1>2, TheFunction
  <2>2. Len(w_code) = Len(t_code)
    BY <1>2, <2>1, FieldsAtWork
  <2>3. /\ saved \in [Jumps -> Stacks \cup {NotSaved}]
        /\ wir_dests \in [Jumps -> Nat]
        /\ wir_srcs \in [Jumps -> SUBSET Nat]
    BY <1>2 DEF CheckInv, InFunction, Progress, Tables
  <2>4. w_code[current + 1] \in Seq(0..(ByteBase - 1))
    BY <1>2, <2>1 DEF FieldsInv, ByteValues
  <2>5. current < Len(t_code)
    BY <1>2 DEF CheckInv
  <2>6. check_status \in {"idle", "checking", "ok", "type_error", "exit", "assert"} /\ had_error \in BOOLEAN
    BY DEF CheckInv
  <2>7. QED
    BY <2>2, <2>3, <2>4, <2>5, <2>6 DEF FieldsInv, CheckerTypeOK, Stacks
<1>3. QED
  BY <1>1, <1>2

LEMMA InitHasFields ==
  ASSUME CheckerInit
  PROVE  FieldsInv
<1>1. /\ current = 0 /\ t_ip = 0 /\ tstack = <<>> /\ arrived = FALSE
      /\ w_code = <<>> /\ w_jumps = <<>> /\ check_status = "idle"
  BY DEF CheckerInit
<1>2. <<>> \in Stacks
  BY DEF Stacks
<1>3. QED
  BY <1>1, <1>2 DEF FieldsInv

\* The checker's fields hold what they can hold, the W-code is a string of bytes, and the
\* tables of start_function have an entry for each destination of the function at hand.
THEOREM CheckerTypeCorrect ==
  ASSUME WordBytesSuffice
  PROVE  ModuleOK /\ ModuleInBytes /\ CheckSpec => []CheckerTypeOK
<1>1. CheckerInit => CheckInv /\ FieldsInv
  BY InitHasFields DEF CheckerInit, CheckInv
<1>2. ASSUME ModuleOK, ModuleInBytes, CheckInv, FieldsInv, [CheckStep]_vars
      PROVE  ModuleOK' /\ ModuleInBytes' /\ CheckInv' /\ FieldsInv'
  <2>1. CASE CheckStep
    BY <1>2, <2>1, CheckStepKeeps, CheckStepKeepsInput, CheckStepKeepsFields, ModuleStaysInBytes
  <2>2. CASE UNCHANGED vars
    <3>1. UNCHANGED <<input, current, t_ip, tstack, arrived, w_code, w_jumps, check_status, t_code>>
      BY <2>2 DEF vars, checker, input
    <3>2. FieldsInv'
      BY <1>2, <3>1 DEF FieldsInv
    <3>3. QED
      BY <1>2, <2>2, <3>1, <3>2, CheckStutter, ModuleStaysInBytes
  <2>3. QED
    BY <1>2, <2>1, <2>2
<1>3. ModuleOK /\ CheckInv /\ FieldsInv => CheckerTypeOK
  BY InvFields
<1>4. QED
  BY <1>1, <1>2, <1>3, PTL DEF CheckSpec
=============================================================================
