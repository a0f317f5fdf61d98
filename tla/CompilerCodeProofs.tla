------------------------- MODULE CompilerCodeProofs --------------------------
(***************************************************************************)
(* Proofs about the code the compiler emits, for every program however     *)
(* long, every set of names, literals and signatures and every byte size:  *)
(* while it compiles, the jumps that hold the placeholder are those the    *)
(* open constructs owe; when it has compiled, every jump lands on an       *)
(* instruction, the jump tables are exact, and counted loops are closed.   *)
(*                                                                         *)
(* None of the three is inductive.  What is, CodeInv, says of the block of *)
(* every function, at every moment, that                                   *)
(*   - it is a whole number of instructions;                               *)
(*   - its placeholders are the jumps owed by the frames that work in it,  *)
(*     and its table holds the destinations of the others;                 *)
(*   - no jump that has its destination passes over an owed one, and the   *)
(*     counted loops that are closed stay so, wherever what is owed will   *)
(*     be patched to lead (Linked);                                        *)
(*   - the frames remember the instructions they emitted (Shaped), and lie *)
(*     above one another in the order they were opened (Ordered).          *)
(* EndsInv adds that nothing lands behind the last instruction of a        *)
(* function whose definition has ended.                                    *)
(* LevelsInv gives every instruction of every block the number of          *)
(* loop-stack slots that are open when control gets there, by whichever    *)
(* way, and puts operands within bounds; LastInv has the RET in which the  *)
(* code of a function ends.                                                *)
(*                                                                         *)
(* The first sections are about blocks and stacks of frames and mention no *)
(* action; an action's proof picks the lemma for what it does to a block   *)
(* (append, owe, patch, close a loop) and the one for its effect on `ctx'. *)
(***************************************************************************)
EXTENDS CompilerProofs, IrProofs

\* The offsets an open construct keeps besides the jumps it owes: a jump back, or
\* the end of the `then' body, will land there.
Labels(frame) ==
  CASE frame.kind \in {"else", "elif"} -> {frame.body}
    [] frame.kind \in {"while_cond", "while_body"} -> {frame.start}
    [] frame.kind = "for_body" -> {frame.body}
    [] OTHER -> {}

\* The frames of c that work in the block of function f.
FramesOf(c, f) == {c[i] : i \in {j \in DOMAIN c : c[j].func = f}}

\* What these frames owe, and where they will lead it.
OwedIn(frames) == UNION {Owed(frame) : frame \in frames}
LabelsIn(frames) == UNION {Labels(frame) : frame \in frames}

\* The counted loop that starts at s is closed, in a block of which `resolved' are
\* the jumps that have a destination and `owed' those that have none yet: nothing
\* that is still to be patched, and nowhere it may lead, is inside the loop.
LoopClosed(block, resolved, owed, labels, s) ==
  LET exit   == JumpDest(block, s)
      update == exit - 3
  IN  /\ s + 3 <= update
      /\ update \in resolved
      /\ JumpDest(block, update) = s + 3
      /\ At(block, update) = At(block, s) + 1
      /\ \A j \in resolved \ {s, update} :
           IF j \in (s + 3)..(update - 1)
           THEN JumpDest(block, j) \in (s + 3)..update
           ELSE JumpDest(block, j) \notin (s + 1)..(exit - 1)
      /\ \A b \in owed : b < s \/ b >= exit
      /\ \A l \in labels : l <= s \/ l >= exit

\* No resolved jump passes over an owed one.
Clear(block, j, owed) ==
  \A b \in owed : /\ j < b => JumpDest(block, j) <= b
                  /\ j > b => JumpDest(block, j) >= b + 3

\* Nor does one pass over a label on its way down.
ClearOf(block, j, labels) == \A l \in labels : j < l => JumpDest(block, j) <= l

\* The jump back at j is the only way from its end to its beginning, and there is no
\* way into what is between them but through that beginning.
BackClosed(block, resolved, owed, labels, j) ==
  LET first == JumpDest(block, j)
  IN  /\ \A k \in resolved :
           k < first \/ k > j => JumpDest(block, k) <= first \/ JumpDest(block, k) > j
      /\ \A b \in owed : b < first \/ b > j
      /\ \A l \in labels : l <= first \/ l > j

\* `places' are the offsets of the instructions and `len', the end: the owed jumps
\* and the labels are among them, and so are the destinations of the others.
Linked(block, places, len, resolved, owed, labels) ==
  /\ resolved \cup owed \subseteq places \ {len}
  /\ labels \subseteq places
  /\ \A j \in resolved :
       /\ JumpDest(block, j) \in places
       /\ Clear(block, j, owed)
       /\ ClearOf(block, j, labels)
       /\ At(block, j) \in T_OP_FOR_STARTS => LoopClosed(block, resolved, owed, labels, j)
       /\ JumpDest(block, j) <= j => BackClosed(block, resolved, owed, labels, j)

\* Where a jump may land while the block grows.
Places(block) == TStarts(block) \cup {Len(block)}

\* The block is whole and linked, its placeholders are what is owed, and `dests' is
\* the table of its destinations.
Coded(block, owed, labels, dests) ==
  /\ WholeBlock(block)
  /\ Linked(block, Places(block), Len(block), TJumps(block) \ owed, owed, labels)
  /\ {ip \in TJumps(block) : read_s16(block, ip + 1) = 0} = owed
  /\ dests = {JumpDest(block, ip) : ip \in TJumps(block) \ owed}
  /\ \A ip \in TJumps(block) : InS16(read_s16(block, ip + 1))

\* The offsets a frame holds are those of the instructions it emitted there.
Shaped(frame, block) ==
  /\ frame.kind \in {"then", "else", "elif"} => At(block, frame.start) = T_OP_JUMP_NCOND
  /\ frame.kind \in {"else", "elif"} =>
       /\ At(block, frame.body - 3) = T_OP_JUMP
       /\ frame.start + 3 <= frame.body - 3
  /\ frame.kind = "while_body" =>
       /\ At(block, frame.body) = T_OP_JUMP_NCOND
       /\ frame.start <= frame.body
  /\ frame.kind = "for_body" =>
       /\ At(block, frame.start)
            = IF frame.slots = 1 THEN T_OP_FOR_DEC_START ELSE T_OP_FOR_INC_START
       /\ frame.body = frame.start + 3

\* The block of a function in which `frames' work, with the jump table `dests'.
BlockOK(block, frames, dests) ==
  /\ Coded(block, OwedIn(frames), LabelsIn(frames), dests)
  /\ \A frame \in frames : Shaped(frame, block)

\* What the frame g lies above, of the frames that were opened before it.
Above(frames, g) ==
  /\ \A b \in OwedIn(frames) : \A x \in Owed(g) \cup Labels(g) : b + 3 <= x
  /\ \A l \in LabelsIn(frames) : \A x \in Owed(g) \cup Labels(g) : l <= x

\* The frames of one function lie above one another.
Ordered(c) ==
  \A i, j \in 1..Len(c) : i < j /\ c[i].func = c[j].func => Above({c[i]}, c[j])

\* The blocks of all functions.
CodeOK(c, code, dests) ==
  /\ \A f \in 1..Len(code) : BlockOK(code[f], FramesOf(c, f - 1), dests[f])
  /\ Ordered(c)

\* Between a call of compile_conditional and the return to its caller.
Returning ==
  status = "returning" =>
    /\ end_addr = Count
    /\ In({"elif"}) => Top.body < Count

\* The inductive invariant.
CodeInv ==
  /\ CodeOK(ctx, t_code, t_jumps)
  /\ Returning
  /\ status = "compiled" => ctx = <<>>

-----------------------------------------------------------------------------
(* Blocks whose jumps are linked.                                          *)

\* How a step changes a block: what was resolved stays as it is, and `new' are the
\* jumps it resolves.
Extends(block, block2, resolved, resolved2, new) ==
  /\ resolved2 = resolved \cup new
  /\ \A j \in resolved : /\ At(block2, j) = At(block, j)
                         /\ JumpDest(block2, j) = JumpDest(block, j)

LEMMA PlacesType ==
  ASSUME NEW len \in Nat, NEW places, places \subseteq 0..len
  PROVE  \A x \in places : x \in Nat /\ x <= len
OBVIOUS

\* A closed loop stays closed when nothing new is inside it.
LEMMA LoopKept ==
  ASSUME NEW block, NEW resolved, NEW owed, NEW labels, NEW s \in resolved,
         s \in Nat, JumpDest(block, s) \in Nat,
         LoopClosed(block, resolved, owed, labels, s),
         NEW block2, NEW resolved2, NEW owed2, NEW labels2, NEW new,
         Extends(block, block2, resolved, resolved2, new),
         \A j \in new :
           /\ j \notin (s + 1)..(JumpDest(block, s) - 1)
           /\ JumpDest(block2, j) \notin (s + 1)..(JumpDest(block, s) - 1),
         \A b \in owed2 : b < s \/ b >= JumpDest(block, s),
         \A l \in labels2 : l <= s \/ l >= JumpDest(block, s)
  PROVE  LoopClosed(block2, resolved2, owed2, labels2, s)
<1> DEFINE exit   == JumpDest(block, s)
           update == exit - 3
<1>1. /\ s + 3 <= update
      /\ update \in resolved
      /\ JumpDest(block, update) = s + 3
      /\ At(block, update) = At(block, s) + 1
      /\ \A j \in resolved \ {s, update} :
           IF j \in (s + 3)..(update - 1)
           THEN JumpDest(block, j) \in (s + 3)..update
           ELSE JumpDest(block, j) \notin (s + 1)..(exit - 1)
  BY DEF LoopClosed
<1>2. /\ resolved2 = resolved \cup new
      /\ \A j \in resolved : /\ At(block2, j) = At(block, j)
                             /\ JumpDest(block2, j) = JumpDest(block, j)
  BY DEF Extends
<1>3. /\ JumpDest(block2, s) = exit
      /\ update \in resolved2
      /\ JumpDest(block2, update) = s + 3
      /\ At(block2, update) = At(block2, s) + 1
  BY <1>1, <1>2
<1>4. exit \in Nat
  OBVIOUS
<1>5. ASSUME NEW j \in resolved2 \ {s, update}
      PROVE  IF j \in (s + 3)..(update - 1)
             THEN JumpDest(block2, j) \in (s + 3)..update
             ELSE JumpDest(block2, j) \notin (s + 1)..(exit - 1)
  <2>1. CASE j \in resolved
    BY <1>1, <1>2, <2>1
  <2>2. CASE j \in new
    <3>1. j \notin (s + 1)..(exit - 1) /\ JumpDest(block2, j) \notin (s + 1)..(exit - 1)
      BY <2>2
    <3> HIDE DEF exit
    <3>2. j \notin (s + 3)..(update - 1)
      BY <1>4, <3>1
    <3>3. QED
      BY <3>1, <3>2
  <2>3. QED
    BY <1>2, <2>1, <2>2
<1>6. /\ \A b \in owed2 : b < s \/ b >= exit
      /\ \A l \in labels2 : l <= s \/ l >= exit
  OBVIOUS
<1>7. QED
  BY <1>1, <1>3, <1>5, <1>6 DEF LoopClosed

\* What may become of the jumps of a block of length len: a new one starts at one
\* that was owed or at the end, and goes to a label or to the end.
LinksAtEnd(block2, len, owed, labels, places2, owed2, labels2, new) ==
  \A j \in new : /\ j \in owed \/ j >= len
                 /\ JumpDest(block2, j) \in places2
                 /\ JumpDest(block2, j) \in labels \/ JumpDest(block2, j) >= len
                 /\ Clear(block2, j, owed2)
                 /\ ClearOf(block2, j, labels2)

\* What is new lies behind the end.
FromOrAfter(later, before, len) == \A x \in later : x \in before \/ x >= len

\* The loops that are closed in this step.
NewLoopsClosed(block2, resolved2, owed2, labels2, new) ==
  \A j \in new :
    /\ At(block2, j) \in T_OP_FOR_STARTS
         => LoopClosed(block2, resolved2, owed2, labels2, j)
    /\ JumpDest(block2, j) <= j => BackClosed(block2, resolved2, owed2, labels2, j)

\* What every step does to the block it writes to: it may append an instruction,
\* resolve jumps and drop or add labels.
LEMMA LinkStep ==
  ASSUME NEW block, NEW places, NEW len \in Nat, NEW resolved, NEW owed, NEW labels,
         places \subseteq 0..len,
         Linked(block, places, len, resolved, owed, labels),
         NEW block2, NEW places2, NEW len2 \in Nat, NEW resolved2, NEW owed2, NEW labels2,
         NEW new,
         Extends(block, block2, resolved, resolved2, new),
         LinksAtEnd(block2, len, owed, labels, places2, owed2, labels2, new),
         places \subseteq places2, places2 \subseteq Nat,
         resolved2 \cup owed2 \subseteq places2 \ {len2},
         labels2 \subseteq places2,
         FromOrAfter(owed2, owed, len), FromOrAfter(labels2, labels, len),
         NewLoopsClosed(block2, resolved2, owed2, labels2, new)
  PROVE  Linked(block2, places2, len2, resolved2, owed2, labels2)
<1>0. /\ \A b \in owed2 : b \in owed \/ b >= len
      /\ \A l \in labels2 : l \in labels \/ l >= len
      /\ \A j \in new :
           /\ At(block2, j) \in T_OP_FOR_STARTS
                => LoopClosed(block2, resolved2, owed2, labels2, j)
           /\ JumpDest(block2, j) <= j
                => BackClosed(block2, resolved2, owed2, labels2, j)
  BY DEF FromOrAfter, NewLoopsClosed
<1>1. ASSUME NEW j \in resolved
      PROVE  /\ j \in Nat /\ JumpDest(block, j) \in places
             /\ JumpDest(block, j) \in Nat /\ JumpDest(block, j) <= len
             /\ Clear(block, j, owed)
             /\ ClearOf(block, j, labels)
             /\ At(block, j) \in T_OP_FOR_STARTS
                  => LoopClosed(block, resolved, owed, labels, j)
             /\ JumpDest(block, j) <= j
                  => BackClosed(block, resolved, owed, labels, j)
  <2>1. /\ j \in places
        /\ JumpDest(block, j) \in places
        /\ Clear(block, j, owed)
        /\ ClearOf(block, j, labels)
        /\ At(block, j) \in T_OP_FOR_STARTS
             => LoopClosed(block, resolved, owed, labels, j)
        /\ JumpDest(block, j) <= j
             => BackClosed(block, resolved, owed, labels, j)
    BY DEF Linked
  <2>2. \A x \in places : x \in Nat /\ x <= len
    BY PlacesType, Zenon
  <2>3. QED
    BY <2>1, <2>2
<1>2. /\ resolved2 = resolved \cup new
      /\ \A j \in resolved : /\ At(block2, j) = At(block, j)
                             /\ JumpDest(block2, j) = JumpDest(block, j)
  BY DEF Extends
<1>3. ASSUME NEW j \in new
      PROVE  /\ j \in Nat /\ (j \in owed \/ j >= len)
             /\ JumpDest(block2, j) \in places2
             /\ JumpDest(block2, j) \in Nat
             /\ JumpDest(block2, j) \in labels \/ JumpDest(block2, j) >= len
             /\ Clear(block2, j, owed2)
             /\ ClearOf(block2, j, labels2)
  BY <1>2 DEF LinksAtEnd
<1>4. \A b \in owed2 : b \in Nat
  OBVIOUS
<1>5. ASSUME NEW j \in resolved PROVE Clear(block2, j, owed2)
  <2>1. ASSUME NEW b \in owed2
        PROVE  /\ j < b => JumpDest(block, j) <= b
               /\ j > b => JumpDest(block, j) >= b + 3
    <3>1. CASE b \in owed
      <4>1. Clear(block, j, owed)
        BY <1>1
      <4>2. QED
        BY <3>1, <4>1, Zenon DEF Clear
    <3>2. CASE b >= len
      <4>1. j < len
        BY <1>1 DEF Linked
      <4>2. QED
        BY <1>1, <1>4, <3>2, <4>1
    <3>3. QED
      BY <1>0, <3>1, <3>2
  <2>2. QED
    BY <1>2, <2>1 DEF Clear
<1>9. ASSUME NEW j \in resolved PROVE ClearOf(block2, j, labels2)
  <2>1. ASSUME NEW l \in labels2, j < l PROVE JumpDest(block, j) <= l
    <3>1. l \in labels => JumpDest(block, j) <= l
      BY <1>1, <2>1 DEF ClearOf
    <3>2. l \in Nat
      OBVIOUS
    <3>3. QED
      BY <1>0, <1>1, <3>1, <3>2
  <2>2. QED
    BY <1>2, <2>1 DEF ClearOf
<1>10. ASSUME NEW j \in resolved, JumpDest(block2, j) <= j
       PROVE  BackClosed(block2, resolved2, owed2, labels2, j)
  <2> DEFINE first == JumpDest(block, j)
  <2>1. BackClosed(block, resolved, owed, labels, j) /\ JumpDest(block2, j) = first
    BY <1>1, <1>2, <1>10
  <2>2. /\ \A k \in resolved :
             k < first \/ k > j => JumpDest(block, k) <= first \/ JumpDest(block, k) > j
        /\ \A b \in owed : b < first \/ b > j
        /\ \A l \in labels : l <= first \/ l > j
    BY <2>1 DEF BackClosed
  <2>3. j < len /\ j \in Nat /\ first \in Nat
    BY <1>1 DEF Linked
  <2>4. ASSUME NEW x \in Nat, x >= len PROVE x > j
    BY <2>3, <2>4
  <2>5. ASSUME NEW k \in resolved2, k < first \/ k > j
        PROVE  JumpDest(block2, k) <= first \/ JumpDest(block2, k) > j
    <3>1. CASE k \in resolved
      BY <1>2, <2>2, <2>5, <3>1
    <3>2. CASE k \in new
      BY <1>3, <2>2, <2>4, <3>2
    <3>3. QED
      BY <1>2, <3>1, <3>2
  <2>6. /\ \A b \in owed2 : b < first \/ b > j
        /\ \A l \in labels2 : l <= first \/ l > j
    BY <1>0, <1>4, <2>2, <2>4
  <2>7. QED
    BY <2>1, <2>5, <2>6 DEF BackClosed
<1>6. ASSUME NEW s \in resolved, At(block2, s) \in T_OP_FOR_STARTS
      PROVE  LoopClosed(block2, resolved2, owed2, labels2, s)
  <2> DEFINE exit == JumpDest(block, s)
  <2>1. LoopClosed(block, resolved, owed, labels, s)
    BY <1>1, <1>2, <1>6
  <2>2. s \in Nat /\ exit \in Nat /\ exit <= len
    BY <1>1
  <2>3. /\ \A b \in owed : b < s \/ b >= exit
        /\ \A l \in labels : l <= s \/ l >= exit
    BY <2>1 DEF LoopClosed
  <2>4. ASSUME NEW x \in Nat, x >= len PROVE x >= exit
    BY <2>2, <2>4
  <2>5. ASSUME NEW j \in new
        PROVE  /\ j \notin (s + 1)..(exit - 1)
               /\ JumpDest(block2, j) \notin (s + 1)..(exit - 1)
    <3>1. j < s \/ j >= exit
      BY <1>3, <2>3, <2>4
    <3>2. JumpDest(block2, j) <= s \/ JumpDest(block2, j) >= exit
      BY <1>3, <2>3, <2>4
    <3> HIDE DEF exit
    <3>3. j \notin (s + 1)..(exit - 1)
      BY <1>3, <2>2, <3>1
    <3>4. JumpDest(block2, j) \notin (s + 1)..(exit - 1)
      BY <1>3, <2>2, <3>2
    <3>5. QED
      BY <3>3, <3>4
  <2>6. \A b \in owed2 : b < s \/ b >= exit
    BY <1>0, <1>4, <2>3, <2>4
  <2>7. \A l \in labels2 : l <= s \/ l >= exit
    BY <1>0, <2>3, <2>4
  <2>8. QED
    BY <2>1, <2>2, <2>5, <2>6, <2>7, LoopKept
<1>7. ASSUME NEW j \in resolved2
      PROVE  /\ JumpDest(block2, j) \in places2
             /\ Clear(block2, j, owed2)
             /\ ClearOf(block2, j, labels2)
             /\ At(block2, j) \in T_OP_FOR_STARTS
                  => LoopClosed(block2, resolved2, owed2, labels2, j)
             /\ JumpDest(block2, j) <= j
                  => BackClosed(block2, resolved2, owed2, labels2, j)
  <2>1. CASE j \in resolved
    BY <1>1, <1>2, <1>5, <1>6, <1>9, <1>10, <2>1
  <2>2. CASE j \in new
    BY <1>0, <1>3, <2>2
  <2>3. QED
    BY <1>2, <2>1, <2>2
<1>8. QED
  BY <1>7 DEF Linked

\* The loop that ForEnd closes: all that is in its body is in it entirely.
LEMMA LoopJustClosed ==
  ASSUME NEW block, NEW places, NEW len \in Nat, NEW resolved, NEW owed, NEW labels,
         places \subseteq 0..len,
         Linked(block, places, len, resolved, owed, labels),
         NEW s \in owed, s + 3 <= len,
         \A j \in resolved : j <= s \/ j >= s + 3,
         NEW block2, NEW resolved2, NEW owed2, NEW labels2,
         Extends(block, block2, resolved, resolved2, {s, len}),
         \A b \in owed2 : b < s,
         \A l \in labels2 : l <= s,
         JumpDest(block2, s) = len + 3,
         JumpDest(block2, len) = s + 3,
         At(block2, len) = At(block2, s) + 1
  PROVE  LoopClosed(block2, resolved2, owed2, labels2, s)
<1>1. /\ resolved2 = resolved \cup {s, len}
      /\ \A j \in resolved : JumpDest(block2, j) = JumpDest(block, j)
  BY DEF Extends
<1>2. \A x \in places : x \in Nat /\ x <= len
  OBVIOUS
<1>3. s \in Nat
  BY <1>2 DEF Linked
<1>4. ASSUME NEW j \in resolved2 \ {s, len}
      PROVE  IF j \in (s + 3)..(len - 1)
             THEN JumpDest(block2, j) \in (s + 3)..len
             ELSE JumpDest(block2, j) \notin (s + 1)..(len + 3 - 1)
  <2>1. j \in resolved
    BY <1>1
  <2>2. /\ j \in places \ {len}
        /\ JumpDest(block, j) \in places
        /\ Clear(block, j, owed)
    BY <2>1 DEF Linked
  <2>3. /\ j \in Nat /\ j < len
        /\ JumpDest(block, j) \in Nat /\ JumpDest(block, j) <= len
    <3>1. j \in places /\ j # len /\ JumpDest(block, j) \in places
      BY <2>2
    <3>2. j \in Nat /\ j <= len /\ JumpDest(block, j) \in Nat /\ JumpDest(block, j) <= len
      BY <1>2, <3>1, Zenon
    <3>3. QED
      BY <3>1, <3>2
  <2>4. /\ j < s => JumpDest(block, j) <= s
        /\ j > s => JumpDest(block, j) >= s + 3
    BY <2>2, Zenon DEF Clear
  <2>5. j <= s \/ j >= s + 3
    BY <2>1
  <2>6. j # s
    OBVIOUS
  <2>7. JumpDest(block2, j) = JumpDest(block, j)
    BY <1>1, <2>1
  <2>8. QED
    BY <1>3, <2>3, <2>4, <2>5, <2>6, <2>7
<1>5. len + 3 - 3 = len
  OBVIOUS
<1>6. len \in resolved2
  BY <1>1
<1>7. /\ \A b \in owed2 : b < s \/ b >= len + 3
      /\ \A l \in labels2 : l <= s \/ l >= len + 3
  OBVIOUS
<1>8. QED
  BY <1>4, <1>5, <1>6, <1>7 DEF LoopClosed

-----------------------------------------------------------------------------
(* What the emitting and patching steps do to a block.                     *)

LEMMA CodedFacts ==
  ASSUME NEW block, NEW owed, NEW labels, NEW dests, Coded(block, owed, labels, dests)
  PROVE  /\ block \in Seq(Nat)
         /\ Len(block) \in Nat
         /\ WholeBlock(block)
         /\ TStarts(block) \subseteq 0..(Len(block) - 1)
         /\ Places(block) \subseteq 0..Len(block)
         /\ owed \subseteq TJumps(block)
         /\ labels \subseteq Places(block)
<1>1. WholeBlock(block) /\ owed \subseteq TJumps(block)
  BY DEF Coded
<1>2. block \in Seq(Nat) /\ TStarts(block) \subseteq 0..(Len(block) - 1)
  BY <1>1 DEF WholeBlock, Whole
<1>3. Len(block) \in Nat
  BY <1>2, LenProperties
<1>4. Places(block) \subseteq 0..Len(block)
  BY <1>2, <1>3 DEF Places
<1>5. labels \subseteq Places(block)
  BY DEF Coded, Linked
<1>6. QED
  BY <1>1, <1>2, <1>3, <1>4, <1>5

\* An instruction that is not a jump.
LEMMA CodedPlain ==
  ASSUME NEW block, NEW owed, NEW labels, NEW dests, Coded(block, owed, labels, dests),
         NEW bytes \in Seq(Nat), Len(bytes) = t_instruction_size(At(bytes, 0)),
         ~is_t_jump(At(bytes, 0))
  PROVE  Coded(block \o bytes, owed, labels, dests)
<1> DEFINE longer == block \o bytes
           resolved == TJumps(block) \ owed
<1>1. /\ WholeBlock(block)
      /\ Linked(block, Places(block), Len(block), resolved, owed, labels)
      /\ {ip \in TJumps(block) : read_s16(block, ip + 1) = 0} = owed
      /\ dests = {JumpDest(block, ip) : ip \in resolved}
      /\ \A ip \in TJumps(block) : InS16(read_s16(block, ip + 1))
  BY DEF Coded
<1>2. /\ WholeBlock(longer)
      /\ TStarts(longer) = TStarts(block) \cup {Len(block)}
      /\ Len(longer) = Len(block) + Len(bytes)
      /\ \A ip \in TStarts(block) : At(longer, ip) = At(block, ip)
  BY <1>1, AppendInstruction
<1>3. /\ TJumps(longer) = TJumps(block)
      /\ \A ip \in TJumps(block) : read_s16(longer, ip + 1) = read_s16(block, ip + 1)
  BY <1>1, AppendJumps
<1> HIDE DEF longer
<1>4. Len(bytes) \in Nat /\ Len(bytes) > 0 /\ Len(block) \in Nat
  BY <1>1, SizeInType, SizeOfT, LenProperties DEF WholeBlock
<1>5. /\ TStarts(block) \subseteq 0..(Len(block) - 1)
      /\ Places(block) \subseteq 0..Len(block)
      /\ owed \subseteq TJumps(block)
      /\ labels \subseteq Places(block)
  BY CodedFacts
<1>6. TJumps(block) \subseteq TStarts(block)
  BY DEF TJumps
<1>7. \A ip \in TJumps(block) : JumpDest(longer, ip) = JumpDest(block, ip)
  BY <1>3 DEF JumpDest
<1>8. Extends(block, longer, resolved, resolved, {})
  BY <1>2, <1>6, <1>7 DEF Extends
<1>9. LinksAtEnd(longer, Len(block), owed, labels, Places(longer), owed, labels, {})
  BY DEF LinksAtEnd
<1>10. /\ Places(longer) = Places(block) \cup {Len(longer)}
       /\ Len(longer) \in Nat
       /\ Len(longer) \notin TStarts(block) \cup {Len(block)}
  BY <1>2, <1>4, <1>5 DEF Places
<1>11. Places(longer) \subseteq Nat
  BY <1>5, <1>10, PlacesType, <1>4
<1>12. resolved \cup owed \subseteq Places(longer) \ {Len(longer)}
  BY <1>5, <1>6, <1>10 DEF Places
<1>13. Linked(longer, Places(longer), Len(longer), resolved, owed, labels)
  <2> HIDE DEF resolved
  <2>1. Places(block) \subseteq Places(longer) /\ labels \subseteq Places(longer)
    BY <1>5, <1>10
  <2>2. /\ FromOrAfter(owed, owed, Len(block)) /\ FromOrAfter(labels, labels, Len(block))
        /\ NewLoopsClosed(longer, resolved, owed, labels, {})
    BY DEF FromOrAfter, NewLoopsClosed
  <2>3. QED
    BY <1>1, <1>4, <1>5, <1>8, <1>9, <1>10, <1>11, <1>12, <2>1, <2>2, LinkStep
<1>14. {ip \in TJumps(longer) : read_s16(longer, ip + 1) = 0} = owed
  BY <1>1, <1>3
<1>15. dests = {JumpDest(longer, ip) : ip \in TJumps(longer) \ owed}
  BY <1>1, <1>3, <1>7
<1>16. \A ip \in TJumps(longer) : InS16(read_s16(longer, ip + 1))
  BY <1>1, <1>3
<1>17. QED
  BY <1>2, <1>3, <1>13, <1>14, <1>15, <1>16 DEF Coded, longer

\* A construct that remembers the end of the code, or forgets a label.
LEMMA CodedLabels ==
  ASSUME NEW block, NEW owed, NEW labels, NEW dests, Coded(block, owed, labels, dests),
         NEW labels2, \A l \in labels2 : l \in labels \/ l = Len(block)
  PROVE  Coded(block, owed, labels2, dests)
<1> DEFINE resolved == TJumps(block) \ owed
<1>1. /\ WholeBlock(block)
      /\ Linked(block, Places(block), Len(block), resolved, owed, labels)
      /\ {ip \in TJumps(block) : read_s16(block, ip + 1) = 0} = owed
      /\ dests = {JumpDest(block, ip) : ip \in resolved}
      /\ \A ip \in TJumps(block) : InS16(read_s16(block, ip + 1))
  BY DEF Coded
<1>2. /\ Len(block) \in Nat
      /\ Places(block) \subseteq 0..Len(block)
      /\ labels \subseteq Places(block)
  BY CodedFacts
<1>3. Extends(block, block, resolved, resolved, {})
  BY DEF Extends
<1>4. LinksAtEnd(block, Len(block), owed, labels, Places(block), owed, labels2, {})
  BY DEF LinksAtEnd
<1>5. labels2 \subseteq Places(block)
  BY <1>2 DEF Places
<1>6. resolved \cup owed \subseteq Places(block) \ {Len(block)}
  BY <1>1 DEF Linked
<1>7. Places(block) \subseteq Nat
  BY <1>2, PlacesType
<1>8. Linked(block, Places(block), Len(block), resolved, owed, labels2)
  <2> HIDE DEF resolved
  <2>1. /\ FromOrAfter(owed, owed, Len(block)) /\ FromOrAfter(labels2, labels, Len(block))
        /\ NewLoopsClosed(block, resolved, owed, labels2, {})
    BY <1>2 DEF FromOrAfter, NewLoopsClosed
  <2>2. QED
    BY <1>1, <1>2, <1>3, <1>4, <1>5, <1>6, <1>7, <2>1, LinkStep
<1>9. QED
  BY <1>1, <1>8 DEF Coded

\* A jump whose destination is not known yet.
LEMMA CodedOwe ==
  ASSUME NEW block, NEW owed, NEW labels, NEW dests, Coded(block, owed, labels, dests),
         NEW op \in Nat, is_t_jump(op),
         NEW labels2, \A l \in labels2 : l \in labels \/ l = Len(block) + 3
  PROVE  Coded(block \o (<<op>> \o U16(0)), owed \cup {Len(block)}, labels2, dests)
<1> DEFINE bytes    == <<op>> \o U16(0)
           longer   == block \o bytes
           resolved == TJumps(block) \ owed
           n        == Len(block)
           owed2    == owed \cup {n}
<1>1. /\ WholeBlock(block)
      /\ Linked(block, Places(block), n, resolved, owed, labels)
      /\ {ip \in TJumps(block) : read_s16(block, ip + 1) = 0} = owed
      /\ dests = {JumpDest(block, ip) : ip \in resolved}
      /\ \A ip \in TJumps(block) : InS16(read_s16(block, ip + 1))
  BY DEF Coded
<1>2. /\ block \in Seq(Nat)
      /\ n \in Nat
      /\ TStarts(block) \subseteq 0..(n - 1)
      /\ Places(block) \subseteq 0..n
      /\ owed \subseteq TJumps(block)
      /\ labels \subseteq Places(block)
      /\ TJumps(block) \subseteq TStarts(block)
  BY CodedFacts DEF TJumps
<1>3. InS16(0)
  BY Halves DEF InS16
<1>4. /\ bytes \in Seq(Nat)
      /\ Len(bytes) = 3
      /\ At(bytes, 0) = op
      /\ read_s16(longer, n + 1) = 0
  BY <1>2, <1>3, EmittedOperand
<1> HIDE DEF bytes
<1>5. Len(bytes) = t_instruction_size(At(bytes, 0))
  BY <1>4, JumpSize
<1>6. /\ WholeBlock(longer)
      /\ TStarts(longer) = TStarts(block) \cup {n}
      /\ Len(longer) = n + 3
      /\ \A ip \in TStarts(block) : At(longer, ip) = At(block, ip)
  BY <1>1, <1>4, <1>5, AppendInstruction
<1>7. /\ TJumps(longer) = TJumps(block) \cup {n}
      /\ \A ip \in TJumps(block) : read_s16(longer, ip + 1) = read_s16(block, ip + 1)
  BY <1>1, <1>4, <1>5, AppendJumps
<1> HIDE DEF longer, n
<1>8. n \notin TJumps(block)
  BY <1>2
<1>9. TJumps(longer) \ owed2 = resolved
  BY <1>7, <1>8
<1>10. \A ip \in TJumps(block) : JumpDest(longer, ip) = JumpDest(block, ip)
  BY <1>7 DEF JumpDest
<1>11. Extends(block, longer, resolved, resolved, {})
  BY <1>2, <1>6, <1>10 DEF Extends
<1>12. LinksAtEnd(longer, n, owed, labels, Places(longer), owed2, labels2, {})
  BY DEF LinksAtEnd
<1>13. /\ Places(longer) = Places(block) \cup {n + 3}
       /\ Places(longer) = TStarts(block) \cup {n, n + 3}
  BY <1>6 DEF Places, n
<1>14. Places(longer) \subseteq Nat
  BY <1>2, <1>13, PlacesType
<1>15. resolved \cup owed2 \subseteq Places(longer) \ {n + 3}
  BY <1>2, <1>13
<1>16. labels2 \subseteq Places(longer)
  BY <1>2, <1>13 DEF n
<1>17. Linked(longer, Places(longer), n + 3, resolved, owed2, labels2)
  <2> HIDE DEF resolved
  <2>1. /\ FromOrAfter(owed2, owed, n) /\ FromOrAfter(labels2, labels, n)
        /\ NewLoopsClosed(longer, resolved, owed2, labels2, {})
        /\ Places(block) \subseteq Places(longer)
        /\ n + 3 \in Nat
    BY <1>2, <1>13 DEF n, FromOrAfter, NewLoopsClosed
  <2> HIDE DEF owed2
  <2>2. QED
    BY <1>1, <1>2, <1>11, <1>12, <1>14, <1>15, <1>16, <2>1, LinkStep
<1>18. {ip \in TJumps(longer) : read_s16(longer, ip + 1) = 0} = owed2
  BY <1>1, <1>4, <1>7
<1>19. dests = {JumpDest(longer, ip) : ip \in TJumps(longer) \ owed2}
  BY <1>1, <1>9, <1>10
<1>20. \A ip \in TJumps(longer) : InS16(read_s16(longer, ip + 1))
  BY <1>1, <1>3, <1>4, <1>7
<1>21. QED
  BY <1>6, <1>9, <1>17, <1>18, <1>19, <1>20 DEF Coded, longer, bytes, n

\* patch_jump, on the jump at b, to the destination `dest'.
PatchTo(block, b, dest) == Patched(block, b, dest - b - 1)
\* The check that comes before it.
Fits(b, dest) == InS16(dest - b - 1)

\* A set with another element, and one without it.
With(S, x) == S \cup {x}
Without(S, x) == S \ {x}

\* A jump from b to `dest' passes over no other of these.
PassesNone(b, dest, owed) ==
  \A x \in owed : x = b \/ (b < x /\ dest <= x) \/ (b > x /\ dest >= x + 3)

\* A jump from b down to `dest' passes over none of these labels.
PassesNoLabel(b, dest, labels) == \A l \in labels : l <= b \/ dest <= l

\* The jumps of `new' were owed and have got a destination below, a label or the
\* end; all else is as before, but labels may be forgotten.
LEMMA CodedResolve ==
  ASSUME NEW block, NEW owed, NEW labels, NEW dests, Coded(block, owed, labels, dests),
         NEW new, new \subseteq owed,
         NEW labels2, labels2 \subseteq labels,
         NEW patched, WholeBlock(patched), Len(patched) = Len(block),
         TStarts(patched) = TStarts(block), TJumps(patched) = TJumps(block),
         \A ip \in TStarts(block) : At(patched, ip) = At(block, ip),
         \A ip \in TJumps(block) \ new : read_s16(patched, ip + 1) = read_s16(block, ip + 1),
         NEW owed2, owed2 = owed \ new,
         \A b \in new : /\ At(block, b) \notin T_OP_FOR_STARTS
                        /\ InS16(read_s16(patched, b + 1))
                        /\ read_s16(patched, b + 1) \in Nat
                        /\ read_s16(patched, b + 1) > 0
                        /\ JumpDest(patched, b) \in labels \/ JumpDest(patched, b) = Len(block)
                        /\ PassesNone(b, JumpDest(patched, b), owed2)
                        /\ PassesNoLabel(b, JumpDest(patched, b), labels2),
         NEW dests2, dests2 = dests \cup {JumpDest(patched, b) : b \in new}
  PROVE  Coded(patched, owed2, labels2, dests2)
<1> DEFINE resolved  == TJumps(block) \ owed
           resolved2 == TJumps(block) \ owed2
           n         == Len(block)
<1>1. /\ WholeBlock(block)
      /\ Linked(block, Places(block), n, resolved, owed, labels)
      /\ {ip \in TJumps(block) : read_s16(block, ip + 1) = 0} = owed
      /\ dests = {JumpDest(block, ip) : ip \in resolved}
      /\ \A ip \in TJumps(block) : InS16(read_s16(block, ip + 1))
  BY DEF Coded
<1>2. /\ block \in Seq(Nat)
      /\ n \in Nat
      /\ TStarts(block) \subseteq 0..(n - 1)
      /\ Places(block) \subseteq 0..n
      /\ owed \subseteq TJumps(block)
      /\ labels \subseteq Places(block)
      /\ TJumps(block) \subseteq TStarts(block)
  BY CodedFacts DEF TJumps
<1>3. \A ip \in TJumps(block) : ip \in Nat /\ ip < n
  BY <1>2
<1>4. n \in Places(block) /\ \A x \in Places(block) : x \in Nat /\ x <= n
  <2>1. n \in Places(block)
    BY DEF Places
  <2>2. QED
    BY <1>2, <2>1, PlacesType
<1>5. ASSUME NEW b \in new
      PROVE  /\ b \in TJumps(block) /\ b \in Nat
             /\ JumpDest(patched, b) \in Places(block)
             /\ JumpDest(patched, b) \in Nat
             /\ JumpDest(patched, b) > b
             /\ JumpDest(patched, b) \in labels \/ JumpDest(patched, b) >= n
  <2>1. b \in TJumps(block) /\ b \in Nat
    BY <1>2, <1>3
  <2>2. JumpDest(patched, b) \in Places(block)
    BY <1>2, <1>4
  <2>3. JumpDest(patched, b) \in Nat
    BY <1>4, <2>2
  <2>4. read_s16(patched, b + 1) \in Nat /\ read_s16(patched, b + 1) > 0
    OBVIOUS
  <2>5. JumpDest(patched, b) > b
    BY <2>1, <2>4 DEF JumpDest
  <2>6. QED
    BY <1>2, <2>1, <2>2, <2>3, <2>5
<1>6. \A ip \in TJumps(block) \ new : JumpDest(patched, ip) = JumpDest(block, ip)
  BY DEF JumpDest
<1>7. resolved2 = resolved \cup new
  BY <1>2
<1>8. Extends(block, patched, resolved, resolved2, new)
  BY <1>2, <1>6, <1>7 DEF Extends
<1>9. Places(patched) = Places(block)
  BY DEF Places
<1>10. LinksAtEnd(patched, n, owed, labels, Places(block), owed2, labels2, new)
  <2>1. ASSUME NEW b \in new
        PROVE  Clear(patched, b, owed2) /\ ClearOf(patched, b, labels2)
    <3>1. \A x \in owed2 : x \in Nat
      BY <1>2, <1>3
    <3>2. Clear(patched, b, owed2)
      <4>1. ASSUME NEW x \in owed2
            PROVE  /\ b < x => JumpDest(patched, b) <= x
                   /\ b > x => JumpDest(patched, b) >= x + 3
        <5>1. x = b \/ (b < x /\ JumpDest(patched, b) <= x)
                \/ (b > x /\ JumpDest(patched, b) >= x + 3)
          BY DEF PassesNone
        <5>2. x \in Nat /\ b \in Nat
          BY <1>5, <3>1
        <5>3. QED
          BY <5>1, <5>2
      <4>2. QED
        BY <4>1 DEF Clear
    <3>3. ASSUME NEW l \in labels2, b < l PROVE JumpDest(patched, b) <= l
      <4>1. l <= b \/ JumpDest(patched, b) <= l
        BY DEF PassesNoLabel
      <4>2. l \in Nat /\ b \in Nat
        BY <1>2, <1>4, <1>5
      <4>3. QED
        BY <3>3, <4>1, <4>2
    <3>4. QED
      BY <3>2, <3>3 DEF ClearOf
  <2>2. QED
    BY <1>5, <2>1 DEF LinksAtEnd
<1>11. Places(block) \subseteq Nat
  BY <1>4
<1>12. resolved2 \cup owed2 \subseteq Places(block) \ {n}
  <2>1. resolved2 \cup owed2 \subseteq TStarts(block)
    BY <1>2
  <2>2. n \notin TStarts(block)
    BY <1>2
  <2>3. QED
    BY <2>1, <2>2 DEF Places
<1>13. \A b \in new : At(patched, b) \notin T_OP_FOR_STARTS
  BY <1>2
<1>14. Linked(patched, Places(patched), n, resolved2, owed2, labels2)
  <2>1. /\ n \in Nat
        /\ Places(block) \subseteq 0..n
        /\ Places(block) \subseteq Places(block)
        /\ labels2 \subseteq Places(block)
        /\ FromOrAfter(owed2, owed, n) /\ FromOrAfter(labels2, labels, n)
        /\ Linked(block, Places(block), n, resolved, owed, labels)
    BY <1>1, <1>2 DEF FromOrAfter
  <2>2. NewLoopsClosed(patched, resolved2, owed2, labels2, new)
    <3>1. \A b \in new : ~(JumpDest(patched, b) <= b)
      BY <1>5
    <3>2. QED
      BY <1>13, <3>1 DEF NewLoopsClosed
  <2> HIDE DEF resolved, resolved2, n
  <2>3. Linked(patched, Places(block), n, resolved2, owed2, labels2)
    BY <1>8, <1>10, <1>11, <1>12, <2>1, <2>2, LinkStep
  <2>4. QED
    BY <1>9, <2>3
<1>15. {ip \in TJumps(patched) : read_s16(patched, ip + 1) = 0} = owed2
  <2>1. \A b \in new : read_s16(patched, b + 1) # 0
    OBVIOUS
  <2>2. QED
    BY <1>1, <2>1
<1>16. dests2 = {JumpDest(patched, ip) : ip \in TJumps(patched) \ owed2}
  <2>1. {JumpDest(patched, ip) : ip \in resolved} = {JumpDest(block, ip) : ip \in resolved}
    BY <1>6
  <2>2. QED
    BY <1>1, <1>7, <2>1, ZenonT(60)
<1>17. \A ip \in TJumps(patched) : InS16(read_s16(patched, ip + 1))
  BY <1>1
<1>18. QED
  BY <1>14, <1>15, <1>16, <1>17 DEF Coded

\* patch_jump on an owed jump, of a conditional, to the end.
LEMMA CodedPatch ==
  ASSUME NEW block, NEW owed, NEW labels, NEW dests, Coded(block, owed, labels, dests),
         NEW b \in owed, At(block, b) \notin T_OP_FOR_STARTS,
         NEW dest, dest = Len(block), dest > b + 1, Fits(b, dest),
         PassesNone(b, dest, owed),
         NEW labels2, labels2 \subseteq labels, PassesNoLabel(b, dest, labels2)
  PROVE  /\ Coded(PatchTo(block, b, dest), Without(owed, b), labels2, With(dests, dest))
         /\ Len(PatchTo(block, b, dest)) = Len(block)
         /\ TStarts(PatchTo(block, b, dest)) = TStarts(block)
         /\ \A ip \in TStarts(block) : At(PatchTo(block, b, dest), ip) = At(block, ip)
<1> DEFINE patched  == PatchTo(block, b, dest)
           owed2    == Without(owed, b)
           v        == dest - b - 1
<1>1. WholeBlock(block)
  BY DEF Coded
<1>2. /\ Len(block) \in Nat
      /\ b \in TJumps(block)
      /\ b \in Nat
      /\ dest \in Nat
  <2>1. /\ Len(block) \in Nat
        /\ TStarts(block) \subseteq 0..(Len(block) - 1)
        /\ owed \subseteq TJumps(block)
        /\ TJumps(block) \subseteq TStarts(block)
    BY CodedFacts DEF TJumps
  <2>2. QED
    BY <2>1
<1>3. v \in Int /\ v \in Nat /\ v > 0
  BY <1>2
<1>4. InS16(v)
  BY DEF Fits
<1>5. patched = overwrite_s16(block, b + 1, v)
  BY DEF PatchTo, Patched
<1> HIDE DEF patched, v
<1>6. /\ WholeBlock(patched)
      /\ Len(patched) = Len(block)
      /\ TStarts(patched) = TStarts(block)
      /\ TJumps(patched) = TJumps(block)
      /\ \A ip \in TStarts(block) : At(patched, ip) = At(block, ip)
      /\ \A ip \in TJumps(block) :
           ip # b => read_s16(patched, ip + 1) = read_s16(block, ip + 1)
      /\ read_s16(patched, b + 1) = v
  BY <1>1, <1>2, <1>3, <1>4, <1>5, PatchJump
<1>7. JumpDest(patched, b) = dest
  BY <1>2, <1>6 DEF JumpDest, v
<1> DEFINE new    == {b}
           owed3  == owed \ new
           dests3 == dests \cup {JumpDest(patched, x) : x \in new}
<1>8. new \subseteq owed
  OBVIOUS
<1>9. \A x \in new : /\ At(block, x) \notin T_OP_FOR_STARTS
                     /\ InS16(read_s16(patched, x + 1))
                     /\ read_s16(patched, x + 1) \in Nat
                     /\ read_s16(patched, x + 1) > 0
                     /\ JumpDest(patched, x) \in labels \/ JumpDest(patched, x) = Len(block)
                     /\ PassesNone(x, JumpDest(patched, x), owed3)
                     /\ PassesNoLabel(x, JumpDest(patched, x), labels2)
  <2>1. PassesNone(b, dest, owed3)
    BY DEF PassesNone
  <2> HIDE DEF owed3
  <2>2. QED
    BY <1>3, <1>4, <1>6, <1>7, <2>1
<1>10. \A ip \in TJumps(block) \ new : read_s16(patched, ip + 1) = read_s16(block, ip + 1)
  BY <1>6
<1>11. dests3 = dests \cup {dest}
  BY <1>7
<1>12. owed3 = owed \ new /\ dests3 = dests \cup {JumpDest(patched, x) : x \in new}
  OBVIOUS
<1> HIDE DEF new, owed3, dests3
<1>13. Coded(patched, owed3, labels2, dests3)
  BY <1>6, <1>8, <1>9, <1>10, <1>12, CodedResolve
<1>14. QED
  BY <1>6, <1>11, <1>13 DEF patched, new, owed3, Without, With

\* The end of a loop: a jump back to a label, and the exit of the loop patched to
\* lead past it.
LoopBack(block, op, back) == block \o (<<op>> \o U16(back - Len(block) - 1))
\* Its exit is patched in the block that has the jump back.
LoopEnd(block, op, back, b) == PatchTo(LoopBack(block, op, back), b, Len(block) + 3)

\* The jump owed at b is the last one: all others come before it and its loop.
LastOwed(b, back, owed) == \A x \in owed : x < b /\ x + 3 <= back

\* A counted loop is closed by the instruction that goes with the one it starts
\* with, and goes back to the first of its body.
LoopMatches(block, op, back, b) ==
  At(block, b) \in T_OP_FOR_STARTS => op = At(block, b) + 1 /\ back = b + 3

LEMMA CodedLoop ==
  ASSUME NEW block, NEW owed, NEW labels, NEW dests, Coded(block, owed, labels, dests),
         NEW op \in Nat, is_t_jump(op), op \notin T_OP_FOR_STARTS,
         NEW b \in owed, NEW back \in labels,
         Fits(Len(block), back), Fits(b, Len(block) + 3),
         LastOwed(b, back, Without(owed, b)),
         NEW labels2, labels2 \subseteq labels,
         \A l \in labels2 : l <= b /\ l <= back,
         LoopMatches(block, op, back, b)
  PROVE  /\ Coded(LoopEnd(block, op, back, b), Without(owed, b), labels2,
                  With(With(dests, back), Len(block) + 3))
         /\ Len(LoopBack(block, op, back)) = Len(block) + 3
         /\ Len(LoopEnd(block, op, back, b)) = Len(block) + 3
         /\ \A ip \in TStarts(block) : At(LoopEnd(block, op, back, b), ip) = At(block, ip)
<1> DEFINE n        == Len(block)
           bytes    == <<op>> \o U16(back - n - 1)
           looped   == LoopBack(block, op, back)
           patched  == LoopEnd(block, op, back, b)
           leap     == (n + 3) - b - 1
           resolved == TJumps(block) \ owed
           jumps2   == TJumps(block) \cup {n}
           owed2    == Without(owed, b)
           resolved2 == jumps2 \ owed2
           places2  == TStarts(block) \cup {n, n + 3}
           dests2   == With(With(dests, back), n + 3)
<1>0. /\ looped = block \o bytes
      /\ patched = overwrite_s16(looped, b + 1, leap)
      /\ owed2 = owed \ {b}
      /\ InS16(back - n - 1)
      /\ InS16(leap)
      /\ dests2 = dests \cup {back, n + 3}
      /\ \A x \in owed2 : x < b /\ x + 3 <= back
  BY DEF LoopBack, LoopEnd, PatchTo, Patched, Fits, Without, With, LastOwed
<1> HIDE DEF looped, patched, leap, dests2, owed2
<1>1. /\ WholeBlock(block)
      /\ Linked(block, Places(block), n, resolved, owed, labels)
      /\ {ip \in TJumps(block) : read_s16(block, ip + 1) = 0} = owed
      /\ dests = {JumpDest(block, ip) : ip \in resolved}
      /\ \A ip \in TJumps(block) : InS16(read_s16(block, ip + 1))
  BY DEF Coded
<1>2. /\ block \in Seq(Nat)
      /\ n \in Nat
      /\ TStarts(block) \subseteq 0..(n - 1)
      /\ Places(block) \subseteq 0..n
      /\ owed \subseteq TJumps(block)
      /\ labels \subseteq Places(block)
      /\ TJumps(block) \subseteq TStarts(block)
  BY CodedFacts DEF TJumps
<1>3. b \in Nat /\ b < n /\ back \in Places(block) /\ back \in Nat /\ back <= n
  <2>1. b \in 0..(n - 1) /\ back \in Places(block)
    BY <1>2
  <2>2. back \in 0..n
    BY <1>2, <2>1
  <2>3. QED
    BY <1>2, <2>1, <2>2
<1>4. b + 3 <= n /\ \A other \in TStarts(block) : other <= b \/ other >= b + 3
  BY <1>1, <1>2, JumpFits
<1>5. /\ bytes \in Seq(Nat)
      /\ Len(bytes) = 3
      /\ At(bytes, 0) = op
      /\ read_s16(looped, n + 1) = back - n - 1
  <2>1. back - n - 1 \in Int
    BY <1>2, <1>3
  <2>2. QED
    BY <1>0, <1>2, <2>1, EmittedOperand
<1> HIDE DEF bytes
<1>6. Len(bytes) = t_instruction_size(At(bytes, 0))
  BY <1>5, JumpSize
<1>7. /\ WholeBlock(looped)
      /\ TStarts(looped) = TStarts(block) \cup {n}
      /\ Len(looped) = n + 3
      /\ \A ip \in TStarts(block) : At(looped, ip) = At(block, ip)
      /\ At(looped, n) = op
  BY <1>0, <1>1, <1>5, <1>6, AppendInstruction
<1>8. /\ TJumps(looped) = jumps2
      /\ \A ip \in TJumps(block) : read_s16(looped, ip + 1) = read_s16(block, ip + 1)
  BY <1>0, <1>1, <1>5, <1>6, AppendJumps
<1> HIDE DEF n
<1>9. b \in TJumps(looped) /\ leap \in Int
  BY <1>2, <1>3, <1>8 DEF leap
<1>10. n \notin TJumps(block) /\ n # b
  BY <1>2, <1>3
<1>11. /\ WholeBlock(patched)
       /\ Len(patched) = n + 3
       /\ TStarts(patched) = TStarts(block) \cup {n}
       /\ TJumps(patched) = jumps2
       /\ \A ip \in TStarts(looped) : At(patched, ip) = At(looped, ip)
       /\ \A ip \in TJumps(looped) :
            ip # b => read_s16(patched, ip + 1) = read_s16(looped, ip + 1)
       /\ read_s16(patched, b + 1) = leap
  <2>1. LET changed == overwrite_s16(looped, b + 1, leap)
        IN  /\ WholeBlock(changed)
            /\ Len(changed) = Len(looped)
            /\ TStarts(changed) = TStarts(looped)
            /\ TJumps(changed) = TJumps(looped)
            /\ \A ip \in TStarts(looped) : At(changed, ip) = At(looped, ip)
            /\ \A ip \in TJumps(looped) :
                 ip # b => read_s16(changed, ip + 1) = read_s16(looped, ip + 1)
            /\ read_s16(changed, b + 1) = leap
    <3>1. WholeBlock(looped) /\ b \in TJumps(looped) /\ leap \in Int /\ InS16(leap)
      BY <1>0, <1>7, <1>9
    <3>2. QED
      BY <3>1, PatchJump, Zenon
  <2>2. QED
    BY <1>0, <1>7, <1>8, <2>1
<1>12. /\ \A ip \in TStarts(block) : At(patched, ip) = At(block, ip)
       /\ At(patched, n) = op
       /\ read_s16(patched, n + 1) = back - n - 1
       /\ \A ip \in TJumps(block) \ {b} :
            read_s16(patched, ip + 1) = read_s16(block, ip + 1)
  <2>1. n \in TStarts(looped) /\ n \in TJumps(looped) /\ TStarts(block) \subseteq TStarts(looped)
    BY <1>7, <1>8
  <2>2. TJumps(block) \subseteq TJumps(looped)
    BY <1>8
  <2>3. read_s16(patched, n + 1) = read_s16(looped, n + 1)
    BY <1>10, <1>11, <2>1
  <2>4. QED
    BY <1>5, <1>7, <1>8, <1>11, <2>1, <2>2, <2>3
<1>13. JumpDest(patched, b) = n + 3 /\ JumpDest(patched, n) = back
  BY <1>2, <1>3, <1>11, <1>12 DEF JumpDest, leap
<1>14. \A ip \in TJumps(block) \ {b} : JumpDest(patched, ip) = JumpDest(block, ip)
  BY <1>12 DEF JumpDest
<1>15. resolved2 = resolved \cup {b, n}
  BY <1>0, <1>2, <1>10
<1>16. Extends(block, patched, resolved, resolved2, {b, n})
  BY <1>2, <1>12, <1>14, <1>15 DEF Extends
<1>17. places2 = Places(patched) /\ Places(block) \subseteq places2 /\ places2 \subseteq Nat
  BY <1>2, <1>11 DEF Places, n
<1>18. \A x \in owed2 : x \in Nat /\ x \in owed /\ x < b /\ x + 3 <= back
  BY <1>0, <1>2
<1>19. LinksAtEnd(patched, n, owed, labels, places2, owed2, labels2, {b, n})
  <2>1. Clear(patched, b, owed2)
    BY <1>3, <1>4, <1>2, <1>13, <1>18 DEF Clear
  <2>2. Clear(patched, n, owed2)
    BY <1>3, <1>2, <1>13, <1>18 DEF Clear
  <2>5. ClearOf(patched, b, labels2) /\ ClearOf(patched, n, labels2)
    <3>1. \A l \in labels2 : l \in Nat /\ ~(b < l) /\ ~(n < l)
      <4>1. \A l \in labels2 : l \in 0..n /\ l <= b
        BY <1>2
      <4>2. QED
        BY <1>2, <1>3, <4>1
    <3>2. QED
      BY <3>1 DEF ClearOf
  <2>3. /\ JumpDest(patched, b) >= n /\ JumpDest(patched, b) \in places2
        /\ JumpDest(patched, n) \in labels /\ JumpDest(patched, n) \in places2
        /\ n >= n
    BY <1>2, <1>3, <1>13, <1>17
  <2> HIDE DEF places2
  <2>4. QED
    BY <2>1, <2>2, <2>3, <2>5 DEF LinksAtEnd
<1>20. resolved2 \cup owed2 \subseteq places2 \ {n + 3}
  <2>1. resolved2 \cup owed2 \subseteq TStarts(block) \cup {n}
    BY <1>0, <1>2
  <2>2. n + 3 \notin TStarts(block) \cup {n}
    BY <1>2
  <2>3. QED
    BY <2>1, <2>2
<1>21. ASSUME NEW j \in {b, n}, At(patched, j) \in T_OP_FOR_STARTS
       PROVE  LoopClosed(patched, resolved2, owed2, labels2, j)
  <2>1. j = b /\ At(patched, b) = At(block, b)
    BY <1>2, <1>12, <1>21
  <2>2. op = At(patched, b) + 1 /\ back = b + 3
    BY <1>21, <2>1 DEF LoopMatches
  <2>3. \A x \in resolved : x <= b \/ x >= b + 3
    BY <1>2, <1>4
  <2>4. \A x \in owed2 : x < b
    BY <1>18
  <2> HIDE DEF resolved, resolved2
  <2>5. LoopClosed(patched, resolved2, owed2, labels2, b)
    BY <1>1, <1>2, <1>4, <1>12, <1>13, <1>16, <2>2, <2>3, <2>4, LoopJustClosed
  <2>6. QED
    BY <2>1, <2>5
<1>27. ASSUME NEW j \in {b, n}, JumpDest(patched, j) <= j
       PROVE  BackClosed(patched, resolved2, owed2, labels2, j)
  <2>1. j = n /\ JumpDest(patched, n) = back
    BY <1>2, <1>3, <1>13, <1>27
  <2>2. ASSUME NEW k \in resolved2, k < back \/ k > n
        PROVE  JumpDest(patched, k) <= back \/ JumpDest(patched, k) > n
    <3>1. CASE k = b
      BY <1>2, <1>13, <3>1
    <3>2. CASE k \in resolved
      <4>1. k \in TJumps(block) /\ k \in Nat /\ k < n /\ k # b
        BY <1>2, <3>2
      <4>2. ClearOf(block, k, labels)
        BY <1>1, <3>2 DEF Linked
      <4>3. k < back
        BY <1>2, <2>2, <4>1
      <4>4. JumpDest(block, k) <= back
        BY <4>2, <4>3 DEF ClearOf
      <4>5. QED
        BY <1>14, <4>1, <4>4
    <3>3. k # n
      BY <1>2, <1>3, <2>2
    <3>4. QED
      BY <1>15, <3>1, <3>2, <3>3
  <2>3. \A x \in owed2 : x < back \/ x > n
    BY <1>3, <1>18
  <2>4. \A l \in labels2 : l <= back \/ l > n
    OBVIOUS
  <2>5. QED
    BY <2>1, <2>2, <2>3, <2>4 DEF BackClosed
<1>22. Linked(patched, Places(patched), n + 3, resolved2, owed2, labels2)
  <2>1. /\ labels2 \subseteq places2
        /\ \A l \in labels2 : l \in labels \/ l >= n
        /\ \A x \in owed2 : x \in owed \/ x >= n
        /\ n + 3 \in Nat
    BY <1>0, <1>2, <1>17
  <2>2. /\ n \in Nat
        /\ Places(block) \subseteq 0..n
        /\ Linked(block, Places(block), n, resolved, owed, labels)
    BY <1>1, <1>2
  <2>3. \A j \in {b, n} :
          /\ At(patched, j) \in T_OP_FOR_STARTS
               => LoopClosed(patched, resolved2, owed2, labels2, j)
          /\ JumpDest(patched, j) <= j
               => BackClosed(patched, resolved2, owed2, labels2, j)
    BY <1>21, <1>27
  <2> HIDE DEF resolved, resolved2, places2
  <2>4. places2 \subseteq Nat /\ Places(block) \subseteq places2
    BY <1>17
  <2> DEFINE len2 == n + 3
             new  == {b, n}
  <2>5. /\ Extends(block, patched, resolved, resolved2, new)
        /\ LinksAtEnd(patched, n, owed, labels, places2, owed2, labels2, new)
        /\ resolved2 \cup owed2 \subseteq places2 \ {len2}
        /\ NewLoopsClosed(patched, resolved2, owed2, labels2, new)
        /\ FromOrAfter(owed2, owed, n) /\ FromOrAfter(labels2, labels, n)
        /\ len2 \in Nat
    BY <1>16, <1>19, <1>20, <2>1, <2>3 DEF NewLoopsClosed, FromOrAfter
  <2> HIDE DEF len2, new
  <2>6. labels2 \subseteq places2
    BY <2>1
  <2>7. Linked(patched, places2, len2, resolved2, owed2, labels2)
    BY <2>2, <2>4, <2>5, <2>6, LinkStep
  <2>8. QED
    BY <1>17, <2>7 DEF len2
<1>23. {ip \in TJumps(patched) : read_s16(patched, ip + 1) = 0} = owed2
  <2>1. leap # 0 /\ back - n - 1 # 0
    BY <1>2, <1>3 DEF leap
  <2>2. QED
    BY <1>0, <1>1, <1>2, <1>10, <1>11, <1>12, <2>1
<1>24. dests2 = {JumpDest(patched, ip) : ip \in TJumps(patched) \ owed2}
  <2>1. {JumpDest(patched, ip) : ip \in resolved \cup {b, n}}
          = {JumpDest(patched, ip) : ip \in resolved} \cup {n + 3, back}
    BY <1>13
  <2>2. {JumpDest(patched, ip) : ip \in resolved} = {JumpDest(block, ip) : ip \in resolved}
    BY <1>14
  <2>3. TJumps(patched) \ owed2 = resolved \cup {b, n}
    BY <1>11, <1>15
  <2>4. QED
    BY <1>0, <1>1, <2>1, <2>2, <2>3
<1>28. \A ip \in TJumps(patched) : InS16(read_s16(patched, ip + 1))
  BY <1>0, <1>1, <1>10, <1>11, <1>12
<1>25. Coded(patched, owed2, labels2, dests2)
  BY <1>11, <1>22, <1>23, <1>24, <1>28 DEF Coded
<1>26. QED
  BY <1>7, <1>11, <1>12, <1>25 DEF patched, looped, n, dests2, owed2

\* What CloseConditional does to the block when there is an `else' or an `elif':
\* the jump over the `then' body goes to what follows it, the jump over that to
\* the end.
ClosedAt(block, start, else_start) ==
  PatchTo(PatchTo(block, start, else_start), else_start - 3, Len(block))

LEMMA CodedClose ==
  ASSUME NEW block, NEW owed, NEW labels, NEW dests, Coded(block, owed, labels, dests),
         NEW start \in owed, NEW else_start \in labels,
         else_start - 3 \in owed, start + 3 <= else_start - 3, else_start < Len(block),
         At(block, start) \notin T_OP_FOR_STARTS,
         At(block, else_start - 3) \notin T_OP_FOR_STARTS,
         Fits(start, else_start), Fits(else_start - 3, Len(block)),
         \A x \in owed : x = else_start - 3 \/ x = start \/ x + 3 <= start,
         NEW labels2, labels2 \subseteq labels, \A l \in labels2 : l <= start
  PROVE  /\ Coded(ClosedAt(block, start, else_start),
                  Without(Without(owed, else_start - 3), start), labels2,
                  With(With(dests, Len(block)), else_start))
         /\ Len(ClosedAt(block, start, else_start)) = Len(block)
         /\ TStarts(ClosedAt(block, start, else_start)) = TStarts(block)
         /\ \A ip \in TStarts(block) :
              At(ClosedAt(block, start, else_start), ip) = At(block, ip)
<1> DEFINE n       == Len(block)
           jump    == else_start - 3
           skip    == else_start - start - 1
           leap    == n - jump - 1
           skipped == overwrite_s16(block, start + 1, skip)
           both    == overwrite_s16(skipped, jump + 1, leap)
           new     == {start, jump}
           owed2   == owed \ new
           dests2  == dests \cup {JumpDest(both, x) : x \in new}
<1>1. /\ n \in Nat
      /\ \A x \in owed : x \in Nat /\ x \in TJumps(block)
      /\ \A l \in labels : l \in Nat
      /\ TJumps(block) \subseteq TStarts(block)
      /\ WholeBlock(block)
  <2>1. /\ n \in Nat
        /\ TStarts(block) \subseteq 0..(n - 1)
        /\ Places(block) \subseteq 0..n
        /\ labels \subseteq Places(block)
        /\ owed \subseteq TJumps(block)
        /\ TJumps(block) \subseteq TStarts(block)
        /\ WholeBlock(block)
    BY CodedFacts DEF TJumps
  <2>2. \A x \in owed : x \in Nat /\ x \in TJumps(block)
    BY <2>1
  <2>3. \A l \in labels : l \in Nat
    BY <2>1, PlacesType, Zenon
  <2>4. QED
    BY <2>1, <2>2, <2>3
<1>2. /\ start \in Nat /\ jump \in Nat /\ else_start = jump + 3
      /\ start + 3 <= jump /\ jump + 3 < n
      /\ skip \in Nat /\ skip > 0 /\ leap \in Nat /\ leap > 0
      /\ start # jump
  BY <1>1
<1>3. InS16(skip) /\ InS16(leap)
  BY DEF Fits
<1>4. ClosedAt(block, start, else_start) = both
  BY DEF ClosedAt, PatchTo, Patched
<1> HIDE DEF n, jump, skip, leap, skipped, both
<1>5. /\ WholeBlock(skipped)
      /\ Len(skipped) = n
      /\ TStarts(skipped) = TStarts(block)
      /\ TJumps(skipped) = TJumps(block)
      /\ \A ip \in TStarts(block) : At(skipped, ip) = At(block, ip)
      /\ \A ip \in TJumps(block) :
           ip # start => read_s16(skipped, ip + 1) = read_s16(block, ip + 1)
      /\ read_s16(skipped, start + 1) = skip
  <2>1. start \in TJumps(block) /\ skip \in Int
    BY <1>1, <1>2
  <2>2. QED
    BY <1>1, <1>3, <2>1, PatchJump, ZenonT(60) DEF skipped, n
<1>6. /\ WholeBlock(both)
      /\ Len(both) = n
      /\ TStarts(both) = TStarts(block)
      /\ TJumps(both) = TJumps(block)
      /\ \A ip \in TStarts(block) : At(both, ip) = At(skipped, ip)
      /\ \A ip \in TJumps(block) :
           ip # jump => read_s16(both, ip + 1) = read_s16(skipped, ip + 1)
      /\ read_s16(both, jump + 1) = leap
  <2>1. jump \in TJumps(skipped) /\ leap \in Int
    BY <1>1, <1>2, <1>5 DEF jump
  <2>2. WholeBlock(skipped) /\ InS16(leap)
    BY <1>3, <1>5
  <2>3. /\ WholeBlock(both)
        /\ Len(both) = Len(skipped)
        /\ TStarts(both) = TStarts(skipped)
        /\ TJumps(both) = TJumps(skipped)
        /\ \A ip \in TStarts(skipped) : At(both, ip) = At(skipped, ip)
        /\ \A ip \in TJumps(skipped) :
             ip # jump => read_s16(both, ip + 1) = read_s16(skipped, ip + 1)
        /\ read_s16(both, jump + 1) = leap
    BY <2>1, <2>2, PatchJump DEF both
  <2>4. QED
    BY <1>5, <2>3
<1>7. /\ \A ip \in TStarts(block) : At(both, ip) = At(block, ip)
      /\ \A ip \in TJumps(block) \ new : read_s16(both, ip + 1) = read_s16(block, ip + 1)
      /\ read_s16(both, start + 1) = skip
  BY <1>1, <1>2, <1>5, <1>6
<1>8. /\ JumpDest(both, start) = else_start
      /\ JumpDest(both, jump) = n
  BY <1>2, <1>6, <1>7 DEF JumpDest, skip, leap
<1>9. \A x \in owed2 : x \in Nat /\ x + 3 <= start
  BY <1>1 DEF jump
<1>10. PassesNone(start, else_start, owed2) /\ PassesNone(jump, n, owed2)
  <2>1. ASSUME NEW x \in owed2
        PROVE  start > x /\ else_start >= x + 3 /\ jump > x /\ n >= x + 3
    BY <1>1, <1>2, <1>9
  <2>2. QED
    BY <2>1 DEF PassesNone
<1>11. PassesNoLabel(start, else_start, labels2) /\ PassesNoLabel(jump, n, labels2)
  <2>1. ASSUME NEW l \in labels2 PROVE l <= start /\ l <= jump
    <3>1. l \in Nat /\ l <= start
      BY <1>1
    <3>2. QED
      BY <1>2, <3>1
  <2>2. QED
    BY <2>1 DEF PassesNoLabel
<1>12. ASSUME NEW b \in new
       PROVE  /\ At(block, b) \notin T_OP_FOR_STARTS
              /\ InS16(read_s16(both, b + 1))
              /\ read_s16(both, b + 1) \in Nat
              /\ read_s16(both, b + 1) > 0
              /\ JumpDest(both, b) \in labels \/ JumpDest(both, b) = n
              /\ PassesNone(b, JumpDest(both, b), owed2)
              /\ PassesNoLabel(b, JumpDest(both, b), labels2)
  <2>1. CASE b = start
    BY <1>2, <1>3, <1>7, <1>8, <1>10, <1>11, <2>1
  <2>2. CASE b = jump
    BY <1>2, <1>3, <1>6, <1>8, <1>10, <1>11, <2>2 DEF jump
  <2>3. QED
    BY <2>1, <2>2
<1>13. new \subseteq owed
  BY DEF jump
<1>14. /\ owed2 = owed \ new
       /\ dests2 = dests \cup {JumpDest(both, x) : x \in new}
       /\ dests2 = With(With(dests, n), else_start)
       /\ owed2 = Without(Without(owed, jump), start)
  BY <1>8 DEF With, Without
<1> HIDE DEF new, owed2, dests2
<1>15. Coded(both, owed2, labels2, dests2)
  BY <1>6, <1>7, <1>12, <1>13, <1>14, CodedResolve DEF n
<1>16. QED
  BY <1>4, <1>6, <1>7, <1>14, <1>15 DEF n, jump

-----------------------------------------------------------------------------
(* Stacks of frames.                                                       *)

\* d is the stack p with the frame g on top.
Pushed(d, p, g) ==
  \E n \in Nat : /\ DOMAIN p = 1..n /\ Len(p) = n
                 /\ DOMAIN d = 1..(n + 1) /\ Len(d) = n + 1
                 /\ \A i \in 1..n : d[i] = p[i]
                 /\ d[n + 1] = g

LEMMA PushAppend ==
  ASSUME NEW S, NEW p \in Seq(S), NEW g \in S
  PROVE  Pushed(Append(p, g), p, g)
<1> DEFINE d == Append(p, g)
           n == Len(p)
<1>1. /\ d \in Seq(S)
      /\ Len(d) = n + 1
      /\ \A i \in 1..n : d[i] = p[i]
      /\ d[n + 1] = g
  BY AppendProperties
<1> HIDE DEF d
<1>2. n \in Nat /\ DOMAIN p = 1..n /\ DOMAIN d = 1..Len(d)
  BY <1>1, LenProperties
<1> HIDE DEF n
<1>3. Len(p) = n
  BY DEF n
<1>4. Pushed(d, p, g)
  BY <1>1, <1>2, <1>3, Zenon DEF Pushed
<1>5. QED
  BY <1>4 DEF d

\* A stack is what it is without its top, with its top on it.
LEMMA PushTop ==
  ASSUME NEW S, NEW c \in Seq(S), c # <<>>
  PROVE  /\ SubSeq(c, 1, Len(c) - 1) \in Seq(S)
         /\ Pushed(c, SubSeq(c, 1, Len(c) - 1), c[Len(c)])
<1> DEFINE n == Len(c) - 1
           p == SubSeq(c, 1, n)
<1>1. n \in Nat /\ Len(c) = n + 1 /\ DOMAIN c = 1..Len(c)
  BY EmptySeq, LenProperties
<1>2. \A i \in 1..n : c[i] \in S
  BY <1>1, ElementOfSeq
<1> HIDE DEF n
<1>3. /\ p \in Seq(S)
      /\ Len(p) = n
      /\ \A i \in 1..n : p[i] = c[i]
  BY <1>1, <1>2, SubSeqProperties
<1> HIDE DEF p
<1>4. DOMAIN p = 1..n
  BY <1>3, LenProperties
<1>5. Pushed(c, p, c[n + 1])
  BY <1>1, <1>3, <1>4, Zenon DEF Pushed
<1>6. QED
  BY <1>1, <1>3, <1>5 DEF p, n

\* The top of a stack replaced.
LEMMA PushOther ==
  ASSUME NEW S, NEW c \in Seq(S), c # <<>>, NEW g \in S
  PROVE  Pushed([c EXCEPT ![Len(c)] = g], SubSeq(c, 1, Len(c) - 1), g)
<1> DEFINE n == Len(c) - 1
           p == SubSeq(c, 1, n)
           d == [c EXCEPT ![Len(c)] = g]
<1>1. n \in Nat /\ Len(c) = n + 1 /\ Len(c) \in 1..Len(c)
  BY EmptySeq, LenProperties
<1>2. /\ d \in Seq(S)
      /\ Len(d) = Len(c)
      /\ \A i \in 1..Len(c) : d[i] = IF i = Len(c) THEN g ELSE c[i]
  BY <1>1, ExceptSeq
<1> HIDE DEF d
<1>3. DOMAIN d = 1..Len(d)
  BY <1>2, LenProperties
<1>4. \A i \in 1..n : c[i] \in S
  BY <1>1, ElementOfSeq
<1> HIDE DEF n
<1>5. /\ p \in Seq(S)
      /\ Len(p) = n
      /\ \A i \in 1..n : p[i] = c[i]
  BY <1>1, <1>4, SubSeqProperties
<1> HIDE DEF p
<1>6. DOMAIN p = 1..n
  BY <1>5, LenProperties
<1>7. (\A i \in 1..n : d[i] = p[i]) /\ d[n + 1] = g /\ Len(d) = n + 1
  BY <1>1, <1>2, <1>5
<1>8. Pushed(d, p, g)
  BY <1>1, <1>3, <1>5, <1>6, <1>7, Zenon DEF Pushed
<1>9. QED
  BY <1>8 DEF d, p, n

LEMMA PushedFrames ==
  ASSUME NEW d, NEW p, NEW g, Pushed(d, p, g), NEW f
  PROVE  FramesOf(d, f) = FramesOf(p, f) \cup (IF g.func = f THEN {g} ELSE {})
<1>1. PICK n \in Nat : /\ DOMAIN p = 1..n
                       /\ DOMAIN d = 1..(n + 1)
                       /\ \A i \in 1..n : d[i] = p[i]
                       /\ d[n + 1] = g
  BY DEF Pushed
<1>2. DOMAIN d = DOMAIN p \cup {n + 1} /\ \A i \in DOMAIN p : d[i] = p[i]
  BY <1>1
<1>3. QED
  BY <1>1, <1>2 DEF FramesOf

LEMMA PushedOrdered ==
  ASSUME NEW d, NEW p, NEW g, Pushed(d, p, g)
  PROVE  Ordered(d) <=> Ordered(p) /\ \A frame \in FramesOf(p, g.func) : Above({frame}, g)
<1>1. PICK n \in Nat : /\ DOMAIN p = 1..n /\ Len(p) = n
                       /\ DOMAIN d = 1..(n + 1) /\ Len(d) = n + 1
                       /\ \A i \in 1..n : d[i] = p[i]
                       /\ d[n + 1] = g
  BY DEF Pushed
<1>2. Ordered(p) <=> \A i, j \in 1..n : i < j /\ p[i].func = p[j].func => Above({p[i]}, p[j])
  BY <1>1 DEF Ordered
<1>3. Ordered(d) <=> \A i, j \in 1..(n + 1) :
                       i < j /\ d[i].func = d[j].func => Above({d[i]}, d[j])
  BY <1>1 DEF Ordered
<1>4. (\A frame \in FramesOf(p, g.func) : Above({frame}, g))
        <=> \A i \in 1..n : p[i].func = g.func => Above({p[i]}, g)
  BY <1>1 DEF FramesOf
<1>5. ASSUME Ordered(d)
      PROVE  Ordered(p) /\ \A i \in 1..n : p[i].func = g.func => Above({p[i]}, g)
  <2>1. ASSUME NEW i \in 1..n, NEW j \in 1..n, i < j, p[i].func = p[j].func
        PROVE  Above({p[i]}, p[j])
    BY <1>1, <1>3, <1>5, <2>1
  <2>2. ASSUME NEW i \in 1..n, p[i].func = g.func
        PROVE  Above({p[i]}, g)
    <3>1. i \in 1..(n + 1) /\ n + 1 \in 1..(n + 1) /\ i < n + 1 /\ d[i] = p[i]
      BY <1>1
    <3>2. QED
      BY <1>1, <1>3, <1>5, <2>2, <3>1, Zenon
  <2>3. QED
    BY <1>2, <2>1, <2>2
<1>6. ASSUME Ordered(p), \A i \in 1..n : p[i].func = g.func => Above({p[i]}, g)
      PROVE  Ordered(d)
  <2>1. ASSUME NEW i \in 1..(n + 1), NEW j \in 1..(n + 1), i < j, d[i].func = d[j].func
        PROVE  Above({d[i]}, d[j])
    <3>1. i \in 1..n /\ d[i] = p[i]
      BY <1>1, <2>1
    <3>2. CASE j \in 1..n
      BY <1>1, <1>2, <1>6, <2>1, <3>1, <3>2
    <3>3. CASE j = n + 1
      BY <1>1, <1>6, <2>1, <3>1, <3>3
    <3>4. QED
      BY <3>2, <3>3
  <2>2. QED
    BY <1>3, <2>1
<1>7. QED
  BY <1>4, <1>5, <1>6

\* A frame lies above each of some frames just when it lies above all of them.
LEMMA AboveEach ==
  ASSUME NEW frames, NEW g
  PROVE  (\A frame \in frames : Above({frame}, g)) <=> Above(frames, g)
<1>1. ASSUME NEW frame PROVE OwedIn({frame}) = Owed(frame) /\ LabelsIn({frame}) = Labels(frame)
  BY DEF OwedIn, LabelsIn
<1>2. \A b : b \in OwedIn(frames) <=> \E frame \in frames : b \in Owed(frame)
  BY DEF OwedIn
<1>3. \A l : l \in LabelsIn(frames) <=> \E frame \in frames : l \in Labels(frame)
  BY DEF LabelsIn
<1>4. ASSUME NEW frame
      PROVE  Above({frame}, g)
               <=> /\ \A b \in Owed(frame) : \A x \in Owed(g) \cup Labels(g) : b + 3 <= x
                   /\ \A l \in Labels(frame) : \A x \in Owed(g) \cup Labels(g) : l <= x
  BY <1>1, Zenon DEF Above
<1>5. Above(frames, g)
        <=> /\ \A b \in OwedIn(frames) : \A x \in Owed(g) \cup Labels(g) : b + 3 <= x
            /\ \A l \in LabelsIn(frames) : \A x \in Owed(g) \cup Labels(g) : l <= x
  BY Zenon DEF Above
<1>6. ASSUME Above(frames, g), NEW frame \in frames
      PROVE  Above({frame}, g)
  BY <1>2, <1>3, <1>4, <1>5, <1>6, Zenon
<1>7. ASSUME \A frame \in frames : Above({frame}, g)
      PROVE  Above(frames, g)
  <2>1. \A b \in OwedIn(frames) : \A x \in Owed(g) \cup Labels(g) : b + 3 <= x
    BY <1>2, <1>4, <1>7, Zenon
  <2>2. \A l \in LabelsIn(frames) : \A x \in Owed(g) \cup Labels(g) : l <= x
    BY <1>3, <1>4, <1>7, Zenon
  <2>3. QED
    BY <1>5, <2>1, <2>2, Zenon
<1>8. QED
  BY <1>6, <1>7

LEMMA OwedUnion ==
  ASSUME NEW F, NEW t
  PROVE  /\ OwedIn(F \cup {t}) = OwedIn(F) \cup Owed(t)
         /\ LabelsIn(F \cup {t}) = LabelsIn(F) \cup Labels(t)
BY DEF OwedIn, LabelsIn

-----------------------------------------------------------------------------
(* Blocks and the frames that work in them.                                *)

LEMMA OKFacts ==
  ASSUME NEW block, NEW F, NEW dests, BlockOK(block, F, dests)
  PROVE  /\ Coded(block, OwedIn(F), LabelsIn(F), dests)
         /\ block \in Seq(Nat)
         /\ Len(block) \in Nat
         /\ WholeBlock(block)
         /\ \A frame \in F : /\ Shaped(frame, block)
                             /\ Owed(frame) \subseteq TJumps(block)
                             /\ Owed(frame) \subseteq TStarts(block)
                             /\ Labels(frame) \subseteq Places(block)
<1>1. Coded(block, OwedIn(F), LabelsIn(F), dests)
  BY DEF BlockOK
<1>2. /\ block \in Seq(Nat)
      /\ Len(block) \in Nat
      /\ WholeBlock(block)
      /\ OwedIn(F) \subseteq TJumps(block)
      /\ LabelsIn(F) \subseteq Places(block)
  BY <1>1, CodedFacts
<1>3. TJumps(block) \subseteq TStarts(block)
  BY DEF TJumps
<1>4. ASSUME NEW frame \in F
      PROVE  Owed(frame) \subseteq OwedIn(F) /\ Labels(frame) \subseteq LabelsIn(F)
  BY DEF OwedIn, LabelsIn
<1>5. \A frame \in F : Shaped(frame, block)
  BY DEF BlockOK
<1>6. QED
  BY <1>1, <1>2, <1>3, <1>4, <1>5, Zenon

\* The instructions a frame counts on are ones it has yet to patch.
LEMMA ShapedKept ==
  ASSUME NEW frame, NEW block, Shaped(frame, block), Owed(frame) \subseteq TStarts(block),
         NEW block2, \A ip \in TStarts(block) : At(block2, ip) = At(block, ip)
  PROVE  Shaped(frame, block2)
<1>1. /\ frame.kind \in {"then", "else", "elif"} => frame.start \in Owed(frame)
      /\ frame.kind \in {"else", "elif"} => frame.body - 3 \in Owed(frame)
      /\ frame.kind = "while_body" => frame.body \in Owed(frame)
      /\ frame.kind = "for_body" => frame.start \in Owed(frame)
  BY DEF Owed
<1>2. \A ip \in Owed(frame) : At(block2, ip) = At(block, ip)
  OBVIOUS
<1>3. frame.kind \in {"then", "else", "elif"} => At(block2, frame.start) = At(block, frame.start)
  BY <1>1, <1>2, Zenon
<1>4. frame.kind \in {"else", "elif"} => At(block2, frame.body - 3) = At(block, frame.body - 3)
  BY <1>1, <1>2, Zenon
<1>5. frame.kind = "while_body" => At(block2, frame.body) = At(block, frame.body)
  BY <1>1, <1>2, Zenon
<1>6. frame.kind = "for_body" => At(block2, frame.start) = At(block, frame.start)
  BY <1>1, <1>2, Zenon
<1>7. QED
  BY <1>3, <1>4, <1>5, <1>6 DEF Shaped

\* What a step has to show of the block it writes to.
LEMMA OKMoved ==
  ASSUME NEW block, NEW F, NEW dests, BlockOK(block, F, dests),
         NEW block2, NEW G, NEW dests2,
         \A ip \in TStarts(block) : At(block2, ip) = At(block, ip),
         Coded(block2, OwedIn(G), LabelsIn(G), dests2),
         \A frame \in G : frame \in F \/ Shaped(frame, block2)
  PROVE  BlockOK(block2, G, dests2)
<1>1. ASSUME NEW frame \in F PROVE Shaped(frame, block2)
  BY OKFacts, ShapedKept
<1>2. QED
  BY <1>1 DEF BlockOK

\* A frame that owes nothing may go.
LEMMA OKDrop ==
  ASSUME NEW block, NEW F, NEW dests, NEW t, BlockOK(block, F \cup {t}, dests), Owed(t) = {}
  PROVE  BlockOK(block, F, dests)
<1>1. Coded(block, OwedIn(F \cup {t}), LabelsIn(F \cup {t}), dests)
  BY DEF BlockOK
<1>2. OwedIn(F \cup {t}) = OwedIn(F) /\ LabelsIn(F) \subseteq LabelsIn(F \cup {t})
  BY OwedUnion, SMTT(40)
<1>3. Coded(block, OwedIn(F), LabelsIn(F \cup {t}), dests)
  BY <1>1, <1>2
<1>4. Coded(block, OwedIn(F), LabelsIn(F), dests)
  BY <1>2, <1>3, CodedLabels
<1>5. QED
  BY <1>4 DEF BlockOK

\* A frame that owes nothing may come, if it has no label or the end for one.
LEMMA OKPush ==
  ASSUME NEW block, NEW F, NEW dests, NEW g, BlockOK(block, F, dests),
         Owed(g) = {}, Labels(g) \subseteq {Len(block)}, Shaped(g, block)
  PROVE  BlockOK(block, F \cup {g}, dests)
<1>1. Coded(block, OwedIn(F), LabelsIn(F), dests)
  BY DEF BlockOK
<1>2. /\ OwedIn(F \cup {g}) = OwedIn(F)
      /\ \A l \in LabelsIn(F \cup {g}) : l \in LabelsIn(F) \/ l = Len(block)
  <2>1. /\ OwedIn(F \cup {g}) = OwedIn(F) \cup Owed(g)
        /\ LabelsIn(F \cup {g}) = LabelsIn(F) \cup Labels(g)
    BY OwedUnion
  <2>2. QED
    BY <2>1
<1>3. Coded(block, OwedIn(F), LabelsIn(F \cup {g}), dests)
  BY <1>1, <1>2, CodedLabels
<1>4. QED
  BY <1>2, <1>3 DEF BlockOK

\* An instruction that is not a jump.
LEMMA OKPlain ==
  ASSUME NEW block, NEW F, NEW dests, BlockOK(block, F, dests),
         NEW bytes \in Seq(Nat), Len(bytes) = t_instruction_size(At(bytes, 0)),
         ~is_t_jump(At(bytes, 0))
  PROVE  BlockOK(block \o bytes, F, dests)
<1>1. Coded(block, OwedIn(F), LabelsIn(F), dests) /\ WholeBlock(block)
  BY OKFacts
<1>2. Coded(block \o bytes, OwedIn(F), LabelsIn(F), dests)
  BY <1>1, CodedPlain
<1>3. \A ip \in TStarts(block) : At(block \o bytes, ip) = At(block, ip)
  BY <1>1, AppendInstruction
<1>4. QED
  BY <1>2, <1>3, OKMoved

\* A placeholder jump, owed by the frame g that takes the place of t.
LEMMA OKOwe ==
  ASSUME NEW block, NEW F, NEW dests, NEW t, BlockOK(block, F \cup {t}, dests),
         NEW op \in Nat, is_t_jump(op),
         NEW g, Owed(g) = Owed(t) \cup {Len(block)},
         Labels(g) \subseteq Labels(t) \cup {Len(block) + 3},
         NEW longer, longer = block \o (<<op>> \o U16(0)),
         Shaped(g, longer)
  PROVE  BlockOK(longer, F \cup {g}, dests)
<1>1. /\ Coded(block, OwedIn(F \cup {t}), LabelsIn(F \cup {t}), dests)
      /\ WholeBlock(block)
      /\ block \in Seq(Nat)
  BY OKFacts
<1>2. /\ OwedIn(F \cup {g}) = OwedIn(F \cup {t}) \cup {Len(block)}
      /\ \A l \in LabelsIn(F \cup {g}) : l \in LabelsIn(F \cup {t}) \/ l = Len(block) + 3
  <2>1. /\ OwedIn(F \cup {g}) = OwedIn(F) \cup Owed(g)
        /\ LabelsIn(F \cup {g}) = LabelsIn(F) \cup Labels(g)
    BY OwedUnion
  <2>2. /\ OwedIn(F \cup {t}) = OwedIn(F) \cup Owed(t)
        /\ LabelsIn(F \cup {t}) = LabelsIn(F) \cup Labels(t)
    BY OwedUnion
  <2>3. QED
    BY <2>1, <2>2
<1>3. Coded(longer, OwedIn(F \cup {t}) \cup {Len(block)}, LabelsIn(F \cup {g}), dests)
  BY <1>1, <1>2, CodedOwe
<1>4. \A ip \in TStarts(block) : At(longer, ip) = At(block, ip)
  <2> DEFINE bytes == <<op>> \o U16(0)
  <2>1. bytes \in Seq(Nat) /\ Len(bytes) = 3 /\ At(bytes, 0) = op
    BY <1>1, EmittedOperand
  <2> HIDE DEF bytes
  <2>2. Len(bytes) = t_instruction_size(At(bytes, 0))
    BY <2>1, JumpSize
  <2>3. \A ip \in TStarts(block) : At(block \o bytes, ip) = At(block, ip)
    BY <1>1, <2>1, <2>2, AppendInstruction
  <2>4. QED
    BY <2>3 DEF bytes
<1> DEFINE before == F \cup {t}
           after  == F \cup {g}
<1>5. \A frame \in after : frame \in before \/ Shaped(frame, longer)
  OBVIOUS
<1>6. Coded(longer, OwedIn(after), LabelsIn(after), dests)
  BY <1>2, <1>3
<1>7. BlockOK(block, before, dests)
  OBVIOUS
<1> HIDE DEF before, after
<1>8. BlockOK(longer, after, dests)
  BY <1>4, <1>5, <1>6, <1>7, OKMoved
<1>9. QED
  BY <1>8 DEF after

\* What is owed lies before the end.
LEMMA AboveKept ==
  ASSUME NEW block, NEW F, NEW dests, NEW t, BlockOK(block, F \cup {t}, dests), Above(F, t),
         NEW g,
         \A x \in Owed(g) : x \in Owed(t) \/ (x \in Nat /\ x >= Len(block)),
         \A x \in Labels(g) : x \in Owed(t) \cup Labels(t) \/ (x \in Nat /\ x >= Len(block))
  PROVE  Above(F, g)
<1>1. /\ WholeBlock(block)
      /\ Len(block) \in Nat
      /\ Places(block) \subseteq 0..Len(block)
      /\ OwedIn(F \cup {t}) \subseteq TJumps(block)
      /\ LabelsIn(F \cup {t}) \subseteq Places(block)
  BY CodedFacts DEF BlockOK
<1>2. OwedIn(F) \subseteq TJumps(block) /\ LabelsIn(F) \subseteq Places(block)
  BY <1>1, OwedUnion, ZenonT(60)
<1>3. ASSUME NEW b \in OwedIn(F), NEW x \in Nat, x >= Len(block) PROVE b + 3 <= x
  <2>1. b + 3 <= Len(block) /\ b \in Nat
    BY <1>1, <1>2, JumpFits
  <2>2. QED
    BY <1>1, <1>3, <2>1
<1>4. ASSUME NEW l \in LabelsIn(F), NEW x \in Nat, x >= Len(block) PROVE l <= x
  <2>1. l \in Nat /\ l <= Len(block)
    BY <1>1, <1>2, PlacesType, Zenon
  <2>2. QED
    BY <1>1, <1>4, <2>1
<1>5. /\ \A b \in OwedIn(F) : \A x \in Owed(t) \cup Labels(t) : b + 3 <= x
      /\ \A l \in LabelsIn(F) : \A x \in Owed(t) \cup Labels(t) : l <= x
  BY Zenon DEF Above
<1>6. ASSUME NEW b \in OwedIn(F), NEW x \in Owed(g) \cup Labels(g) PROVE b + 3 <= x
  BY <1>3, <1>5
<1>7. ASSUME NEW l \in LabelsIn(F), NEW x \in Owed(g) \cup Labels(g) PROVE l <= x
  BY <1>4, <1>5
<1>8. QED
  BY <1>6, <1>7, Zenon DEF Above

\* What a frame owes is last, so nothing else goes when it is patched.
LEMMA OwedLast ==
  ASSUME NEW block, NEW F, NEW dests, NEW t, BlockOK(block, F \cup {t}, dests), Above(F, t)
  PROVE  /\ Coded(block, OwedIn(F) \cup Owed(t), LabelsIn(F) \cup Labels(t), dests)
         /\ OwedIn(F) \cap Owed(t) = {}
         /\ \A x \in OwedIn(F) : x \in Nat /\ \A y \in Owed(t) \cup Labels(t) : x + 3 <= y
         /\ \A l \in LabelsIn(F) : l \in Nat /\ \A y \in Owed(t) \cup Labels(t) : l <= y
         /\ \A y \in Owed(t) : y \in Nat /\ y + 3 <= Len(block) /\ y \in TStarts(block)
         /\ \A l \in Labels(t) : l \in Nat /\ l <= Len(block)
         /\ Len(block) \in Nat
<1>1. Coded(block, OwedIn(F) \cup Owed(t), LabelsIn(F) \cup Labels(t), dests)
  BY OwedUnion DEF BlockOK
<1> DEFINE owed   == OwedIn(F) \cup Owed(t)
           labels == LabelsIn(F) \cup Labels(t)
<1>2. Coded(block, owed, labels, dests)
  BY <1>1
<1> HIDE DEF owed, labels
<1>3. /\ WholeBlock(block)
      /\ Len(block) \in Nat
      /\ Places(block) \subseteq 0..Len(block)
      /\ owed \subseteq TJumps(block)
      /\ labels \subseteq Places(block)
  BY <1>2, CodedFacts
<1>4. \A l \in labels : l \in Nat /\ l <= Len(block)
  BY <1>3, PlacesType, Zenon
<1>5. \A x \in owed : x \in Nat /\ x + 3 <= Len(block) /\ x \in TStarts(block)
  BY <1>3, JumpFits
<1>6. /\ \A b \in OwedIn(F) : \A x \in Owed(t) \cup Labels(t) : b + 3 <= x
      /\ \A l \in LabelsIn(F) : \A x \in Owed(t) \cup Labels(t) : l <= x
  BY Zenon DEF Above
<1>7. OwedIn(F) \cap Owed(t) = {}
  <2>1. ASSUME NEW x \in OwedIn(F), x \in Owed(t) PROVE FALSE
    <3>1. x \in Nat /\ x + 3 <= x
      BY <1>5, <1>6, <2>1 DEF owed
    <3>2. QED
      BY <3>1
  <2>2. QED
    BY <2>1
<1>8. QED
  BY <1>1, <1>3, <1>4, <1>5, <1>6, <1>7 DEF owed, labels

\* A frame that owes nothing any more is closed.
LEMMA OKPopped ==
  ASSUME NEW block, NEW F, NEW dests, NEW t, BlockOK(block, F \cup {t}, dests),
         NEW patched, NEW dests2,
         Coded(patched, OwedIn(F), LabelsIn(F), dests2),
         \A ip \in TStarts(block) : At(patched, ip) = At(block, ip)
  PROVE  BlockOK(patched, F, dests2)
<1> DEFINE G == F \cup {t}
<1>1. BlockOK(block, G, dests) /\ \A frame \in F : frame \in G \/ Shaped(frame, patched)
  OBVIOUS
<1> HIDE DEF G
<1>2. QED
  BY <1>1, OKMoved

\* The end of an `if' without an `else'.
LEMMA OKEndThen ==
  ASSUME NEW block, NEW F, NEW dests, NEW t, BlockOK(block, F \cup {t}, dests), Above(F, t),
         t.kind = "then", Fits(t.start, Len(block))
  PROVE  BlockOK(PatchTo(block, t.start, Len(block)), F, With(dests, Len(block)))
<1> DEFINE b == t.start
           n == Len(block)
           owed == OwedIn(F) \cup Owed(t)
           labels == LabelsIn(F) \cup Labels(t)
<1>1. Owed(t) = {b} /\ Labels(t) = {}
  BY DEF Owed, Labels
<1>2. /\ Coded(block, owed, labels, dests)
      /\ OwedIn(F) \cap Owed(t) = {}
      /\ \A x \in OwedIn(F) : x \in Nat /\ \A y \in Owed(t) \cup Labels(t) : x + 3 <= y
      /\ \A l \in LabelsIn(F) : l \in Nat /\ l <= b
      /\ b \in Nat /\ b + 3 <= n /\ n \in Nat
  BY <1>1, OwedLast
<1>3. At(block, b) \notin T_OP_FOR_STARTS
  BY DEF BlockOK, Shaped, T_OP_FOR_STARTS, T_OP_JUMP_NCOND, T_OP_FOR_DEC_START,
         T_OP_FOR_INC_START
<1>4. PassesNone(b, n, owed)
  <2>1. ASSUME NEW x \in OwedIn(F) PROVE b > x /\ n >= x + 3
    BY <1>1, <1>2
  <2>2. QED
    BY <1>1, <2>1 DEF PassesNone
<1>5. /\ b \in owed /\ n > b + 1
      /\ LabelsIn(F) \subseteq labels /\ PassesNoLabel(b, n, LabelsIn(F))
  BY <1>1, <1>2 DEF PassesNoLabel
<1>6. Without(owed, b) = OwedIn(F)
  BY <1>1, <1>2 DEF Without
<1> DEFINE patched == PatchTo(block, b, n)
           dests2  == With(dests, n)
<1> HIDE DEF owed, labels
<1>7. /\ Coded(patched, OwedIn(F), LabelsIn(F), dests2)
      /\ Len(patched) = Len(block)
      /\ \A ip \in TStarts(block) : At(patched, ip) = At(block, ip)
  BY <1>2, <1>3, <1>4, <1>5, <1>6, CodedPatch
<1> HIDE DEF b, n, patched, dests2
<1>8. QED
  BY <1>7, OKPopped DEF patched, dests2, b, n

\* The end of an `if' with an `else' or an `elif'.
LEMMA OKEndElse ==
  ASSUME NEW block, NEW F, NEW dests, NEW t, BlockOK(block, F \cup {t}, dests), Above(F, t),
         t.kind \in {"else", "elif"}, t.body < Len(block),
         Fits(t.start, t.body), Fits(t.body - 3, Len(block))
  PROVE  /\ BlockOK(ClosedAt(block, t.start, t.body), F,
                    With(With(dests, Len(block)), t.body))
         /\ Len(ClosedAt(block, t.start, t.body)) = Len(block)
<1> DEFINE b == t.start
           e == t.body
           n == Len(block)
           owed == OwedIn(F) \cup Owed(t)
           labels == LabelsIn(F) \cup Labels(t)
           patched == ClosedAt(block, b, e)
           dests2  == With(With(dests, n), e)
<1>1. Owed(t) = {b, e - 3} /\ Labels(t) = {e}
  BY DEF Owed, Labels
<1>2. /\ Coded(block, owed, labels, dests)
      /\ OwedIn(F) \cap Owed(t) = {}
      /\ \A x \in OwedIn(F) : x \in Nat /\ \A y \in Owed(t) \cup Labels(t) : x + 3 <= y
      /\ \A l \in LabelsIn(F) : l <= b
  BY <1>1, OwedLast
<1>3. /\ Shaped(t, block)
      /\ At(block, b) = T_OP_JUMP_NCOND
      /\ At(block, e - 3) = T_OP_JUMP
      /\ b + 3 <= e - 3
  BY DEF BlockOK, Shaped
<1>4. At(block, b) \notin T_OP_FOR_STARTS /\ At(block, e - 3) \notin T_OP_FOR_STARTS
  BY <1>3 DEF T_OP_FOR_STARTS, T_OP_JUMP_NCOND, T_OP_JUMP, T_OP_FOR_DEC_START,
              T_OP_FOR_INC_START
<1>5. \A x \in owed : x = e - 3 \/ x = b \/ x + 3 <= b
  BY <1>1, <1>2
<1>6. b \in owed /\ e - 3 \in owed /\ e \in labels /\ LabelsIn(F) \subseteq labels
  BY <1>1
<1>7. Without(Without(owed, e - 3), b) = OwedIn(F)
  BY <1>1, <1>2 DEF Without
<1> DEFINE kept == LabelsIn(F)
           rest == OwedIn(F)
<1>8. /\ Coded(block, owed, labels, dests)
      /\ b \in owed /\ e \in labels /\ e - 3 \in owed
      /\ b + 3 <= e - 3 /\ e < Len(block)
      /\ At(block, b) \notin T_OP_FOR_STARTS /\ At(block, e - 3) \notin T_OP_FOR_STARTS
      /\ Fits(b, e) /\ Fits(e - 3, Len(block))
      /\ \A x \in owed : x = e - 3 \/ x = b \/ x + 3 <= b
      /\ kept \subseteq labels /\ \A l \in kept : l <= b
      /\ Without(Without(owed, e - 3), b) = rest
  BY <1>2, <1>3, <1>4, <1>5, <1>6, <1>7
<1> HIDE DEF owed, labels, kept, rest, patched, dests2, b, e, n
<1>9. /\ Coded(patched, rest, kept, dests2)
      /\ Len(patched) = Len(block)
      /\ \A ip \in TStarts(block) : At(patched, ip) = At(block, ip)
  BY <1>8, CodedClose DEF patched, dests2, n
<1>10. BlockOK(patched, F, dests2)
  BY <1>9, OKPopped DEF kept, rest
<1>11. QED
  BY <1>9, <1>10 DEF patched, dests2, b, e, n

\* The end of a `while'.
LEMMA OKEndWhile ==
  ASSUME NEW block, NEW F, NEW dests, NEW t, BlockOK(block, F \cup {t}, dests), Above(F, t),
         t.kind = "while_body",
         Fits(Len(block), t.start), Fits(t.body, Len(block) + 3)
  PROVE  /\ BlockOK(LoopEnd(block, T_OP_JUMP, t.start, t.body), F,
                    With(With(dests, t.start), Len(block) + 3))
         /\ Len(LoopBack(block, T_OP_JUMP, t.start)) = Len(block) + 3
<1> DEFINE b == t.body
           back == t.start
           n == Len(block)
           op == T_OP_JUMP
           owed == OwedIn(F) \cup Owed(t)
           labels == LabelsIn(F) \cup Labels(t)
           patched == LoopEnd(block, op, back, b)
           dests2  == With(With(dests, back), n + 3)
<1>1. Owed(t) = {b} /\ Labels(t) = {back}
  BY DEF Owed, Labels
<1>2. /\ Coded(block, owed, labels, dests)
      /\ OwedIn(F) \cap Owed(t) = {}
      /\ \A x \in OwedIn(F) : x \in Nat /\ \A y \in Owed(t) \cup Labels(t) : x + 3 <= y
      /\ \A l \in LabelsIn(F) : l <= b /\ l <= back
      /\ \A y \in Owed(t) : y \in Nat
  BY <1>1, OwedLast
<1>3. At(block, b) \notin T_OP_FOR_STARTS
  BY DEF BlockOK, Shaped, T_OP_FOR_STARTS, T_OP_JUMP_NCOND, T_OP_FOR_DEC_START,
         T_OP_FOR_INC_START
<1>4. Without(owed, b) = OwedIn(F)
  BY <1>1, <1>2 DEF Without
<1>5. LastOwed(b, back, Without(owed, b))
  <2>1. ASSUME NEW x \in OwedIn(F) PROVE x < b /\ x + 3 <= back
    BY <1>1, <1>2
  <2>2. QED
    BY <1>4, <2>1 DEF LastOwed
<1>6. b \in owed /\ back \in labels /\ LabelsIn(F) \subseteq labels
  BY <1>1
<1>7. op \in Nat /\ is_t_jump(op) /\ op \notin T_OP_FOR_STARTS
  BY DEF is_t_jump, T_OP_FOR_STARTS, T_OP_JUMP, T_OP_FOR_DEC_START, T_OP_FOR_INC_START
<1>8. LoopMatches(block, op, back, b)
  BY <1>3 DEF LoopMatches
<1> DEFINE kept == LabelsIn(F)
           rest == OwedIn(F)
<1>9. /\ Coded(block, owed, labels, dests)
      /\ op \in Nat /\ is_t_jump(op) /\ op \notin T_OP_FOR_STARTS
      /\ b \in owed /\ back \in labels
      /\ Fits(Len(block), back) /\ Fits(b, Len(block) + 3)
      /\ LastOwed(b, back, Without(owed, b))
      /\ kept \subseteq labels /\ \A l \in kept : l <= b /\ l <= back
      /\ LoopMatches(block, op, back, b)
      /\ Without(owed, b) = rest
  BY <1>2, <1>4, <1>5, <1>6, <1>7, <1>8
<1> HIDE DEF owed, labels, kept, rest, patched, dests2, b, back, n, op
<1>10. /\ Coded(patched, rest, kept, dests2)
      /\ Len(LoopBack(block, op, back)) = n + 3
      /\ \A ip \in TStarts(block) : At(patched, ip) = At(block, ip)
  BY <1>9, CodedLoop DEF patched, dests2, n
<1>11. BlockOK(patched, F, dests2)
  BY <1>10, OKPopped DEF kept, rest
<1>12. QED
  BY <1>10, <1>11 DEF patched, dests2, b, back, n, op

\* The end of a `for'.
LEMMA OKEndFor ==
  ASSUME NEW block, NEW F, NEW dests, NEW t, BlockOK(block, F \cup {t}, dests), Above(F, t),
         t.kind = "for_body",
         NEW op, op = IF t.slots = 1 THEN T_OP_FOR_DEC ELSE T_OP_FOR_INC,
         Fits(Len(block), t.body), Fits(t.start, Len(block) + 3)
  PROVE  /\ BlockOK(LoopEnd(block, op, t.body, t.start), F,
                    With(With(dests, t.body), Len(block) + 3))
         /\ Len(LoopBack(block, op, t.body)) = Len(block) + 3
<1> DEFINE b == t.start
           back == t.body
           n == Len(block)
           owed == OwedIn(F) \cup Owed(t)
           labels == LabelsIn(F) \cup Labels(t)
           patched == LoopEnd(block, op, back, b)
           dests2  == With(With(dests, back), n + 3)
<1>1. Owed(t) = {b} /\ Labels(t) = {back}
  BY DEF Owed, Labels
<1>2. /\ Coded(block, owed, labels, dests)
      /\ OwedIn(F) \cap Owed(t) = {}
      /\ \A x \in OwedIn(F) : x \in Nat /\ \A y \in Owed(t) \cup Labels(t) : x + 3 <= y
      /\ \A l \in LabelsIn(F) : l <= b /\ l <= back
      /\ \A y \in Owed(t) : y \in Nat
  BY <1>1, OwedLast
<1>3. /\ At(block, b) = IF t.slots = 1 THEN T_OP_FOR_DEC_START ELSE T_OP_FOR_INC_START
      /\ back = b + 3
  BY DEF BlockOK, Shaped
<1>4. Without(owed, b) = OwedIn(F)
  BY <1>1, <1>2 DEF Without
<1>5. LastOwed(b, back, Without(owed, b))
  <2>1. ASSUME NEW x \in OwedIn(F) PROVE x < b /\ x + 3 <= back
    BY <1>1, <1>2
  <2>2. QED
    BY <1>4, <2>1 DEF LastOwed
<1>6. b \in owed /\ back \in labels /\ LabelsIn(F) \subseteq labels
  BY <1>1
<1>7. op \in Nat /\ is_t_jump(op) /\ op \notin T_OP_FOR_STARTS
  BY DEF is_t_jump, T_OP_FOR_STARTS, T_OP_FOR_UPDATES, T_OP_FOR_DEC, T_OP_FOR_INC,
         T_OP_FOR_DEC_START, T_OP_FOR_INC_START
<1>8. LoopMatches(block, op, back, b)
  BY <1>3 DEF LoopMatches, T_OP_FOR_DEC, T_OP_FOR_INC, T_OP_FOR_DEC_START,
              T_OP_FOR_INC_START
<1> DEFINE kept == LabelsIn(F)
           rest == OwedIn(F)
<1>9. /\ Coded(block, owed, labels, dests)
      /\ op \in Nat /\ is_t_jump(op) /\ op \notin T_OP_FOR_STARTS
      /\ b \in owed /\ back \in labels
      /\ Fits(Len(block), back) /\ Fits(b, Len(block) + 3)
      /\ LastOwed(b, back, Without(owed, b))
      /\ kept \subseteq labels /\ \A l \in kept : l <= b /\ l <= back
      /\ LoopMatches(block, op, back, b)
      /\ Without(owed, b) = rest
  BY <1>2, <1>4, <1>5, <1>6, <1>7, <1>8
<1> HIDE DEF owed, labels, kept, rest, patched, dests2, b, back, n
<1>10. /\ Coded(patched, rest, kept, dests2)
      /\ Len(LoopBack(block, op, back)) = n + 3
      /\ \A ip \in TStarts(block) : At(patched, ip) = At(block, ip)
  BY <1>9, CodedLoop, SMTT(40) DEF patched, dests2, n
<1>11. BlockOK(patched, F, dests2)
  BY <1>10, OKPopped DEF kept, rest
<1>12. QED
  BY <1>10, <1>11 DEF patched, dests2, b, back, n

-----------------------------------------------------------------------------
(* The tables of functions.                                                *)

\* later is the table `before' with another entry i.
Wrote(before, later, i, e) ==
  /\ Len(later) = Len(before)
  /\ later[i] = e
  /\ \A j \in 1..Len(before) : j # i => later[j] = before[j]

LEMMA WroteReplaced ==
  ASSUME NEW S, NEW seq \in Seq(S), NEW i \in 1..Len(seq), NEW e \in S
  PROVE  Wrote(seq, Replaced(seq, i, e), i, e)
<1>1. /\ Len(Replaced(seq, i, e)) = Len(seq)
      /\ \A j \in 1..Len(seq) : Replaced(seq, i, e)[j] = IF j = i THEN e ELSE seq[j]
  BY ExceptSeq DEF Replaced
<1>2. QED
  BY <1>1, Zenon DEF Wrote

LEMMA WroteNothing ==
  ASSUME NEW seq, NEW i
  PROVE  Wrote(seq, seq, i, seq[i])
BY DEF Wrote

\* A step that writes to the block of one function, and changes none but its
\* frames.
LEMMA CodeWritten ==
  ASSUME NEW c, NEW code, NEW dests, CodeOK(c, code, dests),
         NEW k \in Nat, NEW n \in Nat, n = Len(code), n = Len(dests),
         NEW code2, NEW block2, Wrote(code, code2, k + 1, block2),
         NEW dests2, NEW D, Wrote(dests, dests2, k + 1, D),
         NEW d, Ordered(d), \A f : f # k => FramesOf(d, f) = FramesOf(c, f),
         BlockOK(block2, FramesOf(d, k), D)
  PROVE  CodeOK(d, code2, dests2)
<1>1. /\ Len(code2) = n
      /\ code2[k + 1] = block2
      /\ \A f \in 1..n : f # k + 1 => code2[f] = code[f]
      /\ dests2[k + 1] = D
      /\ \A f \in 1..n : f # k + 1 => dests2[f] = dests[f]
  BY DEF Wrote
<1>2. \A f \in 1..n : BlockOK(code[f], FramesOf(c, f - 1), dests[f])
  BY DEF CodeOK
<1>3. ASSUME NEW f \in 1..n PROVE BlockOK(code2[f], FramesOf(d, f - 1), dests2[f])
  <2>1. CASE f = k + 1
    <3>1. f - 1 = k
      BY <2>1
    <3>2. QED
      BY <1>1, <2>1, <3>1
  <2>2. CASE f # k + 1
    <3>1. f - 1 # k
      BY <2>2
    <3>2. FramesOf(d, f - 1) = FramesOf(c, f - 1)
      BY <3>1
    <3>3. QED
      BY <1>1, <1>2, <2>2, <3>2
  <2>3. QED
    BY <2>1, <2>2
<1>4. QED
  BY <1>1, <1>3 DEF CodeOK

-----------------------------------------------------------------------------
(* What the actions find, and what they have to leave.                     *)

\* The jump table of the current function, the frames that work in it, the open
\* constructs without the innermost one, and those of them that work in it.
Here == t_jumps[func_index + 1]
Working == FramesOf(ctx, func_index)
Outer == SubSeq(ctx, 1, Len(ctx) - 1)
Around == FramesOf(Outer, func_index)

LEMMA Current ==
  ASSUME IInv, CodeInv
  PROVE  /\ TypeOK
         /\ func_index \in Nat
         /\ func_index + 1 \in 1..Len(t_code)
         /\ Len(t_code) \in Nat
         /\ Len(t_jumps) = Len(t_code)
         /\ CodeOK(ctx, t_code, t_jumps)
         /\ Ordered(ctx)
         /\ BlockOK(Block, Working, Here)
         /\ Block \in Seq(Nat)
         /\ Count \in Nat
<1>1. TypeOK
  BY DEF IInv
<1>2. /\ func_index \in 0..(Len(t_code) - 1)
      /\ Len(t_code) \in Nat
      /\ Len(t_jumps) = Len(t_code)
      /\ Block \in Seq(Nat)
      /\ Count \in Nat
  BY <1>1, TablesOfTypeOK, CountType DEF TypeOK
<1>3. func_index + 1 \in 1..Len(t_code) /\ func_index \in Nat /\ (func_index + 1) - 1 = func_index
  BY <1>2
<1>4. CodeOK(ctx, t_code, t_jumps)
  BY DEF CodeInv
<1>5. /\ \A f \in 1..Len(t_code) : BlockOK(t_code[f], FramesOf(ctx, f - 1), t_jumps[f])
      /\ Ordered(ctx)
  BY <1>4 DEF CodeOK
<1>6. BlockOK(Block, Working, Here)
  BY <1>3, <1>5 DEF Block, Working, Here
<1>7. QED
  BY <1>1, <1>2, <1>3, <1>4, <1>5, <1>6

\* The innermost construct, in the function it works in.
LEMMA Innermost ==
  ASSUME IInv, CodeInv, NEW kinds, In(kinds), "func" \notin kinds
  PROVE  /\ ctx \in Seq(Frames)
         /\ ctx # <<>>
         /\ Top \in Frames
         /\ Top.kind \in kinds
         /\ Top.func = func_index
         /\ Outer \in Seq(Frames)
         /\ Pushed(ctx, Outer, Top)
         /\ Working = Around \cup {Top}
         /\ \A f : f # func_index => FramesOf(ctx, f) = FramesOf(Outer, f)
         /\ Ordered(Outer)
         /\ Above(Around, Top)
         /\ BlockOK(Block, Around \cup {Top}, Here)
<1>1. /\ ctx # <<>>
      /\ Top \in Frames
      /\ Top.kind \in kinds
      /\ func_index = FunctionOf(Top)
      /\ ctx \in Seq(Frames)
  BY InnermostConstruct DEF IInv, TypeOK
<1>2. Top.func = func_index
  BY <1>1 DEF FunctionOf
<1>3. Outer \in Seq(Frames) /\ Pushed(ctx, Outer, Top)
  BY <1>1, PushTop DEF Outer, Top
<1>4. \A f : FramesOf(ctx, f) = FramesOf(Outer, f) \cup (IF Top.func = f THEN {Top} ELSE {})
  BY <1>3, PushedFrames
<1>5. Working = Around \cup {Top}
  BY <1>2, <1>4 DEF Working, Around
<1>6. \A f : f # func_index => FramesOf(ctx, f) = FramesOf(Outer, f)
  BY <1>2, <1>4
<1>7. Ordered(Outer) /\ \A frame \in FramesOf(Outer, Top.func) : Above({frame}, Top)
  BY <1>3, Current, PushedOrdered
<1>8. Above(Around, Top)
  BY <1>2, <1>7, AboveEach DEF Around
<1>9. BlockOK(Block, Around \cup {Top}, Here)
  BY <1>5, Current
<1>10. QED
  BY <1>1, <1>2, <1>3, <1>5, <1>6, <1>7, <1>8, <1>9

\* The stack stays as it is.
LEMMA Stays ==
  ASSUME IInv, CodeInv, UNCHANGED <<ctx, t_jumps>>,
         NEW block2, Wrote(t_code, t_code', func_index + 1, block2),
         BlockOK(block2, Working, Here)
  PROVE  CodeOK(ctx', t_code', t_jumps')
<1>1. Wrote(t_jumps, t_jumps', func_index + 1, Here)
  BY WroteNothing DEF Here
<1>2. BlockOK(block2, FramesOf(ctx', func_index), Here)
  BY DEF Working
<1>3. QED
  BY <1>1, <1>2, Current, CodeWritten

\* A construct of the current function is put on the stack d.
LEMMA Stacked ==
  ASSUME IInv, CodeInv, NEW p \in Seq(Frames),
         \A f : f # func_index => FramesOf(ctx, f) = FramesOf(p, f), Ordered(p),
         NEW g, g.func = func_index, Pushed(ctx', p, g), Above(FramesOf(p, func_index), g),
         NEW block2, Wrote(t_code, t_code', func_index + 1, block2), UNCHANGED t_jumps,
         BlockOK(block2, FramesOf(p, func_index) \cup {g}, Here)
  PROVE  CodeOK(ctx', t_code', t_jumps')
<1>1. Wrote(t_jumps, t_jumps', func_index + 1, Here)
  BY WroteNothing DEF Here
<1>2. \A f : FramesOf(ctx', f) = FramesOf(p, f) \cup (IF g.func = f THEN {g} ELSE {})
  BY PushedFrames
<1>3. /\ FramesOf(ctx', func_index) = FramesOf(p, func_index) \cup {g}
      /\ \A f : f # func_index => FramesOf(ctx', f) = FramesOf(ctx, f)
  BY <1>2
<1>4. Ordered(ctx')
  BY AboveEach, PushedOrdered, ZenonT(60)
<1>5. BlockOK(block2, FramesOf(ctx', func_index), Here)
  BY <1>3
<1>6. QED
  BY <1>1, <1>3, <1>4, <1>5, Current, CodeWritten

\* The innermost construct goes.
LEMMA Gone ==
  ASSUME IInv, CodeInv, NEW kinds, In(kinds), "func" \notin kinds, ctx' = Outer,
         NEW block2, Wrote(t_code, t_code', func_index + 1, block2),
         NEW D, Wrote(t_jumps, t_jumps', func_index + 1, D),
         BlockOK(block2, Around, D)
  PROVE  CodeOK(ctx', t_code', t_jumps')
<1>1. /\ Ordered(ctx')
      /\ \A f : f # func_index => FramesOf(ctx', f) = FramesOf(ctx, f)
      /\ BlockOK(block2, FramesOf(ctx', func_index), D)
  BY Innermost DEF Around
<1>2. QED
  BY <1>1, Current, CodeWritten

LEMMA EmitWrites ==
  ASSUME TypeOK, NEW bytes \in Seq(Nat), Emit(bytes)
  PROVE  Wrote(t_code, t_code', func_index + 1, Block \o bytes)
<1>1. /\ t_code \in Seq(Seq(Nat))
      /\ func_index + 1 \in 1..Len(t_code)
      /\ Block \in Seq(Nat)
  BY CountType, LenProperties DEF TypeOK
<1>2. Block \o bytes \in Seq(Nat)
  BY <1>1, ConcatProperties
<1>3. t_code' = Replaced(t_code, func_index + 1, Block \o bytes)
  BY Zenon DEF Emit, Replaced, Block
<1>4. QED
  BY <1>1, <1>2, <1>3, WroteReplaced

LEMMA SetWrites ==
  ASSUME TypeOK, NEW block \in Seq(Nat), SetBlock(block)
  PROVE  Wrote(t_code, t_code', func_index + 1, block)
<1>1. /\ t_code \in Seq(Seq(Nat))
      /\ func_index + 1 \in 1..Len(t_code)
  BY LenProperties DEF TypeOK
<1>2. t_code' = Replaced(t_code, func_index + 1, block)
  BY Zenon DEF SetBlock, Replaced
<1>3. QED
  BY <1>1, <1>2, WroteReplaced

LEMMA AddWrites ==
  ASSUME TypeOK, Top.func = func_index, NEW dests \in SUBSET Nat, AddJumps(dests)
  PROVE  Wrote(t_jumps, t_jumps', func_index + 1, Here \cup dests)
<1>1. /\ t_jumps \in Seq(SUBSET Nat)
      /\ func_index + 1 \in 1..Len(t_jumps)
  BY TablesOfTypeOK, LenProperties DEF TypeOK
<1>2. t_jumps' = Replaced(t_jumps, func_index + 1, Here \cup dests)
  BY Zenon DEF AddJumps, Replaced, Here
<1>3. Here \cup dests \in SUBSET Nat
  BY <1>1, ElementOfSeq DEF Here
<1>4. QED
  BY <1>1, <1>2, <1>3, WroteReplaced

-----------------------------------------------------------------------------
(* The actions.                                                            *)

LEMMA CodeInvIs ==
  ASSUME CodeOK(ctx', t_code', t_jumps'), status' \notin {"returning", "compiled"}
  PROVE  CodeInv'
BY DEF CodeInv, Returning, CodeOK

\* An action that leaves the code and the open constructs alone.
LEMMA CodeUntouched ==
  ASSUME CodeInv, UNCHANGED <<ctx, t_code, t_jumps>>, status' \notin {"returning", "compiled"}
  PROVE  CodeInv'
<1>1. CodeOK(ctx', t_code', t_jumps')
  BY DEF CodeInv
<1>2. QED
  BY <1>1, CodeInvIs

LEMMA FailKeepsCode ==
  ASSUME CodeInv, Fail
  PROVE  CodeInv'
BY CodeUntouched DEF Fail

\* An action that appends an instruction other than a jump.
LEMMA PlainKeepsCode ==
  ASSUME IInv, CodeInv, Reading, UNCHANGED <<status, ctx, t_jumps>>,
         NEW bytes \in Seq(Nat), Emit(bytes),
         Len(bytes) = t_instruction_size(At(bytes, 0)), ~is_t_jump(At(bytes, 0))
  PROVE  CodeInv'
<1>1. TypeOK /\ BlockOK(Block, Working, Here)
  BY Current
<1>2. BlockOK(Block \o bytes, Working, Here)
  BY <1>1, OKPlain
<1>3. Wrote(t_code, t_code', func_index + 1, Block \o bytes)
  BY <1>1, EmitWrites
<1>4. CodeOK(ctx', t_code', t_jumps')
  BY <1>2, <1>3, Stays
<1>5. QED
  BY <1>4, CodeInvIs DEF Reading

LEMMA LiteralKeepsCode ==
  ASSUME IInv, CodeInv, NEW op \in LiteralOps, NEW v \in Literals, CompileInteger(op, v)
  PROVE  CodeInv'
<1>1. op \in {T_OP_PUSH8, T_OP_PUSH_INT8} /\ v \in Nat
  BY CompilerAssumption, ByteBaseAssumption
<1>2. <<op, v>> \in Seq(Nat) /\ Len(<<op, v>>) = 2 /\ At(<<op, v>>, 0) = op
  BY <1>1 DEF At, T_OP_PUSH8, T_OP_PUSH_INT8
<1>3. ~is_t_jump(op) /\ t_instruction_size(op) = 2
  BY <1>1 DEF is_t_jump, t_instruction_size, T_OP_PUSH8, T_OP_PUSH_INT8, T_OP_JUMP, T_OP_JUMP_COND,
              T_OP_JUMP_NCOND, T_OP_FOR_STARTS, T_OP_FOR_UPDATES, T_OP_FOR_DEC_START,
              T_OP_FOR_INC_START, T_OP_FOR_DEC, T_OP_FOR_INC, T_OP_GET_LOOP_VAR,
              T_OP_LOCAL_GET, T_OP_LOCAL_SET
<1>4. QED
  BY <1>2, <1>3, PlainKeepsCode DEF CompileInteger

LEMMA SimpleSize ==
  ASSUME NEW op \in {T_OP_POP, T_OP_DUPE, T_OP_EXIT, T_OP_RET}
  PROVE  /\ op \in Nat
         /\ ~is_t_jump(op)
         /\ t_instruction_size(op) = 1
         /\ <<op>> \in Seq(Nat)
         /\ Len(<<op>>) = 1
         /\ At(<<op>>, 0) = op
<1>1. op \in Nat /\ ~is_t_jump(op) /\ t_instruction_size(op) = 1
  BY DEF is_t_jump, t_instruction_size, T_OP_PUSH8, T_OP_PUSH_INT8, T_OP_JUMP, T_OP_JUMP_COND,
         T_OP_JUMP_NCOND, T_OP_FOR_STARTS, T_OP_FOR_UPDATES, T_OP_FOR_DEC_START,
         T_OP_FOR_INC_START, T_OP_FOR_DEC, T_OP_FOR_INC, T_OP_GET_LOOP_VAR,
         T_OP_LOCAL_GET, T_OP_LOCAL_SET, T_OP_CALL8, T_OP_POP, T_OP_DUPE, T_OP_EXIT, T_OP_RET
<1>2. QED
  BY <1>1 DEF At

LEMMA SimpleKeepsCode ==
  ASSUME IInv, CodeInv, NEW op \in SimpleOps, CompileSimple(op)
  PROVE  CodeInv'
<1>1. op \in {T_OP_POP, T_OP_DUPE, T_OP_EXIT, T_OP_RET}
  BY CompilerAssumption
<1>2. QED
  BY <1>1, SimpleSize, PlainKeepsCode DEF CompileSimple

LEMMA OperandSize ==
  ASSUME NEW op \in {T_OP_GET_LOOP_VAR, T_OP_LOCAL_GET, T_OP_LOCAL_SET}, NEW v \in Int
  PROVE  /\ ~is_t_jump(op)
         /\ <<op>> \o U16(v) \in Seq(Nat)
         /\ Len(<<op>> \o U16(v)) = t_instruction_size(At(<<op>> \o U16(v), 0))
         /\ At(<<op>> \o U16(v), 0) = op
<1>1. op \in Nat /\ ~is_t_jump(op) /\ t_instruction_size(op) = 3
  BY DEF is_t_jump, t_instruction_size, T_OP_JUMP, T_OP_JUMP_COND,
         T_OP_JUMP_NCOND, T_OP_FOR_STARTS, T_OP_FOR_UPDATES, T_OP_FOR_DEC_START,
         T_OP_FOR_INC_START, T_OP_FOR_DEC, T_OP_FOR_INC, T_OP_GET_LOOP_VAR,
         T_OP_LOCAL_GET, T_OP_LOCAL_SET, T_OP_PUSH8, T_OP_PUSH_INT8, T_OP_CALL8
<1>2. <<>> \in Seq(Nat)
  OBVIOUS
<1>3. /\ <<op>> \o U16(v) \in Seq(Nat)
      /\ Len(<<op>> \o U16(v)) = 3
      /\ At(<<op>> \o U16(v), 0) = op
  BY <1>1, <1>2, EmittedOperand
<1>4. QED
  BY <1>1, <1>3

LEMMA SymbolKeepsCode ==
  ASSUME IInv, CodeInv, NEW n \in Names, CompileSymbol(n)
  PROVE  CodeInv'
<1> DEFINE s == symbols[n]
           bytes == SymbolCode(s)
<1>1. /\ s \in Symbols
      /\ s.arg \in Nat
      /\ for_loop_level \in Nat
      /\ s.kind \in {"loop_var", "func", "var"}
  BY DEF IInv, TypeOK, CompileSymbol, SymbolRefused, Symbols
<1>2. Reading /\ UNCHANGED <<status, ctx, t_jumps>> /\ Emit(bytes)
  BY DEF CompileSymbol
<1> HIDE DEF s
<1>3. /\ bytes \in Seq(Nat)
      /\ Len(bytes) = t_instruction_size(At(bytes, 0))
      /\ ~is_t_jump(At(bytes, 0))
  <2>1. CASE s.kind = "loop_var"
    <3> DEFINE v == for_loop_level - s.arg
    <3>1. v \in Int
      BY <1>1
    <3> HIDE DEF v
    <3>2. bytes = <<T_OP_GET_LOOP_VAR>> \o U16(v)
      BY <2>1 DEF SymbolCode, v
    <3>3. QED
      BY <3>1, <3>2, OperandSize
  <2>2. CASE s.kind = "var"
    <3>1. bytes = <<T_OP_LOCAL_GET>> \o U16(s.arg)
      BY <2>2 DEF SymbolCode
    <3>2. s.arg \in Int
      BY <1>1
    <3>3. QED
      BY <3>1, <3>2, OperandSize
  <2>3. CASE s.kind = "func"
    <3>1. bytes = <<T_OP_CALL8, s.arg>>
      BY <2>3 DEF SymbolCode
    <3>2. ~is_t_jump(T_OP_CALL8) /\ t_instruction_size(T_OP_CALL8) = 2 /\ T_OP_CALL8 \in Nat
      BY DEF is_t_jump, t_instruction_size, T_OP_CALL8, T_OP_PUSH8, T_OP_PUSH_INT8, T_OP_JUMP,
             T_OP_JUMP_COND, T_OP_JUMP_NCOND, T_OP_FOR_STARTS, T_OP_FOR_UPDATES,
             T_OP_FOR_DEC_START, T_OP_FOR_INC_START, T_OP_FOR_DEC, T_OP_FOR_INC,
             T_OP_GET_LOOP_VAR, T_OP_LOCAL_GET, T_OP_LOCAL_SET
    <3>3. bytes \in Seq(Nat) /\ Len(bytes) = 2 /\ At(bytes, 0) = T_OP_CALL8
      BY <1>1, <3>1, <3>2 DEF At
    <3>4. QED
      BY <3>2, <3>3
  <2>4. QED
    BY <1>1, <2>1, <2>2, <2>3
<1> HIDE DEF bytes
<1>4. QED
  BY <1>2, <1>3, PlainKeepsCode

LEMMA AssignmentKeepsCode ==
  ASSUME IInv, CodeInv, NEW n \in VarNames, CompileAssignment(n)
  PROVE  CodeInv'
<1> DEFINE v == symbols[n].arg
<1>1. v \in Int
  BY DEF IInv, TypeOK, Symbols, Names
<1>2. Reading /\ UNCHANGED <<status, ctx, t_jumps>> /\ Emit(<<T_OP_LOCAL_SET>> \o U16(v))
  BY DEF CompileAssignment
<1> HIDE DEF v
<1> DEFINE bytes == <<T_OP_LOCAL_SET>> \o U16(v)
<1>3. /\ bytes \in Seq(Nat)
      /\ Len(bytes) = t_instruction_size(At(bytes, 0))
      /\ ~is_t_jump(At(bytes, 0))
  BY <1>1, OperandSize
<1>4. Emit(bytes)
  BY <1>2
<1> HIDE DEF bytes
<1>5. QED
  BY <1>2, <1>3, <1>4, PlainKeepsCode

-----------------------------------------------------------------------------
(* The actions that open a construct or go on to its next part.            *)

LEMMA AboveEnd ==
  ASSUME NEW block, NEW F, NEW dests, BlockOK(block, F, dests),
         NEW g, Owed(g) = {}, Labels(g) \subseteq {Len(block)}
  PROVE  Above(F, g)
<1>1. /\ WholeBlock(block)
      /\ Len(block) \in Nat
      /\ OwedIn(F) \subseteq TJumps(block)
      /\ Places(block) \subseteq 0..Len(block)
      /\ LabelsIn(F) \subseteq Places(block)
  BY CodedFacts DEF BlockOK
<1>2. \A b \in OwedIn(F) : b + 3 <= Len(block)
  BY <1>1, JumpFits
<1>3. \A b \in OwedIn(F) : \A x \in Owed(g) \cup Labels(g) : b + 3 <= x
  BY <1>2
<1>4. \A l \in LabelsIn(F) : \A x \in Owed(g) \cup Labels(g) : l <= x
  BY <1>1, PlacesType
<1>5. QED
  BY <1>3, <1>4, Zenon DEF Above

\* A construct that begins with code of its own, or none.
LEMMA OpenKeepsCode ==
  ASSUME IInv, CodeInv, Reading, UNCHANGED <<status, t_code, t_jumps>>,
         NEW g \in Frames, Enter(g), g.func = func_index,
         Owed(g) = {}, Labels(g) \subseteq {Count}, Shaped(g, Block)
  PROVE  CodeInv'
<1>1. ctx \in Seq(Frames) /\ Ordered(ctx) /\ BlockOK(Block, Working, Here)
  BY Current DEF TypeOK
<1>2. Pushed(ctx', ctx, g)
  BY <1>1, PushAppend DEF Enter
<1>3. Above(FramesOf(ctx, func_index), g)
  BY <1>1, AboveEnd DEF Working, Count
<1>4. BlockOK(Block, FramesOf(ctx, func_index) \cup {g}, Here)
  BY <1>1, OKPush DEF Working, Count
<1>5. Wrote(t_code, t_code', func_index + 1, Block)
  BY WroteNothing DEF Block
<1>6. CodeOK(ctx', t_code', t_jumps')
  BY <1>1, <1>2, <1>3, <1>4, <1>5, Stacked
<1>7. QED
  BY <1>6, CodeInvIs DEF Reading

LEMMA FrameOperands ==
  ASSUME NEW kind, NEW start, NEW body
  PROVE  /\ Frame(kind, start, body).kind = kind
         /\ Frame(kind, start, body).start = start
         /\ Frame(kind, start, body).func = func_index
BY DEF Frame

LEMMA IfKeepsCode ==
  ASSUME IInv, CodeInv, CompileIf
  PROVE  CodeInv'
<1> DEFINE g == Frame("if_cond", 0, 0)
<1>1. g \in Frames /\ g.kind = "if_cond" /\ g.func = func_index
  BY FrameFields DEF IInv, Kinds
<1> HIDE DEF g
<1>2. Owed(g) = {} /\ Labels(g) = {} /\ Shaped(g, Block)
  BY <1>1 DEF Owed, Labels, Shaped
<1>3. Reading /\ UNCHANGED <<status, t_code, t_jumps>> /\ Enter(g)
  BY DEF CompileIf, g
<1>4. QED
  BY <1>1, <1>2, <1>3, OpenKeepsCode

LEMMA WhileKeepsCode ==
  ASSUME IInv, CodeInv, CompileWhile
  PROVE  CodeInv'
<1> DEFINE g == Frame("while_cond", Count, 0)
<1>1. Count \in Nat /\ TypeOK
  BY Current
<1>2. g \in Frames /\ g.kind = "while_cond" /\ g.func = func_index /\ g.start = Count
  BY <1>1, FrameFields, FrameOperands DEF Kinds
<1> HIDE DEF g
<1>3. Owed(g) = {} /\ Labels(g) = {Count} /\ Shaped(g, Block)
  BY <1>2 DEF Owed, Labels, Shaped
<1>4. Reading /\ UNCHANGED <<status, t_code, t_jumps>> /\ Enter(g)
  BY DEF CompileWhile, g
<1>5. QED
  BY <1>2, <1>3, <1>4, OpenKeepsCode

LEMMA ForOpens ==
  ASSUME IInv, CodeInv, Reading, UNCHANGED <<status, t_code, t_jumps>>,
         NEW name \in Names \cup {NoName}, NEW slots \in {1, 2}, Enter(ForFrame(name, slots))
  PROVE  CodeInv'
<1> DEFINE g == ForFrame(name, slots)
<1>1. g \in Frames /\ g.kind = "for_count" /\ g.func = func_index
  BY ForFrameFields DEF IInv
<1>2. Enter(g)
  OBVIOUS
<1> HIDE DEF g
<1>3. Owed(g) = {} /\ Labels(g) = {} /\ Shaped(g, Block)
  BY <1>1 DEF Owed, Labels, Shaped
<1>4. QED
  BY <1>1, <1>2, <1>3, OpenKeepsCode

LEMMA ForKeepsCode ==
  ASSUME IInv, CodeInv, CompileFor
  PROVE  CodeInv'
BY ForOpens DEF CompileFor

LEMMA ForVarKeepsCode ==
  ASSUME IInv, CodeInv, NEW n \in LoopNames, NEW slots \in {1, 2}, CompileForVar(n, slots)
  PROVE  CodeInv'
BY ForOpens DEF CompileForVar, Names

\* A placeholder jump is emitted, and the innermost construct will remember it.
LEMMA Owes ==
  ASSUME IInv, CodeInv, NEW kinds, In(kinds), "func" \notin kinds,
         NEW op \in Nat, is_t_jump(op), NEW longer, longer = Block \o (<<op>> \o U16(0)),
         NEW g \in Frames, g.func = func_index, Owed(g) = Owed(Top) \cup {Count},
         Labels(g) \subseteq Labels(Top) \cup {Count + 3}, Shaped(g, longer),
         NEW c, c = [ctx EXCEPT ![Len(ctx)] = g]
  PROVE  /\ c \in Seq(Frames)
         /\ Ordered(c)
         /\ \A f : f # func_index => FramesOf(c, f) = FramesOf(ctx, f)
         /\ BlockOK(longer, FramesOf(c, func_index), Here)
<1>1. /\ ctx \in Seq(Frames)
      /\ ctx # <<>>
      /\ Top.func = func_index
      /\ \A f : f # func_index => FramesOf(ctx, f) = FramesOf(Outer, f)
      /\ Ordered(Outer)
      /\ Above(Around, Top)
      /\ BlockOK(Block, Around \cup {Top}, Here)
  BY Innermost
<1>2. Pushed(c, Outer, g)
  BY <1>1, PushOther DEF Outer
<1>3. c \in Seq(Frames)
  <2>1. Len(ctx) \in 1..Len(ctx)
    BY <1>1, EmptySeq
  <2>2. QED
    BY <1>1, <2>1, ExceptSeq
<1>4. \A f : FramesOf(c, f) = FramesOf(Outer, f) \cup (IF g.func = f THEN {g} ELSE {})
  BY <1>2, PushedFrames
<1>5. /\ FramesOf(c, func_index) = Around \cup {g}
      /\ \A f : f # func_index => FramesOf(c, f) = FramesOf(ctx, f)
  <2>1. FramesOf(c, func_index) = Around \cup {g}
    BY <1>4, Zenon DEF Around
  <2>2. ASSUME NEW f, f # func_index PROVE FramesOf(c, f) = FramesOf(ctx, f)
    <3>1. FramesOf(c, f) = FramesOf(Outer, f)
      BY <1>4, <2>2
    <3>2. QED
      BY <1>1, <2>2, <3>1, Zenon
  <2>3. QED
    BY <2>1, <2>2
<1>6. BlockOK(longer, Around \cup {g}, Here)
  BY <1>1, OKOwe DEF Count
<1>7. Above(Around, g)
  <2>1. Count \in Nat /\ Count = Len(Block)
    BY Current DEF Count
  <2>2. /\ \A x \in Owed(g) : x \in Owed(Top) \/ (x \in Nat /\ x >= Len(Block))
        /\ \A x \in Labels(g) : x \in Owed(Top) \cup Labels(Top) \/ (x \in Nat /\ x >= Len(Block))
    BY <2>1
  <2>3. QED
    BY <1>1, <2>2, AboveKept
<1>8. Ordered(c)
  BY <1>1, <1>2, <1>7, AboveEach, PushedOrdered DEF Around
<1>9. QED
  BY <1>3, <1>5, <1>6, <1>8

LEMMA OweWrites ==
  ASSUME TypeOK, NEW op \in Nat, Emit(<<op>> \o U16(0))
  PROVE  Wrote(t_code, t_code', func_index + 1, Block \o (<<op>> \o U16(0)))
<1>1. <<op>> \o U16(0) \in Seq(Nat)
  BY OperandType
<1>2. QED
  BY <1>1, EmitWrites

\* The same, when the action does no more than that.
LEMMA OweKeepsCode ==
  ASSUME IInv, CodeInv, Reading, UNCHANGED <<status, t_jumps>>,
         NEW kinds, In(kinds), "func" \notin kinds,
         NEW op \in Nat, is_t_jump(op), Emit(<<op>> \o U16(0)),
         NEW g \in Frames, g.func = func_index, Owed(g) = Owed(Top) \cup {Count},
         Labels(g) \subseteq Labels(Top) \cup {Count + 3},
         Shaped(g, Block \o (<<op>> \o U16(0))),
         ctx' = [ctx EXCEPT ![Len(ctx)] = g]
  PROVE  CodeInv'
<1> DEFINE longer == Block \o (<<op>> \o U16(0))
<1>1. Wrote(t_code, t_code', func_index + 1, longer)
  BY Current, OweWrites
<1> HIDE DEF longer
<1>2. /\ Ordered(ctx')
      /\ \A f : f # func_index => FramesOf(ctx', f) = FramesOf(ctx, f)
      /\ BlockOK(longer, FramesOf(ctx', func_index), Here)
  BY Owes DEF longer
<1>3. Wrote(t_jumps, t_jumps', func_index + 1, Here)
  BY WroteNothing DEF Here
<1>4. CodeOK(ctx', t_code', t_jumps')
  BY <1>1, <1>2, <1>3, Current, CodeWritten
<1>5. QED
  BY <1>4, CodeInvIs DEF Reading

\* What Become makes of the innermost frame.
NextPart(kind, start, body) == [Top EXCEPT !.kind = kind, !.start = start, !.body = body]

LEMMA NextPartFields ==
  ASSUME Top \in Frames, NEW kind \in Kinds, NEW start \in Nat, NEW body \in Nat,
         NEW g, g = NextPart(kind, start, body)
  PROVE  /\ g \in Frames
         /\ g.kind = kind
         /\ g.start = start
         /\ g.body = body
         /\ g.func = Top.func
         /\ g.slots = Top.slots
BY DEF NextPart, Frames

LEMMA BecomeIs ==
  ASSUME NEW kind, NEW start, NEW body, Become(kind, start, body)
  PROVE  ctx' = [ctx EXCEPT ![Len(ctx)] = NextPart(kind, start, body)]
BY DEF Become, NextPart, Top

\* A placeholder jump is appended to a block.
Owing(block, op) == block \o (<<op>> \o U16(0))

LEMMA OweAt ==
  ASSUME NEW block, WholeBlock(block), NEW op \in Nat, is_t_jump(op)
  PROVE  /\ \A ip \in TStarts(block) : At(Owing(block, op), ip) = At(block, ip)
         /\ At(Owing(block, op), Len(block)) = op
<1> DEFINE bytes == <<op>> \o U16(0)
<1>0. block \in Seq(Nat)
  BY DEF WholeBlock
<1>1. bytes \in Seq(Nat) /\ Len(bytes) = 3 /\ At(bytes, 0) = op
  BY <1>0, EmittedOperand
<1>2. Owing(block, op) = block \o bytes
  BY DEF Owing
<1> HIDE DEF bytes
<1>3. Len(bytes) = t_instruction_size(At(bytes, 0))
  BY <1>1, JumpSize
<1>4. /\ \A ip \in TStarts(block) : At(block \o bytes, ip) = At(block, ip)
      /\ At(block \o bytes, Len(block)) = At(bytes, 0)
  BY <1>1, <1>3, AppendInstruction
<1>5. QED
  BY <1>1, <1>2, <1>4

LEMMA JumpOps ==
  /\ \A op \in {T_OP_JUMP, T_OP_JUMP_NCOND, T_OP_FOR_DEC_START, T_OP_FOR_INC_START} :
       op \in Nat /\ is_t_jump(op)
BY DEF is_t_jump, T_OP_JUMP, T_OP_JUMP_NCOND, T_OP_FOR_STARTS, T_OP_FOR_DEC_START,
       T_OP_FOR_INC_START

LEMMA ThenKeepsCode ==
  ASSUME IInv, CodeInv, ConditionalThen
  PROVE  CodeInv'
<1> DEFINE op == T_OP_JUMP_NCOND
           longer == Block \o (<<op>> \o U16(0))
           g == NextPart("then", Count, 0)
<1>1. /\ TypeOK
      /\ Block \in Seq(Nat)
      /\ WholeBlock(Block)
      /\ Count \in Nat
  BY Current, OKFacts
<1>2. /\ Reading
      /\ In({"if_cond"}) /\ "func" \notin {"if_cond"}
      /\ Emit(<<op>> \o U16(0))
      /\ Become("then", Count, 0)
      /\ UNCHANGED <<status, t_jumps>>
  BY DEF ConditionalThen
<1>3. Top \in Frames /\ Top.kind = "if_cond" /\ Top.func = func_index
  BY <1>2, Innermost
<1>4. ctx' = [ctx EXCEPT ![Len(ctx)] = g]
  BY <1>2, BecomeIs
<1>5. g \in Frames /\ g.kind = "then" /\ g.start = Count /\ g.func = func_index
  BY <1>1, <1>3, NextPartFields DEF Kinds
<1>6. op \in Nat /\ is_t_jump(op)
  BY JumpOps
<1> HIDE DEF g, op
<1>7. /\ Owed(g) = Owed(Top) \cup {Count}
      /\ Labels(g) = {}
  BY <1>3, <1>5 DEF Owed, Labels
<1>8. At(longer, Count) = op
  BY <1>1, <1>6, OweAt DEF Count, Owing
<1> HIDE DEF longer
<1>9. Shaped(g, longer)
  BY <1>5, <1>8 DEF Shaped, op
<1>10. QED
  BY <1>2, <1>4, <1>5, <1>6, <1>7, <1>9, OweKeepsCode DEF longer

\* The part of a conditional after an `else' or an `elif'.
LEMMA OtherPart ==
  ASSUME IInv, CodeInv, In({"then"}), NEW kind \in {"else", "elif"},
         NEW g, g = NextPart(kind, Top.start, Count + 3),
         NEW longer, longer = Block \o (<<T_OP_JUMP>> \o U16(0))
  PROVE  /\ g \in Frames
         /\ g.func = func_index
         /\ Owed(g) = Owed(Top) \cup {Count}
         /\ Labels(g) \subseteq Labels(Top) \cup {Count + 3}
         /\ Shaped(g, longer)
<1>1. /\ TypeOK
      /\ Block \in Seq(Nat)
      /\ WholeBlock(Block)
      /\ Count \in Nat
  BY Current, OKFacts
<1>2. /\ Top \in Frames /\ Top.kind = "then" /\ Top.func = func_index
      /\ BlockOK(Block, Around \cup {Top}, Here)
      /\ Above(Around, Top)
  <2>1. "func" \notin {"then"}
    OBVIOUS
  <2>2. QED
    BY <2>1, Innermost
<1>3. Top.start \in Nat
  BY <1>2 DEF Frames
<1>4. /\ g \in Frames
      /\ g.kind = kind
      /\ g.start = Top.start
      /\ g.body = Count + 3
      /\ g.func = func_index
  <2>1. kind \in Kinds /\ Count + 3 \in Nat
    BY <1>1 DEF Kinds
  <2>2. QED
    BY <1>2, <1>3, <2>1, NextPartFields
<1>5. Owed(Top) = {Top.start}
  BY <1>2 DEF Owed
<1>6. Top.start + 3 <= Count /\ Top.start \in TStarts(Block)
  BY <1>2, <1>5, OwedLast DEF Count
<1>7. (Count + 3) - 3 = Count
  BY <1>1
<1>8. Owed(g) = {g.start, Count} /\ Labels(g) = {Count + 3}
  BY <1>4, <1>7 DEF Owed, Labels
<1>9. At(longer, Count) = T_OP_JUMP /\ At(longer, Top.start) = At(Block, Top.start)
  <2> DEFINE op == T_OP_JUMP
  <2>1. op \in Nat /\ is_t_jump(op)
    BY JumpOps
  <2>2. longer = Owing(Block, op)
    BY DEF Owing
  <2> HIDE DEF op
  <2>3. At(Owing(Block, op), Len(Block)) = op
    BY <1>1, <2>1, OweAt
  <2>4. At(Owing(Block, op), Top.start) = At(Block, Top.start)
    BY <1>1, <1>6, <2>1, OweAt
  <2>5. QED
    BY <2>2, <2>3, <2>4 DEF Count, op
<1>10. At(Block, Top.start) = T_OP_JUMP_NCOND
  BY <1>2 DEF BlockOK, Shaped
<1>11. Shaped(g, longer)
  BY <1>4, <1>6, <1>7, <1>9, <1>10 DEF Shaped
<1>12. QED
  BY <1>4, <1>5, <1>8, <1>11

LEMMA ElseKeepsCode ==
  ASSUME IInv, CodeInv, ConditionalElse
  PROVE  CodeInv'
<1> DEFINE op == T_OP_JUMP
           g == NextPart("else", Top.start, Count + 3)
<1>1. /\ Reading
      /\ In({"then"}) /\ "func" \notin {"then"}
      /\ Emit(<<op>> \o U16(0))
      /\ Become("else", Top.start, Count + 3)
      /\ UNCHANGED <<status, t_jumps>>
  BY DEF ConditionalElse
<1>2. ctx' = [ctx EXCEPT ![Len(ctx)] = g]
  BY <1>1, BecomeIs
<1>3. op \in Nat /\ is_t_jump(op)
  BY JumpOps
<1>4. /\ g \in Frames
      /\ g.func = func_index
      /\ Owed(g) = Owed(Top) \cup {Count}
      /\ Labels(g) \subseteq Labels(Top) \cup {Count + 3}
      /\ Shaped(g, Block \o (<<op>> \o U16(0)))
  BY <1>1, OtherPart
<1> HIDE DEF g, op
<1>5. QED
  BY <1>1, <1>2, <1>3, <1>4, OweKeepsCode

LEMMA ElifKeepsCode ==
  ASSUME IInv, CodeInv, ConditionalElif
  PROVE  CodeInv'
<1> DEFINE op == T_OP_JUMP
           longer == Block \o (<<op>> \o U16(0))
           g == NextPart("elif", Top.start, Count + 3)
           c == [ctx EXCEPT ![Len(ctx)] = g]
           inner == Frame("if_cond", 0, 0)
<1>1. /\ Reading
      /\ In({"then"}) /\ "func" \notin {"then"}
      /\ Emit(<<op>> \o U16(0))
      /\ UNCHANGED <<status, t_jumps>>
  BY DEF ConditionalElif
<1>2. Top \in Frames
  BY <1>1, Innermost
<1>3. ctx' = Append(c, inner)
  <2>1. [Top EXCEPT !.kind = "elif", !.body = Count + 3] = g
    BY <1>2 DEF NextPart, Frames
  <2>2. ctx' = Append([ctx EXCEPT ![Len(ctx)] = [Top EXCEPT !.kind = "elif", !.body = Count + 3]],
                      inner)
    BY DEF ConditionalElif, Top
  <2>3. QED
    BY <2>1, <2>2
<1>4. op \in Nat /\ is_t_jump(op)
  BY JumpOps
<1>5. /\ g \in Frames
      /\ g.func = func_index
      /\ Owed(g) = Owed(Top) \cup {Count}
      /\ Labels(g) \subseteq Labels(Top) \cup {Count + 3}
      /\ Shaped(g, longer)
  BY <1>1, OtherPart
<1>6. Wrote(t_code, t_code', func_index + 1, longer)
  BY <1>1, <1>4, Current, OweWrites
<1> HIDE DEF g, op
<1>7. /\ c \in Seq(Frames)
      /\ Ordered(c)
      /\ \A f : f # func_index => FramesOf(c, f) = FramesOf(ctx, f)
      /\ BlockOK(longer, FramesOf(c, func_index), Here)
  BY <1>1, <1>4, <1>5, Owes
<1>8. inner \in Frames /\ inner.kind = "if_cond" /\ inner.func = func_index
  BY FrameFields DEF IInv, Kinds
<1> HIDE DEF c, longer, inner
<1>9. Owed(inner) = {} /\ Labels(inner) = {} /\ Shaped(inner, longer)
  BY <1>8 DEF Owed, Labels, Shaped
<1>10. /\ BlockOK(longer, FramesOf(c, func_index) \cup {inner}, Here)
       /\ Above(FramesOf(c, func_index), inner)
  BY <1>7, <1>9, OKPush, AboveEnd
<1>11. Pushed(ctx', c, inner)
  BY <1>3, <1>7, <1>8, PushAppend
<1>12. CodeOK(ctx', t_code', t_jumps')
  BY <1>1, <1>6, <1>7, <1>8, <1>10, <1>11, Stacked
<1>13. QED
  BY <1>1, <1>12, CodeInvIs DEF Reading

LEMMA WhileDoKeepsCode ==
  ASSUME IInv, CodeInv, WhileDo
  PROVE  CodeInv'
<1> DEFINE op == T_OP_JUMP_NCOND
           longer == Block \o (<<op>> \o U16(0))
           g == NextPart("while_body", Top.start, Count)
<1>1. /\ TypeOK
      /\ Block \in Seq(Nat)
      /\ WholeBlock(Block)
      /\ Count \in Nat
  BY Current, OKFacts
<1>2. /\ Reading
      /\ In({"while_cond"}) /\ "func" \notin {"while_cond"}
      /\ Emit(<<op>> \o U16(0))
      /\ Become("while_body", Top.start, Count)
      /\ UNCHANGED <<status, t_jumps>>
  BY DEF WhileDo
<1>3. /\ Top \in Frames /\ Top.kind = "while_cond" /\ Top.func = func_index
      /\ BlockOK(Block, Around \cup {Top}, Here)
      /\ Above(Around, Top)
  BY <1>2, Innermost
<1>4. ctx' = [ctx EXCEPT ![Len(ctx)] = g]
  BY <1>2, BecomeIs
<1>5. Top.start \in Nat
  BY <1>3 DEF Frames
<1>6. /\ g \in Frames /\ g.kind = "while_body" /\ g.start = Top.start /\ g.body = Count
      /\ g.func = func_index
  BY <1>1, <1>3, <1>5, NextPartFields, SMTT(40) DEF Kinds
<1>7. op \in Nat /\ is_t_jump(op)
  BY JumpOps
<1> HIDE DEF g, op
<1>8. /\ Owed(Top) = {} /\ Labels(Top) = {Top.start}
      /\ Owed(g) = {Count} /\ Labels(g) = {Top.start}
  BY <1>3, <1>6 DEF Owed, Labels
<1>9. Top.start <= Count
  BY <1>3, <1>8, OwedLast DEF Count
<1>10. At(longer, Count) = op
  BY <1>1, <1>7, OweAt DEF Count, Owing
<1> HIDE DEF longer
<1>11. Shaped(g, longer)
  BY <1>6, <1>9, <1>10 DEF Shaped, op
<1>12. Owed(g) = Owed(Top) \cup {Count} /\ Labels(g) \subseteq Labels(Top) \cup {Count + 3}
  BY <1>8
<1>13. QED
  BY <1>2, <1>4, <1>6, <1>7, <1>11, <1>12, OweKeepsCode DEF longer

LEMMA ForDoKeepsCode ==
  ASSUME IInv, CodeInv, ForDo
  PROVE  CodeInv'
<1> DEFINE op == IF Top.slots = 1 THEN T_OP_FOR_DEC_START ELSE T_OP_FOR_INC_START
           longer == Block \o (<<op>> \o U16(0))
           g == NextPart("for_body", Count, Count + 3)
<1>1. /\ TypeOK
      /\ Block \in Seq(Nat)
      /\ WholeBlock(Block)
      /\ Count \in Nat
  BY Current, OKFacts
<1>2. /\ Reading
      /\ In({"for_count"}) /\ "func" \notin {"for_count"}
      /\ Emit(<<op>> \o U16(0))
      /\ Become("for_body", Count, Count + 3)
      /\ UNCHANGED <<status, t_jumps>>
  BY DEF ForDo
<1>3. Top \in Frames /\ Top.kind = "for_count" /\ Top.func = func_index
  BY <1>2, Innermost
<1>4. ctx' = [ctx EXCEPT ![Len(ctx)] = g]
  BY <1>2, BecomeIs
<1>5. /\ g \in Frames /\ g.kind = "for_body" /\ g.start = Count /\ g.body = Count + 3
      /\ g.func = func_index /\ g.slots = Top.slots
  BY <1>1, <1>3, NextPartFields DEF Kinds
<1>6. op \in Nat /\ is_t_jump(op)
  BY JumpOps
<1> HIDE DEF g, op
<1>7. /\ Owed(g) = Owed(Top) \cup {Count}
      /\ Labels(g) = {Count + 3}
  BY <1>3, <1>5 DEF Owed, Labels
<1>8. At(longer, Count) = op
  BY <1>1, <1>6, OweAt DEF Count, Owing
<1> HIDE DEF longer
<1>9. Shaped(g, longer)
  BY <1>1, <1>5, <1>8 DEF Shaped, op
<1>10. Labels(g) \subseteq Labels(Top) \cup {Count + 3}
  BY <1>7
<1>11. QED
  BY <1>2, <1>4, <1>5, <1>6, <1>7, <1>9, <1>10, OweKeepsCode DEF longer

-----------------------------------------------------------------------------
(* The actions that close a construct.                                     *)

\* The chain that an inner call of compile_conditional returns to ends after the
\* jump that leads past it.
LEMMA ChainGoesOn ==
  ASSUME IInv, CodeInv, In({"then", "else", "elif"}),
         NEW last, last = Outer[Len(Outer)],
         Outer # <<>>, last.kind = "elif"
  PROVE  last.body < Count
<1>1. /\ ctx \in Seq(Frames)
      /\ ctx # <<>>
      /\ Top \in Frames
      /\ Top.kind \in {"then", "else", "elif"}
      /\ Top.func = func_index
      /\ Outer \in Seq(Frames)
      /\ Pushed(ctx, Outer, Top)
      /\ Above(Around, Top)
      /\ BlockOK(Block, Around \cup {Top}, Here)
  <2>1. "func" \notin {"then", "else", "elif"}
    OBVIOUS
  <2>2. QED
    BY <2>1, Innermost
<1>2. PICK n \in Nat : /\ DOMAIN Outer = 1..n /\ Len(Outer) = n
                       /\ DOMAIN ctx = 1..(n + 1) /\ Len(ctx) = n + 1
                       /\ \A i \in 1..n : ctx[i] = Outer[i]
                       /\ ctx[n + 1] = Top
  BY <1>1 DEF Pushed
<1>3. n # 0
  BY <1>1, <1>2, EmptySeq
<1>4. n \in 1..n /\ ctx[n] = last
  BY <1>2, <1>3
<1>5. last \in Frames
  BY <1>1, <1>2, <1>4, ElementOfSeq
<1>6. last.func = func_index
  <2>1. ctx[n + 1].func = FunctionOf(ctx[n])
    <3>1. n + 1 \in 1..Len(ctx) /\ n + 1 # 1 /\ (n + 1) - 1 = n
      BY <1>2, <1>3
    <3>2. QED
      BY <3>1 DEF IInv, FunctionsNest
  <2>2. QED
    BY <1>1, <1>2, <1>4, <2>1 DEF FunctionOf
<1>7. last \in Around
  BY <1>2, <1>4, <1>6 DEF Around, FramesOf
<1>8. last.body - 3 \in Owed(last)
  BY DEF Owed
<1>9. last.body - 3 \in OwedIn(Around)
  BY <1>7, <1>8 DEF OwedIn
<1>10. Top.start \in Owed(Top)
  BY <1>1 DEF Owed
<1>11. (last.body - 3) + 3 <= Top.start
  BY <1>9, <1>10 , <1>1 DEF Above
<1>12. Top.start + 3 <= Count /\ Top.start \in Nat /\ Count \in Nat
  BY <1>1, <1>10, OwedLast DEF Count
<1>13. last.body \in Nat
  BY <1>5 DEF Frames
<1>14. QED
  BY <1>11, <1>12, <1>13

\* The end of compile_conditional.
LEMMA ClosedCode ==
  ASSUME IInv, CodeInv, In({"then", "else", "elif"}),
         NEW else_start,
         Top.kind = "then" => else_start = Count,
         Top.kind # "then" => else_start = Top.body /\ else_start < Count,
         Fits(Top.start, else_start),
         else_start = Count \/ Fits(else_start - 3, Count),
         NEW closed,
         closed = IF else_start = Count THEN PatchTo(Block, Top.start, else_start)
                  ELSE ClosedAt(Block, Top.start, else_start),
         NEW jumps, jumps = With({Count}, else_start)
  PROVE  /\ BlockOK(closed, Around, Here \cup jumps)
         /\ Len(closed) = Count
         /\ closed \in Seq(Nat)
         /\ jumps \in SUBSET Nat
         /\ Top.func = func_index
<1>1. /\ Top \in Frames
      /\ Top.kind \in {"then", "else", "elif"}
      /\ Top.func = func_index
      /\ Above(Around, Top)
      /\ BlockOK(Block, Around \cup {Top}, Here)
  <2>1. "func" \notin {"then", "else", "elif"}
    OBVIOUS
  <2>2. QED
    BY <2>1, Innermost
<1>2. Count \in Nat /\ Top.start \in Nat /\ Top.body \in Nat
  BY <1>1, Current DEF Frames
<1>3. Count = Len(Block)
  BY DEF Count
<1>4. jumps \in SUBSET Nat
  BY <1>1, <1>2 DEF With
<1>5. CASE Top.kind = "then"
  <2>1. else_start = Len(Block) /\ Fits(Top.start, Len(Block))
    BY <1>3, <1>5
  <2>2. BlockOK(PatchTo(Block, Top.start, Len(Block)), Around, With(Here, Len(Block)))
    BY <1>1, <1>5, <2>1, OKEndThen
  <2>3. closed = PatchTo(Block, Top.start, Len(Block))
    BY <1>3, <2>1
  <2>4. With(Here, Len(Block)) = Here \cup jumps
    BY <1>3, <2>1 DEF With
  <2>5. Len(PatchTo(Block, Top.start, Len(Block))) = Len(Block)
    <3>1. Len(Block) - Top.start - 1 \in Int /\ Top.start + 1 \in Int
      BY <1>2, <1>3
    <3>2. QED
      BY <3>1, Current, ReplacedType DEF PatchTo, Patched, overwrite_s16
  <2>6. closed \in Seq(Nat)
    BY <2>2, <2>3, OKFacts
  <2>7. QED
    BY <1>1, <1>3, <1>4, <2>2, <2>3, <2>4, <2>5, <2>6
<1>6. CASE Top.kind # "then"
  <2>1. /\ Top.kind \in {"else", "elif"}
        /\ Top.body < Len(Block)
        /\ else_start = Top.body
        /\ else_start # Count
    BY <1>1, <1>2, <1>3, <1>6
  <2>2. Fits(Top.start, Top.body) /\ Fits(Top.body - 3, Len(Block))
    BY <1>3, <2>1
  <2>3. /\ BlockOK(ClosedAt(Block, Top.start, Top.body), Around,
                   With(With(Here, Len(Block)), Top.body))
        /\ Len(ClosedAt(Block, Top.start, Top.body)) = Len(Block)
    BY <1>1, <2>1, <2>2, OKEndElse
  <2>4. closed = ClosedAt(Block, Top.start, Top.body)
    BY <2>1
  <2>5. With(With(Here, Len(Block)), Top.body) = Here \cup jumps
    BY <1>3, <2>1 DEF With
  <2>6. closed \in Seq(Nat)
    BY <2>3, <2>4, OKFacts
  <2>7. QED
    BY <1>1, <1>3, <1>4, <2>3, <2>4, <2>5, <2>6
<1>7. QED
  BY <1>5, <1>6

LEMMA CloseKeepsCode ==
  ASSUME IInv, CodeInv, In({"then", "else", "elif"}),
         NEW else_start,
         Top.kind = "then" => else_start = Count,
         Top.kind # "then" => else_start = Top.body /\ else_start < Count,
         CloseConditional(Top.start, else_start, Count)
  PROVE  CodeInv'
<1> DEFINE closed == IF else_start = Count THEN PatchTo(Block, Top.start, else_start)
                     ELSE ClosedAt(Block, Top.start, else_start)
           jumps == With({Count}, else_start)
           done == /\ Fits(Top.start, else_start)
                   /\ else_start = Count \/ Fits(else_start - 3, Count)
<1>1. CASE ~done
  <2>1. Fail
    BY <1>1 DEF CloseConditional, Fail, Fits
  <2>2. QED
    BY <2>1, FailKeepsCode
<1>2. CASE done
  <2>1. /\ SetBlock(closed)
        /\ AddJumps(jumps)
        /\ end_addr' = Count
        /\ status' = "returning"
        /\ Leave
        /\ UNCHANGED func_index
    <3>1. InS16(else_start - Top.start - 1)
          /\ (else_start = Count \/ InS16(Count - (else_start - 3) - 1))
      BY <1>2 DEF Fits
    <3>2. closed = IF else_start = Count
                   THEN Patched(Block, Top.start, else_start - Top.start - 1)
                   ELSE Patched(Patched(Block, Top.start, else_start - Top.start - 1),
                                else_start - 3, Count - (else_start - 3) - 1)
      BY DEF PatchTo, ClosedAt, Count
    <3>3. jumps = IF else_start = Count THEN {else_start} ELSE {else_start, Count}
      BY DEF With
    <3>4. QED
      BY <3>1, <3>2, <3>3 DEF CloseConditional
  <2> HIDE DEF closed
  <2>2. /\ BlockOK(closed, Around, Here \cup jumps)
        /\ Len(closed) = Count
        /\ closed \in Seq(Nat)
        /\ jumps \in SUBSET Nat
        /\ Top.func = func_index
    BY <1>2, ClosedCode, ZenonT(60) DEF closed
  <2> HIDE DEF jumps
  <2>3. TypeOK
    BY DEF IInv
  <2>4. Wrote(t_code, t_code', func_index + 1, closed)
    BY <2>1, <2>2, <2>3, SetWrites
  <2>5. Wrote(t_jumps, t_jumps', func_index + 1, Here \cup jumps)
    BY <2>1, <2>2, <2>3, AddWrites
  <2>6. ctx' = Outer
    BY <2>1 DEF Leave, Outer
  <2>7. CodeOK(ctx', t_code', t_jumps')
    <3>1. "func" \notin {"then", "else", "elif"}
      OBVIOUS
    <3>2. QED
      BY <2>2, <2>4, <2>5, <2>6, <3>1, Gone
  <2>8. Count' = Count
    <3>1. Count' = Len(t_code'[func_index' + 1])
      BY DEF Count, Block
    <3>2. QED
      BY <2>1, <2>2, <2>4, <3>1 DEF Wrote
  <2>9. Returning'
    <3>1. end_addr' = Count'
      BY <2>1, <2>8
    <3>2. ASSUME In({"elif"})' PROVE Top'.body < Count'
      <4>1. Len(Outer) > 0 /\ Outer[Len(Outer)].kind = "elif"
        BY <2>6, <3>2 DEF In, Top
      <4>2. Outer # <<>>
        BY <4>1, EmptySeq
      <4>3. Outer[Len(Outer)].body < Count
        BY <4>1, <4>2, ChainGoesOn
      <4>4. QED
        BY <2>6, <2>8, <4>3 DEF Top
    <3>3. QED
      BY <3>1, <3>2 DEF Returning
  <2>10. QED
    BY <2>1, <2>7, <2>9 DEF CodeInv
<1>3. QED
  BY <1>1, <1>2

LEMMA EndKeepsCode ==
  ASSUME IInv, CodeInv, "empty_else" \notin Oddities, ConditionalEnd
  PROVE  CodeInv'
<1> DEFINE else_start == IF Top.kind = "then" THEN Count ELSE Top.body
<1>1. /\ In({"then", "else"})
      /\ Top.kind = "else" => Top.body # Count
      /\ CloseConditional(Top.start, else_start, Count)
  BY DEF ConditionalEnd
<1>2. /\ Top \in Frames
      /\ Top.kind \in {"then", "else"}
      /\ BlockOK(Block, Around \cup {Top}, Here)
      /\ Above(Around, Top)
  <2>1. "func" \notin {"then", "else"}
    OBVIOUS
  <2>2. QED
    BY <1>1, <2>1, Innermost
<1>3. In({"then", "else", "elif"})
  BY <1>1 DEF In
<1>4. Top.kind # "then" => Top.body < Count
  <2>1. ASSUME Top.kind = "else" PROVE Top.body <= Count
    <3>1. Top.body \in Labels(Top)
      BY <2>1 DEF Labels
    <3>2. QED
      BY <1>2, <3>1, OwedLast DEF Count
  <2>2. Top.body \in Nat /\ Count \in Nat
    BY <1>2, Current DEF Frames
  <2>3. QED
    BY <1>1, <1>2, <2>1, <2>2
<1>5. QED
  BY <1>1, <1>3, <1>4, CloseKeepsCode

LEMMA ReturnToElifKeepsCode ==
  ASSUME IInv, CodeInv, ReturnToElif
  PROVE  CodeInv'
<1>1. /\ status = "returning"
      /\ In({"elif"})
      /\ CloseConditional(Top.start, Top.body, end_addr)
  BY DEF ReturnToElif
<1>2. end_addr = Count /\ Top.body < Count
  BY <1>1 DEF CodeInv, Returning
<1>3. In({"then", "else", "elif"}) /\ Top.kind = "elif"
  BY <1>1 DEF In
<1>4. QED
  BY <1>1, <1>2, <1>3, CloseKeepsCode

LEMMA ReturnKeepsCode ==
  ASSUME CodeInv, ReturnFromConditional
  PROVE  CodeInv'
BY CodeUntouched DEF ReturnFromConditional

\* The block of a loop that closes, as the code builds it.
Looped(block, op, back) == block \o <<op>> \o U16(back - Len(block) - 1)

LEMMA LoopWritten ==
  ASSUME NEW block \in Seq(Nat), NEW op \in Nat, NEW back \in Nat
  PROVE  Looped(block, op, back) = LoopBack(block, op, back)
<1> DEFINE jump == U16(back - Len(block) - 1)
<1>1. jump \in Seq(Nat)
  <2>1. back - Len(block) - 1 \in Int
    BY LenProperties
  <2>2. QED
    BY <2>1, U16Type
<1>2. Looped(block, op, back) = (block \o <<op>>) \o jump
  BY DEF Looped
<1>3. LoopBack(block, op, back) = block \o (<<op>> \o jump)
  BY DEF LoopBack
<1>4. <<op>> \in Seq(Nat)
  OBVIOUS
<1> HIDE DEF jump
<1>5. QED
  BY <1>1, <1>2, <1>3, <1>4, ConcatAssociative, SMTT(40)

LEMMA LoopedLength ==
  ASSUME NEW block \in Seq(Nat), NEW op \in Nat, NEW back \in Nat
  PROVE  Len(Looped(block, op, back)) = Len(block) + 3
<1> DEFINE bytes == <<op>> \o U16(back - Len(block) - 1)
<1>1. bytes \in Seq(Nat) /\ Len(bytes) = 3
  <2>1. back - Len(block) - 1 \in Int
    BY LenProperties
  <2>2. QED
    BY <2>1, EmittedOperand
<1>2. LoopBack(block, op, back) = block \o bytes
  BY DEF LoopBack
<1> HIDE DEF bytes
<1>3. Len(block \o bytes) = Len(block) + Len(bytes)
  BY <1>1, ConcatProperties
<1>4. QED
  BY <1>1, <1>2, <1>3, LoopWritten

LEMMA LoopKeepsCode ==
  ASSUME IInv, CodeInv, NEW kinds, In(kinds), "func" \notin kinds, status = "compiling",
         NEW op \in Nat, NEW back \in Nat, NEW b \in Nat,
         Len(LoopBack(Block, op, back)) = Len(Block) + 3,
         BlockOK(LoopEnd(Block, op, back, b), Around, With(With(Here, back), Len(Block) + 3)),
         NEW looped, looped = Block \o <<op>> \o U16(back - Count - 1),
         SetBlock(Patched(looped, b, Len(looped) - b - 1)),
         AddJumps({back, Len(looped)}),
         Leave, UNCHANGED status
  PROVE  CodeInv'
<1> DEFINE closed == LoopEnd(Block, op, back, b)
           n == Len(Block) + 3
<1>1. TypeOK /\ Block \in Seq(Nat) /\ Count \in Nat /\ Count = Len(Block)
  BY Current DEF Count
<1>2. /\ Len(looped) = n
      /\ Patched(looped, b, Len(looped) - b - 1) = closed
  <2>1. looped = Looped(Block, op, back)
    BY <1>1 DEF Looped
  <2>2. looped = LoopBack(Block, op, back)
    BY <1>1, <2>1, LoopWritten
  <2>3. QED
    BY <2>2 DEF LoopEnd, PatchTo
<1>3. SetBlock(closed) /\ AddJumps({back, n})
  BY <1>2
<1>4. BlockOK(closed, Around, With(With(Here, back), n)) /\ n \in Nat
  BY <1>1
<1> HIDE DEF closed, n
<1>5. closed \in Seq(Nat)
  BY <1>4, OKFacts
<1>6. Wrote(t_code, t_code', func_index + 1, closed)
  BY <1>1, <1>3, <1>5, SetWrites
<1>7. Top.func = func_index
  BY Innermost
<1>8. {back, n} \in SUBSET Nat
  BY <1>4
<1>9. Wrote(t_jumps, t_jumps', func_index + 1, Here \cup {back, n})
  BY <1>1, <1>3, <1>7, <1>8, AddWrites
<1>10. Here \cup {back, n} = With(With(Here, back), n)
  BY DEF With
<1>11. ctx' = Outer
  BY DEF Leave, Outer
<1>12. CodeOK(ctx', t_code', t_jumps')
  BY <1>4, <1>6, <1>9, <1>10, <1>11, Gone
<1>13. QED
  BY <1>12, CodeInvIs

LEMMA WhileEndKeepsCode ==
  ASSUME IInv, CodeInv, "long_while" \notin Oddities, WhileEnd
  PROVE  CodeInv'
<1> DEFINE op     == T_OP_JUMP
           looped == Block \o <<op>> \o U16(Top.start - Count - 1)
           exit   == Len(looped) - Top.body - 1
<1>1. /\ status = "compiling"
      /\ In({"while_body"})
      /\ InS16(exit) => InS16(Top.start - Count - 1)
      /\ IF InS16(exit)
         THEN /\ SetBlock(Patched(looped, Top.body, exit))
              /\ AddJumps({Top.start, Len(looped)})
              /\ Leave
              /\ UNCHANGED status
         ELSE Fail
  BY DEF WhileEnd, Reading
<1>2. /\ Top \in Frames
      /\ Top.kind = "while_body"
      /\ BlockOK(Block, Around \cup {Top}, Here)
      /\ Above(Around, Top)
  <2>1. "func" \notin {"while_body"}
    OBVIOUS
  <2>2. QED
    BY <1>1, <2>1, Innermost
<1>3. CASE ~InS16(exit)
  <2>1. Fail
    BY <1>1, <1>3
  <2>2. QED
    BY <2>1, FailKeepsCode
<1>4. CASE InS16(exit)
  <2>1. /\ Top.start \in Nat /\ Top.body \in Nat
        /\ Block \in Seq(Nat) /\ Count \in Nat /\ Count = Len(Block)
    BY <1>2, Current DEF Frames, Count
  <2>2. op \in Nat
    BY JumpOps
  <2>3. Len(looped) = Len(Block) + 3
    <3>1. looped = Looped(Block, op, Top.start)
      BY <2>1 DEF Looped
    <3>2. QED
      BY <2>1, <2>2, <3>1, LoopedLength
  <2>4. Fits(Len(Block), Top.start) /\ Fits(Top.body, Len(Block) + 3)
    <3>1. InS16(Top.start - Len(Block) - 1)
      BY <1>1, <1>4, <2>1
    <3>2. InS16((Len(Block) + 3) - Top.body - 1)
      BY <1>4, <2>3
    <3>3. QED
      BY <3>1, <3>2 DEF Fits
  <2>5. /\ BlockOK(LoopEnd(Block, op, Top.start, Top.body), Around,
                   With(With(Here, Top.start), Len(Block) + 3))
        /\ Len(LoopBack(Block, op, Top.start)) = Len(Block) + 3
    BY <1>2, <2>4, OKEndWhile
  <2>6. "func" \notin {"while_body"}
    OBVIOUS
  <2> HIDE DEF op, looped
  <2>7. /\ SetBlock(Patched(looped, Top.body, Len(looped) - Top.body - 1))
        /\ AddJumps({Top.start, Len(looped)})
        /\ Leave
        /\ UNCHANGED status
    BY <1>1, <1>4
  <2>8. looped = Block \o <<op>> \o U16(Top.start - Count - 1)
    BY DEF looped
  <2>9. QED
    BY <1>1, <2>1, <2>2, <2>5, <2>6, <2>7, <2>8, LoopKeepsCode
<1>5. QED
  BY <1>3, <1>4

\* The jump back of a counted loop is shorter than the one over its body, so the
\* check of the one is a check of both.
LEMMA ForBackFits ==
  ASSUME NEW start \in Nat, NEW n \in Nat, start + 3 <= n, Fits(start, n + 3)
  PROVE  Fits(n, start + 3)
<1> DEFINE half == Words16 \div 2
<1>1. half \in Nat
  BY Halves
<1>2. (n + 3) - start - 1 < half
  BY DEF Fits, InS16
<1> HIDE DEF half
<1>3. -half <= (start + 3) - n - 1 /\ (start + 3) - n - 1 < half
  BY <1>1, <1>2
<1>4. QED
  BY <1>3 DEF Fits, InS16, half

LEMMA ForEndKeepsCode ==
  ASSUME IInv, CodeInv, ForEnd
  PROVE  CodeInv'
<1> DEFINE op     == IF Top.slots = 1 THEN T_OP_FOR_DEC ELSE T_OP_FOR_INC
           looped == Block \o <<op>> \o U16(Top.body - Count - 1)
           skip   == Len(looped) - Top.start - 1
<1>1. /\ status = "compiling"
      /\ In({"for_body"})
      /\ IF InS16(skip)
         THEN /\ SetBlock(Patched(looped, Top.start, skip))
              /\ AddJumps({Top.body, Len(looped)})
              /\ Leave
              /\ UNCHANGED status
         ELSE Fail
  BY DEF ForEnd, Reading
<1>2. /\ Top \in Frames
      /\ Top.kind = "for_body"
      /\ BlockOK(Block, Around \cup {Top}, Here)
      /\ Above(Around, Top)
  <2>1. "func" \notin {"for_body"}
    OBVIOUS
  <2>2. QED
    BY <1>1, <2>1, Innermost
<1>3. CASE ~InS16(skip)
  <2>1. Fail
    BY <1>1, <1>3
  <2>2. QED
    BY <2>1, FailKeepsCode
<1>4. CASE InS16(skip)
  <2>1. /\ Top.start \in Nat /\ Top.body \in Nat
        /\ Block \in Seq(Nat) /\ Count \in Nat /\ Count = Len(Block)
    BY <1>2, Current DEF Frames, Count
  <2>2. op \in Nat
    BY DEF T_OP_FOR_DEC, T_OP_FOR_INC
  <2>3. Len(looped) = Len(Block) + 3
    <3>1. looped = Looped(Block, op, Top.body)
      BY <2>1 DEF Looped
    <3>2. QED
      BY <2>1, <2>2, <3>1, LoopedLength
  <2>4. Top.start + 3 <= Len(Block) /\ Top.body = Top.start + 3
    <3>1. Top.start \in Owed(Top)
      BY <1>2 DEF Owed
    <3>2. Shaped(Top, Block)
      BY <1>2 DEF BlockOK
    <3>3. QED
      BY <1>2, <3>1, <3>2, OwedLast DEF Shaped
  <2>5. Fits(Top.start, Len(Block) + 3)
    <3>1. InS16((Len(Block) + 3) - Top.start - 1)
      BY <1>4, <2>3
    <3>2. QED
      BY <3>1 DEF Fits
  <2>6. Fits(Len(Block), Top.body)
    <3>1. Len(Block) \in Nat
      BY <2>1
    <3>2. QED
      BY <2>1, <2>4, <2>5, <3>1, ForBackFits
  <2>7. /\ BlockOK(LoopEnd(Block, op, Top.body, Top.start), Around,
                   With(With(Here, Top.body), Len(Block) + 3))
        /\ Len(LoopBack(Block, op, Top.body)) = Len(Block) + 3
    BY <1>2, <2>5, <2>6, OKEndFor
  <2>8. "func" \notin {"for_body"}
    OBVIOUS
  <2> HIDE DEF op, looped
  <2>9. /\ SetBlock(Patched(looped, Top.start, Len(looped) - Top.start - 1))
        /\ AddJumps({Top.body, Len(looped)})
        /\ Leave
        /\ UNCHANGED status
    BY <1>1, <1>4
  <2>10. looped = Block \o <<op>> \o U16(Top.body - Count - 1)
    BY DEF looped
  <2>11. QED
    BY <1>1, <2>1, <2>2, <2>7, <2>8, <2>9, <2>10, LoopKeepsCode
<1>5. QED
  BY <1>3, <1>4

-----------------------------------------------------------------------------
(* Functions.                                                              *)

\* A function without code.
LEMMA NoCode ==
  BlockOK(<<>>, {}, {})
<1>1. WholeBlock(<<>>) /\ TStarts(<<>>) = {}
  BY EmptyWhole
<1>2. TJumps(<<>>) = {}
  BY <1>1 DEF TJumps
<1>3. OwedIn({}) = {} /\ LabelsIn({}) = {}
  BY DEF OwedIn, LabelsIn
<1>4. Linked(<<>>, Places(<<>>), Len(<<>>), {}, {}, {})
  BY DEF Linked
<1>5. Coded(<<>>, {}, {}, {})
  BY <1>1, <1>2, <1>4 DEF Coded
<1>6. QED
  BY <1>3, <1>5 DEF BlockOK

LEMMA FunctionKeepsCode ==
  ASSUME IInv, CodeInv, NEW n \in FuncNames, NEW sig \in Signatures, CompileFunction(n, sig)
  PROVE  CodeInv'
<1> DEFINE g == Frame("func", 0, Len(t_code))
           count == Len(t_code)
<1>1. /\ status = "compiling" /\ UNCHANGED status
      /\ t_code' = Append(t_code, <<>>)
      /\ t_jumps' = Append(t_jumps, {})
      /\ ctx' = Append(ctx, g)
  BY DEF CompileFunction, Reading, Enter
<1>2. /\ TypeOK
      /\ ctx \in Seq(Frames)
      /\ t_code \in Seq(Seq(Nat))
      /\ t_jumps \in Seq(SUBSET Nat)
      /\ count \in Nat
      /\ Len(t_jumps) = count
      /\ func_index \in 0..(count - 1)
      /\ CodeOK(ctx, t_code, t_jumps)
      /\ BlockOK(Block, Working, Here)
  BY Current DEF TypeOK
<1>3. g \in Frames /\ g.kind = "func" /\ g.func = func_index
  <2>1. "func" \in Kinds /\ 0 \in Nat
    BY DEF Kinds
  <2>2. QED
    BY <1>2, <2>1, FrameFields
<1> HIDE DEF g
<1>4. Owed(g) = {} /\ Labels(g) = {} /\ Shaped(g, Block)
  BY <1>3 DEF Owed, Labels, Shaped
<1>5. Pushed(ctx', ctx, g)
  BY <1>1, <1>2, <1>3, PushAppend
<1>6. \A f : FramesOf(ctx', f) = FramesOf(ctx, f) \cup (IF g.func = f THEN {g} ELSE {})
  BY <1>5, PushedFrames
<1>7. Ordered(ctx')
  <2>1. Above(Working, g)
    BY <1>2, <1>4, AboveEnd
  <2>2. \A frame \in FramesOf(ctx, g.func) : Above({frame}, g)
    BY <1>3, <2>1, AboveEach DEF Working
  <2>3. Ordered(ctx)
    BY <1>2 DEF CodeOK
  <2>4. QED
    BY <1>5, <2>2, <2>3, PushedOrdered
<1>8. /\ Len(t_code') = count + 1
      /\ t_code'[count + 1] = <<>>
      /\ \A i \in 1..count : t_code'[i] = t_code[i]
  BY <1>1, <1>2, AppendProperties
<1>9. /\ t_jumps'[count + 1] = {}
      /\ \A i \in 1..count : t_jumps'[i] = t_jumps[i]
  <2> DEFINE empty == {}
  <2>1. empty \in SUBSET Nat /\ t_jumps' = Append(t_jumps, empty)
    BY <1>1
  <2> HIDE DEF empty
  <2>2. t_jumps \in Seq(SUBSET Nat)
    BY <1>2
  <2>3. /\ t_jumps'[Len(t_jumps) + 1] = empty
        /\ \A i \in 1..Len(t_jumps) : t_jumps'[i] = t_jumps[i]
    BY <2>1, <2>2, AppendProperties
  <2>4. QED
    BY <1>2, <2>3 DEF empty
<1>10. FramesOf(ctx, count) = {}
  <2>1. \A i \in 1..Len(ctx) : ctx[i].func \in 0..(count - 1)
    BY DEF IInv, FunctionsNest
  <2>2. DOMAIN ctx = 1..Len(ctx)
    BY <1>2
  <2> HIDE DEF count
  <2>3. \A i \in 1..Len(ctx) : ctx[i].func # count
    BY <1>2, <2>1
  <2>4. QED
    BY <2>2, <2>3 DEF FramesOf
<1> HIDE DEF count
<1>11. ASSUME NEW f \in 1..(count + 1)
       PROVE  BlockOK(t_code'[f], FramesOf(ctx', f - 1), t_jumps'[f])
  <2>1. CASE f = count + 1
    <3>1. f - 1 = count /\ func_index # count
      BY <1>2, <2>1
    <3>2. FramesOf(ctx', f - 1) = {}
      BY <1>3, <1>6, <1>10, <3>1
    <3>3. QED
      BY <1>8, <1>9, <2>1, <3>2, NoCode
  <2>2. CASE f # count + 1
    <3>1. f \in 1..count
      BY <1>2, <2>2
    <3>2. BlockOK(t_code[f], FramesOf(ctx, f - 1), t_jumps[f])
      BY <1>2, <3>1 DEF CodeOK, count
    <3>3. CASE f - 1 = func_index
      <4>1. f = func_index + 1
        BY <1>2, <3>3
      <4>2. FramesOf(ctx', f - 1) = Working \cup {g}
        BY <1>3, <1>6, <3>3 DEF Working
      <4>3. BlockOK(Block, Working \cup {g}, Here)
        BY <1>2, <1>4, OKPush
      <4>4. t_code'[f] = Block /\ t_jumps'[f] = Here
        BY <1>8, <1>9, <3>1, <4>1 DEF Block, Here
      <4>5. QED
        BY <4>2, <4>3, <4>4
    <3>4. CASE f - 1 # func_index
      <4>1. FramesOf(ctx', f - 1) = FramesOf(ctx, f - 1)
        BY <1>3, <1>6, <3>4
      <4>2. QED
        BY <1>8, <1>9, <3>1, <3>2, <4>1
    <3>5. QED
      BY <3>3, <3>4
  <2>3. QED
    BY <2>1, <2>2
<1>12. CodeOK(ctx', t_code', t_jumps')
  BY <1>7, <1>8, <1>11 DEF CodeOK
<1>13. QED
  BY <1>1, <1>12, CodeInvIs

\* The RET at the end of a function, or none.
LEMMA RetAppended ==
  ASSUME IInv, CodeInv, UNCHANGED t_jumps, NEW bytes, bytes = <<T_OP_RET>> \/ bytes = <<>>,
         Emit(bytes)
  PROVE  CodeOK(ctx, t_code', t_jumps')
<1>1. /\ TypeOK
      /\ Block \in Seq(Nat)
      /\ Ordered(ctx)
      /\ BlockOK(Block, Working, Here)
  BY Current
<1>2. bytes \in Seq(Nat)
  <2>1. T_OP_RET \in Nat
    BY OpcodeTypes
  <2>2. <<T_OP_RET>> \in Seq(Nat)
    BY <2>1
  <2>3. <<>> \in Seq(Nat)
    OBVIOUS
  <2>4. QED
    BY <2>2, <2>3
<1>3. BlockOK(Block \o bytes, Working, Here)
  <2>1. CASE bytes = <<T_OP_RET>>
    <3> DEFINE op == T_OP_RET
    <3>1. op \in {T_OP_POP, T_OP_DUPE, T_OP_EXIT, T_OP_RET}
      OBVIOUS
    <3> HIDE DEF op
    <3>2. Len(<<op>>) = t_instruction_size(At(<<op>>, 0)) /\ ~is_t_jump(At(<<op>>, 0))
      BY <3>1, SimpleSize
    <3>3. bytes = <<op>>
      BY <2>1 DEF op
    <3>4. Len(bytes) = t_instruction_size(At(bytes, 0)) /\ ~is_t_jump(At(bytes, 0))
      BY <3>2, <3>3
    <3>5. QED
      BY <1>1, <1>2, <3>4, OKPlain
  <2>2. CASE bytes = <<>>
    <3>1. Block \o <<>> = Block
      BY <1>1, ConcatEmptySeq
    <3>2. QED
      BY <1>1, <2>2, <3>1
  <2>3. QED
    BY <2>1, <2>2
<1>4. Wrote(t_code, t_code', func_index + 1, Block \o bytes)
  BY <1>1, <1>2, EmitWrites
<1>5. Wrote(t_jumps, t_jumps', func_index + 1, Here)
  BY WroteNothing DEF Here
<1> DEFINE longer == Block \o bytes
<1> HIDE DEF longer
<1>6. BlockOK(longer, FramesOf(ctx, func_index), Here)
  BY <1>3 DEF Working, longer
<1>7. Wrote(t_code, t_code', func_index + 1, longer)
  BY <1>4 DEF longer
<1>8. QED
  BY <1>1, <1>5, <1>6, <1>7, Current, CodeWritten

\* A construct that owes nothing is left.
LEMMA CodeDropped ==
  ASSUME NEW c, NEW code, NEW dests, CodeOK(c, code, dests),
         NEW p, NEW t, Pushed(c, p, t), Owed(t) = {}
  PROVE  CodeOK(p, code, dests)
<1>1. Ordered(p)
  BY PushedOrdered DEF CodeOK
<1>2. ASSUME NEW f \in 1..Len(code)
      PROVE  BlockOK(code[f], FramesOf(p, f - 1), dests[f])
  <2>1. BlockOK(code[f], FramesOf(c, f - 1), dests[f])
    BY DEF CodeOK
  <2>2. FramesOf(c, f - 1) = FramesOf(p, f - 1) \cup (IF t.func = f - 1 THEN {t} ELSE {})
    BY PushedFrames
  <2>3. CASE t.func = f - 1
    <3>1. BlockOK(code[f], FramesOf(p, f - 1) \cup {t}, dests[f])
      BY <2>1, <2>2, <2>3
    <3>2. QED
      BY <3>1, OKDrop
  <2>4. CASE t.func # f - 1
    BY <2>1, <2>2, <2>4
  <2>5. QED
    BY <2>3, <2>4
<1>3. QED
  BY <1>1, <1>2 DEF CodeOK

LEMMA FunctionEndKeepsCode ==
  ASSUME IInv, CodeInv, FunctionEnd
  PROVE  CodeInv'
<1> DEFINE bytes == IF NeedsRet THEN <<T_OP_RET>> ELSE <<>>
<1>1. /\ status = "compiling" /\ UNCHANGED <<status, t_jumps>>
      /\ In({"func"})
      /\ Emit(bytes)
      /\ ctx' = Outer
  BY DEF FunctionEnd, Reading, Leave, Outer
<1>2. bytes = <<T_OP_RET>> \/ bytes = <<>>
  OBVIOUS
<1> HIDE DEF bytes
<1>3. CodeOK(ctx, t_code', t_jumps')
  BY <1>1, <1>2, RetAppended
<1>4. ctx \in Seq(Frames) /\ ctx # <<>> /\ Top.kind = "func"
  BY <1>1, InnermostConstruct DEF IInv, TypeOK
<1>5. Pushed(ctx, Outer, Top)
  BY <1>4, PushTop DEF Outer, Top
<1>6. Owed(Top) = {}
  BY <1>4 DEF Owed
<1>7. CodeOK(ctx', t_code', t_jumps')
  BY <1>1, <1>3, <1>5, <1>6, CodeDropped
<1>8. QED
  BY <1>1, <1>7, CodeInvIs

LEMMA FinishKeepsCode ==
  ASSUME IInv, CodeInv, Finish
  PROVE  CodeInv'
<1> DEFINE bytes == <<T_OP_RET>>
<1>1. /\ ctx = <<>> /\ UNCHANGED <<ctx, t_jumps>>
      /\ Emit(bytes)
      /\ status' = "compiled"
  BY DEF Finish
<1>2. bytes = <<T_OP_RET>> \/ bytes = <<>>
  OBVIOUS
<1> HIDE DEF bytes
<1>3. CodeOK(ctx, t_code', t_jumps')
  BY <1>1, <1>2, RetAppended
<1>4. CodeOK(ctx', t_code', t_jumps')
  BY <1>1, <1>3
<1>5. Returning'
  BY <1>1 DEF Returning
<1>6. QED
  BY <1>1, <1>4, <1>5 DEF CodeInv

\* What leaves the code alone.
LEMMA VarKeepsCode ==
  ASSUME CodeInv, NEW n \in VarNames, CompileVar(n)
  PROVE  CodeInv'
BY CodeUntouched DEF CompileVar, Reading

LEMMA RefusalKeepsCode ==
  ASSUME CodeInv, NEW n, RefuseSymbol(n) \/ RefuseAssignment(n)
  PROVE  CodeInv'
BY FailKeepsCode DEF RefuseSymbol, RefuseAssignment

LEMMA UnexpectedKeepsCode ==
  ASSUME CodeInv, Unexpected
  PROVE  CodeInv'
BY FailKeepsCode DEF Unexpected

LEMMA StutterKeepsCode ==
  ASSUME CodeInv, UNCHANGED vars
  PROVE  CodeInv'
BY DEF vars, CodeInv, CodeOK, Returning, In, Top, Count, Block

LEMMA InitHasCode ==
  ASSUME Init
  PROVE  CodeInv
<1>1. /\ ctx = <<>>
      /\ t_code = <<<<>>>>
      /\ t_jumps = <<{}>>
      /\ status = "compiling"
  BY DEF Init
<1>2. \A f : FramesOf(ctx, f) = {}
  BY <1>1 DEF FramesOf
<1>3. Ordered(ctx)
  BY <1>1 DEF Ordered
<1>4. ASSUME NEW f \in 1..Len(t_code)
      PROVE  BlockOK(t_code[f], FramesOf(ctx, f - 1), t_jumps[f])
  <2>1. f = 1
    BY <1>1
  <2>2. t_code[f] = <<>> /\ t_jumps[f] = {}
    BY <1>1, <2>1
  <2>3. QED
    BY <1>2, <2>2, NoCode
<1>5. QED
  BY <1>1, <1>3, <1>4 DEF CodeInv, CodeOK, Returning

LEMMA NextKeepsCode ==
  ASSUME {"empty_else", "long_while"} \cap Oddities = {}, IInv, CodeInv, [Next]_vars
  PROVE  CodeInv'
<1>1. "empty_else" \notin Oddities /\ "long_while" \notin Oddities
  OBVIOUS
<1>2. CASE \E op \in LiteralOps : \E v \in Literals : CompileInteger(op, v)
  BY <1>2, LiteralKeepsCode
<1>3. CASE \E op \in SimpleOps : CompileSimple(op)
  BY <1>3, SimpleKeepsCode
<1>4. CASE \E n \in Names : CompileSymbol(n)
  BY <1>4, SymbolKeepsCode
<1>5. CASE \E n \in Names : RefuseSymbol(n)
  BY <1>5, RefusalKeepsCode
<1>6. CASE \E n \in VarNames : CompileVar(n)
  BY <1>6, VarKeepsCode
<1>7. CASE \E n \in VarNames : CompileAssignment(n)
  BY <1>7, AssignmentKeepsCode
<1>8. CASE \E n \in VarNames : RefuseAssignment(n)
  BY <1>8, RefusalKeepsCode
<1>9. CASE CompileIf
  BY <1>9, IfKeepsCode
<1>10. CASE ConditionalThen
  BY <1>10, ThenKeepsCode
<1>11. CASE ConditionalElse
  BY <1>11, ElseKeepsCode
<1>12. CASE ConditionalElif
  BY <1>12, ElifKeepsCode
<1>13. CASE ConditionalEnd
  BY <1>1, <1>13, EndKeepsCode
<1>14. CASE ReturnToElif
  BY <1>14, ReturnToElifKeepsCode
<1>15. CASE ReturnFromConditional
  BY <1>15, ReturnKeepsCode
<1>16. CASE CompileWhile
  BY <1>16, WhileKeepsCode
<1>17. CASE WhileDo
  BY <1>17, WhileDoKeepsCode
<1>18. CASE WhileEnd
  BY <1>1, <1>18, WhileEndKeepsCode
<1>19. CASE CompileFor
  BY <1>19, ForKeepsCode
<1>20. CASE \E n \in LoopNames : \E slots \in {1, 2} : CompileForVar(n, slots)
  BY <1>20, ForVarKeepsCode
<1>21. CASE ForDo
  BY <1>21, ForDoKeepsCode
<1>22. CASE ForEnd
  BY <1>22, ForEndKeepsCode
<1>23. CASE \E n \in FuncNames : \E sig \in Signatures : CompileFunction(n, sig)
  BY <1>23, FunctionKeepsCode
<1>24. CASE FunctionEnd
  BY <1>24, FunctionEndKeepsCode
<1>25. CASE Finish
  BY <1>25, FinishKeepsCode
<1>26. CASE Unexpected
  BY <1>26, UnexpectedKeepsCode
<1>27. CASE Stopped \/ UNCHANGED vars
  BY <1>27, StutterKeepsCode DEF Stopped
<1>28. QED
  BY <1>2, <1>3, <1>4, <1>5, <1>6, <1>7, <1>8, <1>9, <1>10, <1>11, <1>12, <1>13, <1>14,
     <1>15, <1>16, <1>17, <1>18, <1>19, <1>20, <1>21, <1>22, <1>23, <1>24, <1>25, <1>26,
     <1>27 DEF Next, Step

-----------------------------------------------------------------------------
(* The ends of functions.                                                  *)

\* The functions whose definition is open, apart from function 0.
OpenIn(c) == {FunctionOf(c[i]) : i \in DOMAIN c}

\* The definition of function f - 1 has ended, function 0's with the program.
Ended(f) == /\ f = 1 => status = "compiled"
            /\ f - 1 \notin OpenIn(ctx)

\* No jump of such a function lands behind its last instruction.
EndsInv == \A f \in DOMAIN t_code : Ended(f) => Len(t_code[f]) \notin t_jumps[f]

\* No code or jump table changes but the current function's.
Elsewhere ==
  /\ DOMAIN t_code' = DOMAIN t_code
  /\ \A f \in DOMAIN t_code :
       f # func_index + 1 => t_code'[f] = t_code[f] /\ t_jumps'[f] = t_jumps[f]

LEMMA OpenPushed ==
  ASSUME NEW d, NEW p, NEW g, Pushed(d, p, g)
  PROVE  OpenIn(d) = OpenIn(p) \cup {FunctionOf(g)}
<1>1. PICK n \in Nat : /\ DOMAIN p = 1..n /\ Len(p) = n
                       /\ DOMAIN d = 1..(n + 1) /\ Len(d) = n + 1
                       /\ \A i \in 1..n : d[i] = p[i]
                       /\ d[n + 1] = g
  BY DEF Pushed
<1>2. 1..(n + 1) = 1..n \cup {n + 1}
  OBVIOUS
<1>3. OpenIn(d) = {FunctionOf(d[i]) : i \in 1..n} \cup {FunctionOf(d[n + 1])}
  BY <1>1, <1>2 DEF OpenIn
<1>4. {FunctionOf(d[i]) : i \in 1..n} = OpenIn(p)
  BY <1>1 DEF OpenIn
<1>5. QED
  BY <1>1, <1>3, <1>4

\* The current function is open.
LEMMA CurrentOpen ==
  ASSUME NEW c \in Seq(Frames), NEW level, NEW func, NEW count, Nested(c, level, func, count)
  PROVE  func = 0 \/ func \in OpenIn(c)
<1>1. CASE c = <<>>
  BY <1>1 DEF Nested
<1>2. CASE c # <<>>
  <2>1. func = FunctionOf(c[Len(c)])
    BY <1>2 DEF Nested
  <2>2. Len(c) \in DOMAIN c
    BY <1>2, EmptySeq
  <2>3. QED
    BY <2>1, <2>2 DEF OpenIn
<1>3. QED
  BY <1>1, <1>2

LEMMA EndsKept ==
  ASSUME IInv', EndsInv, status' # "compiled", UNCHANGED func_index, Elsewhere,
         OpenIn(ctx) \subseteq OpenIn(ctx') \cup {func_index}
  PROVE  EndsInv'
<1>1. func_index' = 0 \/ func_index' \in OpenIn(ctx')
  BY NestedIsIInv, CurrentOpen DEF IInv, TypeOK
<1>2. DOMAIN t_code \subseteq Nat
  <2>1. DOMAIN t_code' \subseteq Nat
    BY DEF IInv, TypeOK
  <2>2. QED
    BY <2>1 DEF Elsewhere
<1>3. func_index \in Nat
  BY DEF IInv, TypeOK
<1>4. ASSUME NEW f \in DOMAIN t_code, f # 1, f - 1 \notin OpenIn(ctx')
      PROVE  Len(t_code'[f]) \notin t_jumps'[f]
  <2>1. f # func_index + 1
    <3>1. ASSUME f = func_index + 1 PROVE FALSE
      <4>1. f - 1 = func_index /\ func_index # 0
        BY <1>3, <1>4, <3>1
      <4>2. QED
        BY <1>1, <1>4, <4>1
    <3>2. QED
      BY <3>1
  <2>2. f - 1 # func_index
    BY <1>2, <1>3, <2>1
  <2>3. f - 1 \notin OpenIn(ctx)
    BY <1>4, <2>2
  <2>4. Len(t_code[f]) \notin t_jumps[f]
    BY <1>4, <2>3 DEF EndsInv, Ended
  <2>5. QED
    BY <2>1, <2>4 DEF Elsewhere
<1>5. QED
  BY <1>4 DEF EndsInv, Ended, Elsewhere

\* Where the actions write.
LEMMA WritesHere ==
  ASSUME TypeOK
  PROVE  /\ UNCHANGED <<t_code, t_jumps>> => Elsewhere
         /\ (\E bytes : Emit(bytes)) /\ UNCHANGED t_jumps => Elsewhere
         /\ Top.func = func_index /\ (\E b : SetBlock(b)) /\ (\E dests : AddJumps(dests))
              => Elsewhere
<1>1. DOMAIN t_jumps = DOMAIN t_code
  <2>1. t_code \in Seq(Seq(Nat)) /\ t_jumps \in Seq(SUBSET Nat) /\ Len(t_jumps) = Len(t_code)
    BY TablesOfTypeOK DEF TypeOK
  <2>2. DOMAIN t_code = 1..Len(t_code) /\ DOMAIN t_jumps = 1..Len(t_jumps)
    BY <2>1, LenProperties
  <2>3. QED
    BY <2>1, <2>2
<1>2. CASE UNCHANGED <<t_code, t_jumps>>
  BY <1>2 DEF Elsewhere
<1>3. ASSUME NEW bytes, Emit(bytes), UNCHANGED t_jumps PROVE Elsewhere
  BY <1>3 DEF Elsewhere, Emit
<1>4. ASSUME Top.func = func_index, NEW b, SetBlock(b), NEW dests, AddJumps(dests)
      PROVE  Elsewhere
  BY <1>1, <1>4 DEF Elsewhere, SetBlock, AddJumps
<1>5. QED
  BY <1>2, <1>3, <1>4

\* How the actions leave the open constructs.
LEMMA OpenAppended ==
  ASSUME TypeOK, NEW g \in Frames, Enter(g)
  PROVE  OpenIn(ctx) \subseteq OpenIn(ctx') \cup {func_index}
<1>1. Pushed(ctx', ctx, g)
  BY PushAppend DEF Enter, TypeOK
<1>2. QED
  BY <1>1, OpenPushed

LEMMA OpenTop ==
  ASSUME IInv, NEW kinds, In(kinds)
  PROVE  /\ ctx \in Seq(Frames)
         /\ ctx # <<>>
         /\ OpenIn(ctx) = OpenIn(Outer) \cup {func_index}
<1>1. ctx \in Seq(Frames) /\ ctx # <<>> /\ func_index = FunctionOf(Top)
  BY InnermostConstruct DEF IInv, TypeOK
<1>2. Pushed(ctx, Outer, Top)
  BY <1>1, PushTop DEF Outer, Top
<1>3. QED
  BY <1>1, <1>2, OpenPushed

LEMMA OpenReplaced ==
  ASSUME IInv, NEW kinds, In(kinds), NEW g \in Frames, NEW c, c = [ctx EXCEPT ![Len(ctx)] = g]
  PROVE  /\ c \in Seq(Frames)
         /\ OpenIn(ctx) \subseteq OpenIn(c) \cup {func_index}
<1>1. ctx \in Seq(Frames) /\ ctx # <<>> /\ OpenIn(ctx) = OpenIn(Outer) \cup {func_index}
  BY OpenTop
<1>2. Pushed(c, Outer, g)
  BY <1>1, PushOther DEF Outer
<1>3. c \in Seq(Frames)
  BY <1>1
<1>4. QED
  BY <1>1, <1>2, <1>3, OpenPushed

LEMMA OpenLeft ==
  ASSUME IInv, NEW kinds, In(kinds), Leave
  PROVE  OpenIn(ctx) \subseteq OpenIn(ctx') \cup {func_index}
<1>1. ctx' = Outer
  BY DEF Leave, Outer
<1>2. QED
  BY <1>1, OpenTop

LEMMA OpenBecome ==
  ASSUME IInv, NEW kinds, In(kinds), NEW kind \in Kinds, NEW start \in Nat, NEW body \in Nat,
         Become(kind, start, body)
  PROVE  OpenIn(ctx) \subseteq OpenIn(ctx') \cup {func_index}
<1>1. Top \in Frames
  BY InnermostConstruct
<1>2. NextPart(kind, start, body) \in Frames
  BY <1>1, NextPartFields
<1>3. QED
  BY <1>2, BecomeIs, OpenReplaced

\* What nearly all actions do: they write to the code of the current function, and
\* leave no other function than it.
StaysHere ==
  /\ status' # "compiled"
  /\ UNCHANGED func_index
  /\ Elsewhere
  /\ OpenIn(ctx) \subseteq OpenIn(ctx') \cup {func_index}

LEMMA FailStays ==
  ASSUME TypeOK, Fail
  PROVE  StaysHere
BY WritesHere DEF Fail, StaysHere

LEMMA PlainStays ==
  ASSUME TypeOK,
         \/ \E op \in LiteralOps : \E v \in Literals : CompileInteger(op, v)
         \/ \E op \in SimpleOps : CompileSimple(op)
         \/ \E n \in Names : CompileSymbol(n)
         \/ \E n \in VarNames : CompileAssignment(n)
         \/ \E n \in VarNames : CompileVar(n)
         \/ ReturnFromConditional
  PROVE  StaysHere
<1>1. /\ status' # "compiled"
      /\ UNCHANGED <<ctx, func_index, t_jumps>>
      /\ (\E bytes : Emit(bytes)) \/ UNCHANGED t_code
  BY DEF CompileInteger, CompileSimple, CompileSymbol, CompileAssignment, CompileVar,
         ReturnFromConditional, Reading
<1>2. QED
  BY <1>1, WritesHere DEF StaysHere

LEMMA OpenStays ==
  ASSUME TypeOK,
         \/ CompileIf
         \/ CompileWhile
         \/ CompileFor
         \/ \E n \in LoopNames : \E slots \in {1, 2} : CompileForVar(n, slots)
  PROVE  StaysHere
<1>1. /\ status' # "compiled"
      /\ UNCHANGED <<func_index, t_code, t_jumps>>
  BY DEF CompileIf, CompileWhile, CompileFor, CompileForVar, Reading
<1>2. \E g \in Frames : Enter(g)
  <2>1. CASE CompileIf
    <3>1. "if_cond" \in Kinds /\ 0 \in Nat
      BY DEF Kinds
    <3>2. QED
      BY <2>1, <3>1, FrameFields DEF CompileIf
  <2>2. CASE CompileWhile
    <3>1. "while_cond" \in Kinds /\ 0 \in Nat /\ Count \in Nat
      BY CountType DEF Kinds
    <3>2. QED
      BY <2>2, <3>1, FrameFields DEF CompileWhile
  <2>3. CASE CompileFor
    <3>1. NoName \in Names \cup {NoName} /\ 1 \in {1, 2}
      OBVIOUS
    <3>2. QED
      BY <2>3, <3>1, ForFrameFields DEF CompileFor
  <2>4. CASE \E n \in LoopNames : \E slots \in {1, 2} : CompileForVar(n, slots)
    <3>1. PICK n \in LoopNames, slots \in {1, 2} : CompileForVar(n, slots)
      BY <2>4
    <3>2. n \in Names \cup {NoName}
      BY DEF Names
    <3>3. QED
      BY <3>1, <3>2, ForFrameFields DEF CompileForVar
  <2>5. QED
    BY <2>1, <2>2, <2>3, <2>4
<1>3. QED
  BY <1>1, <1>2, WritesHere, OpenAppended DEF StaysHere

LEMMA NextPartStays ==
  ASSUME IInv, ConditionalThen \/ ConditionalElse \/ WhileDo \/ ForDo
  PROVE  StaysHere
<1>1. TypeOK /\ Count \in Nat /\ Count + 3 \in Nat
  BY CountType DEF IInv
<1>2. /\ status' # "compiled"
      /\ UNCHANGED <<func_index, t_jumps>>
      /\ \E bytes : Emit(bytes)
  BY DEF ConditionalThen, ConditionalElse, WhileDo, ForDo, Reading
<1>3. In({"if_cond", "then", "while_cond", "for_count"})
  BY DEF ConditionalThen, ConditionalElse, WhileDo, ForDo, In
<1>4. Top \in Frames /\ Top.start \in Nat
  BY <1>3, InnermostConstruct DEF Frames
<1>5. \E kind \in Kinds, start \in Nat, body \in Nat : Become(kind, start, body)
  BY <1>1, <1>4 DEF ConditionalThen, ConditionalElse, WhileDo, ForDo, Kinds
<1>6. OpenIn(ctx) \subseteq OpenIn(ctx') \cup {func_index}
  BY <1>3, <1>5, OpenBecome
<1>7. QED
  BY <1>1, <1>2, <1>6, WritesHere DEF StaysHere

LEMMA ElifStays ==
  ASSUME IInv, ConditionalElif
  PROVE  StaysHere
<1> DEFINE g == [Top EXCEPT !.kind = "elif", !.body = Count + 3]
           c == [ctx EXCEPT ![Len(ctx)] = g]
           inner == Frame("if_cond", 0, 0)
<1>1. /\ status' # "compiled"
      /\ UNCHANGED <<func_index, t_jumps>>
      /\ \E bytes : Emit(bytes)
      /\ In({"then"})
      /\ ctx' = Append(c, inner)
  BY DEF ConditionalElif, Reading, Top
<1>2. TypeOK /\ Count + 3 \in Nat
  BY CountType DEF IInv
<1>3. Top \in Frames
  BY <1>1, InnermostConstruct
<1>4. g \in Frames
  BY <1>2, <1>3 DEF Frames, Kinds
<1>5. inner \in Frames
  <2>1. "if_cond" \in Kinds /\ 0 \in Nat
    BY DEF Kinds
  <2>2. QED
    BY <1>2, <2>1, FrameFields
<1> HIDE DEF g, inner
<1>6. c \in Seq(Frames) /\ OpenIn(ctx) \subseteq OpenIn(c) \cup {func_index}
  BY <1>1, <1>4, OpenReplaced
<1> HIDE DEF c
<1>7. Pushed(ctx', c, inner)
  BY <1>1, <1>5, <1>6, PushAppend
<1>8. OpenIn(ctx) \subseteq OpenIn(ctx') \cup {func_index}
  BY <1>6, <1>7, OpenPushed
<1>9. QED
  BY <1>1, <1>2, <1>8, WritesHere DEF StaysHere

LEMMA ClosingStays ==
  ASSUME IInv, ConditionalEnd \/ ReturnToElif \/ WhileEnd \/ ForEnd
  PROVE  StaysHere
<1>1. TypeOK
  BY DEF IInv
<1>2. In({"then", "else", "elif", "while_body", "for_body"})
  BY DEF ConditionalEnd, ReturnToElif, WhileEnd, ForEnd, In
<1>3. Top \in Frames /\ Top.func = func_index
  BY <1>2, InnermostConstruct DEF FunctionOf
<1>4. \/ /\ status' # "compiled"
         /\ UNCHANGED func_index
         /\ \E b : SetBlock(b)
         /\ \E dests : AddJumps(dests)
         /\ Leave
      \/ /\ status' = "error"
         /\ UNCHANGED <<func_index, ctx, t_code, t_jumps>>
  BY Zenon DEF ConditionalEnd, ReturnToElif, WhileEnd, ForEnd, CloseConditional, Reading, Fail
<1>5. OpenIn(ctx) \subseteq OpenIn(ctx') \cup {func_index}
  BY <1>2, <1>4, OpenLeft
<1>6. QED
  BY <1>1, <1>3, <1>4, <1>5, WritesHere DEF StaysHere

\* A function begins: it is open, and the others are what they were.
LEMMA FunctionKeepsEnds ==
  ASSUME IInv, IInv', EndsInv, NEW n \in FuncNames, NEW sig \in Signatures,
         CompileFunction(n, sig)
  PROVE  EndsInv'
<1> DEFINE count == Len(t_code)
           g == Frame("func", 0, count)
           empty == {}
<1>1. /\ status' = "compiling"
      /\ t_code' = Append(t_code, <<>>)
      /\ t_jumps' = Append(t_jumps, empty)
      /\ func_index' = count
      /\ ctx' = Append(ctx, g)
  BY DEF CompileFunction, Reading, Enter
<1>2. /\ TypeOK
      /\ ctx \in Seq(Frames)
      /\ t_code \in Seq(Seq(Nat)) /\ t_jumps \in Seq(SUBSET Nat)
      /\ count \in Nat /\ Len(t_jumps) = count
      /\ empty \in SUBSET Nat
  BY TablesOfTypeOK DEF IInv, TypeOK
<1>3. g \in Frames
  <2>1. "func" \in Kinds /\ 0 \in Nat
    BY DEF Kinds
  <2>2. QED
    BY <1>2, <2>1, FrameFields
<1> HIDE DEF g, empty
<1>4. OpenIn(ctx) \subseteq OpenIn(ctx')
  <2>1. Pushed(ctx', ctx, g)
    BY <1>1, <1>2, <1>3, PushAppend
  <2>2. QED
    BY <2>1, OpenPushed
<1>5. /\ DOMAIN t_code = 1..count
      /\ DOMAIN t_code' = 1..(count + 1)
      /\ \A f \in 1..count : t_code'[f] = t_code[f]
  <2>1. Len(t_code') = count + 1 /\ t_code' \in Seq(Seq(Nat))
    BY <1>1, <1>2, AppendProperties
  <2>2. \A f \in 1..count : t_code'[f] = t_code[f]
    BY <1>1, <1>2, AppendProperties
  <2>3. DOMAIN t_code = 1..count /\ DOMAIN t_code' = 1..Len(t_code')
    BY <1>2, <2>1, LenProperties
  <2>4. QED
    BY <2>1, <2>2, <2>3
<1>6. \A f \in 1..count : t_jumps'[f] = t_jumps[f]
  <2>1. t_jumps \in Seq(SUBSET Nat)
    BY <1>2
  <2>2. \A f \in 1..Len(t_jumps) : t_jumps'[f] = t_jumps[f]
    BY <1>1, <1>2, <2>1, AppendProperties
  <2>3. QED
    BY <1>2, <2>2
<1>7. count = 0 \/ count \in OpenIn(ctx')
  BY <1>1, NestedIsIInv, CurrentOpen DEF IInv, TypeOK
<1> HIDE DEF count
<1>8. ASSUME NEW f \in DOMAIN t_code', f # 1, f - 1 \notin OpenIn(ctx')
      PROVE  Len(t_code'[f]) \notin t_jumps'[f]
  <2>1. f \in 1..count
    BY <1>2, <1>5, <1>7, <1>8
  <2>2. f - 1 \notin OpenIn(ctx)
    BY <1>4, <1>8
  <2>3. Len(t_code[f]) \notin t_jumps[f]
    BY <1>5, <1>8, <2>1, <2>2 DEF EndsInv, Ended
  <2>4. QED
    BY <1>5, <1>6, <2>1, <2>3
<1>9. QED
  BY <1>1, <1>8 DEF EndsInv, Ended

\* No jump of a function lands after a RET that has just been appended.
LEMMA PastRet ==
  ASSUME IInv, CodeInv, NEW longer, longer = Block \o <<T_OP_RET>>
  PROVE  Len(longer) \notin Here
<1>1. /\ Block \in Seq(Nat)
      /\ BlockOK(Block, Working, Here)
  BY Current
<1>2. /\ Len(Block) \in Nat
      /\ Coded(Block, OwedIn(Working), LabelsIn(Working), Here)
  BY <1>1, OKFacts
<1>3. Places(Block) \subseteq 0..Len(Block)
  BY <1>2, CodedFacts
<1>4. Here \subseteq Places(Block)
  <2>1. \A j \in TJumps(Block) \ OwedIn(Working) : JumpDest(Block, j) \in Places(Block)
    BY <1>2 DEF Coded, Linked
  <2>2. QED
    BY <1>2, <2>1 DEF Coded
<1>5. Len(longer) = Len(Block) + 1
  <2>1. <<T_OP_RET>> \in Seq(Nat) /\ Len(<<T_OP_RET>>) = 1
    BY OpcodeTypes
  <2>2. QED
    BY <1>1, <2>1, ConcatProperties
<1>6. QED
  BY <1>2, <1>3, <1>4, <1>5

\* A function ends: nothing runs past its last instruction.
LEMMA FunctionEndKeepsEnds ==
  ASSUME "no_final_ret" \notin Oddities, IInv, CodeInv, EndsInv, FunctionEnd
  PROVE  EndsInv'
<1> DEFINE bytes == IF NeedsRet THEN <<T_OP_RET>> ELSE <<>>
<1>1. /\ status' = "compiling" /\ UNCHANGED t_jumps
      /\ In({"func"})
      /\ ~NeedsRet => ~RunsOffEnd
      /\ Emit(bytes)
      /\ Leave
  BY DEF FunctionEnd, Reading
<1>2. TypeOK /\ Block \in Seq(Nat)
  BY Current
<1>3. Len(t_code'[func_index + 1]) \notin t_jumps'[func_index + 1]
  <2>1. t_code'[func_index + 1] = Block \o bytes
    <3>1. bytes \in Seq(Nat)
      <4>1. <<T_OP_RET>> \in Seq(Nat)
        BY OpcodeTypes
      <4>2. <<>> \in Seq(Nat)
        OBVIOUS
      <4>3. QED
        BY <4>1, <4>2
    <3>2. QED
      BY <1>1, <1>2, <3>1, EmitWrites DEF Wrote
  <2>2. t_jumps'[func_index + 1] = Here
    BY <1>1 DEF Here
  <2>3. CASE NeedsRet
    BY <2>1, <2>2, <2>3, PastRet
  <2>4. CASE ~NeedsRet
    <3>1. Block \o <<>> = Block
      BY <1>2, ConcatEmptySeq
    <3>2. Count \notin Here
      BY <1>1, <2>4 DEF RunsOffEnd, Here
    <3>3. QED
      BY <2>1, <2>2, <2>4, <3>1, <3>2 DEF Count
  <2>5. QED
    BY <2>3, <2>4
<1>4. Elsewhere
  BY <1>1, <1>2, WritesHere
<1>5. OpenIn(ctx) \subseteq OpenIn(ctx') \cup {func_index}
  BY <1>1, OpenLeft
<1>6. DOMAIN t_code \subseteq Nat /\ func_index \in Nat
  BY <1>2 DEF TypeOK
<1>7. ASSUME NEW f \in DOMAIN t_code, f # 1, f - 1 \notin OpenIn(ctx')
      PROVE  Len(t_code'[f]) \notin t_jumps'[f]
  <2>1. CASE f = func_index + 1
    BY <1>3, <2>1
  <2>2. CASE f # func_index + 1
    <3>1. f - 1 # func_index
      BY <1>6, <2>2
    <3>2. Len(t_code[f]) \notin t_jumps[f]
      BY <1>5, <1>7, <3>1 DEF EndsInv, Ended
    <3>3. QED
      BY <1>4, <2>2, <3>2 DEF Elsewhere
  <2>3. QED
    BY <2>1, <2>2
<1>8. QED
  BY <1>1, <1>4, <1>7 DEF EndsInv, Ended, Elsewhere

\* Function 0 ends with the program.
LEMMA FinishKeepsEnds ==
  ASSUME IInv, CodeInv, EndsInv, Finish
  PROVE  EndsInv'
<1>1. /\ ctx = <<>> /\ UNCHANGED <<ctx, t_jumps>>
      /\ Emit(<<T_OP_RET>>)
  BY DEF Finish
<1>2. TypeOK
  BY DEF IInv
<1>3. func_index = 0
  BY <1>1 DEF IInv, FunctionsNest
<1>4. Len(t_code'[1]) \notin t_jumps'[1]
  <2>1. <<T_OP_RET>> \in Seq(Nat)
    BY OpcodeTypes
  <2>2. t_code'[func_index + 1] = Block \o <<T_OP_RET>>
    BY <1>1, <1>2, <2>1, EmitWrites DEF Wrote
  <2>3. t_jumps'[func_index + 1] = Here
    BY <1>1 DEF Here
  <2>4. func_index + 1 = 1
    BY <1>3
  <2>5. QED
    BY <2>2, <2>3, <2>4, PastRet
<1>5. Elsewhere
  BY <1>1, <1>2, WritesHere
<1>6. ASSUME NEW f \in DOMAIN t_code, f # 1, f - 1 \notin OpenIn(ctx')
      PROVE  Len(t_code'[f]) \notin t_jumps'[f]
  <2>1. Len(t_code[f]) \notin t_jumps[f]
    BY <1>1, <1>6 DEF EndsInv, Ended
  <2>2. f # func_index + 1
    BY <1>3, <1>6
  <2>3. QED
    BY <1>5, <2>1, <2>2 DEF Elsewhere
<1>7. QED
  BY <1>4, <1>5, <1>6 DEF EndsInv, Ended, Elsewhere

LEMMA InitHasEnds ==
  ASSUME Init
  PROVE  EndsInv
BY DEF Init, EndsInv, Ended

LEMMA NextKeepsEnds ==
  ASSUME "no_final_ret" \notin Oddities, IInv, CodeInv, EndsInv, [Next]_vars
  PROVE  EndsInv'
<1>1. TypeOK /\ IInv'
  BY NextKeeps DEF IInv
<1>2. CASE StaysHere
  BY <1>1, <1>2, EndsKept DEF StaysHere
<1>3. CASE \/ \E op \in LiteralOps : \E v \in Literals : CompileInteger(op, v)
           \/ \E op \in SimpleOps : CompileSimple(op)
           \/ \E n \in Names : CompileSymbol(n)
           \/ \E n \in VarNames : CompileAssignment(n)
           \/ \E n \in VarNames : CompileVar(n)
           \/ ReturnFromConditional
  BY <1>1, <1>2, <1>3, PlainStays
<1>4. CASE \/ CompileIf
           \/ CompileWhile
           \/ CompileFor
           \/ \E n \in LoopNames : \E slots \in {1, 2} : CompileForVar(n, slots)
  BY <1>1, <1>2, <1>4, OpenStays
<1>5. CASE ConditionalThen \/ ConditionalElse \/ WhileDo \/ ForDo
  BY <1>2, <1>5, NextPartStays
<1>6. CASE ConditionalElif
  BY <1>2, <1>6, ElifStays
<1>7. CASE ConditionalEnd \/ ReturnToElif \/ WhileEnd \/ ForEnd
  BY <1>2, <1>7, ClosingStays
<1>8. CASE \/ \E n \in Names : RefuseSymbol(n)
           \/ \E n \in VarNames : RefuseAssignment(n)
           \/ Unexpected
  BY <1>1, <1>2, <1>8, FailStays DEF RefuseSymbol, RefuseAssignment, Unexpected
<1>9. CASE \E n \in FuncNames : \E sig \in Signatures : CompileFunction(n, sig)
  BY <1>1, <1>9, FunctionKeepsEnds
<1>10. CASE FunctionEnd
  BY <1>10, FunctionEndKeepsEnds
<1>11. CASE Finish
  BY <1>11, FinishKeepsEnds
<1>12. CASE Stopped \/ UNCHANGED vars
  BY <1>12 DEF Stopped, vars, EndsInv, Ended
<1>13. QED
  BY <1>3, <1>4, <1>5, <1>6, <1>7, <1>8, <1>9, <1>10, <1>11, <1>12 DEF Next, Step

-----------------------------------------------------------------------------
(* The instructions that are emitted.                                      *)

\* The instructions of all functions are known, and so are the functions that have
\* a name.
KnownInv ==
  /\ \A f \in 1..Len(t_code) : Known(t_code[f], Len(t_code))
  /\ \A name \in Names : symbols[name].kind = "func" => symbols[name].arg < Len(t_code)

LEMMA KnownMore ==
  ASSUME NEW block, NEW n \in Nat, Known(block, n)
  PROVE  Known(block, n + 1)
BY DEF Known, KnownAt

LEMMA KnownAppend ==
  ASSUME NEW block, NEW n, Known(block, n), NEW bytes \in Seq(Nat),
         Len(bytes) = t_instruction_size(At(bytes, 0)), KnownAt(bytes, 0, n)
  PROVE  Known(block \o bytes, n)
<1> DEFINE longer == block \o bytes
<1>1. WholeBlock(block) /\ block \in Seq(Nat)
  BY DEF Known, WholeBlock
<1>2. /\ WholeBlock(longer)
      /\ TStarts(longer) = TStarts(block) \cup {Len(block)}
      /\ \A ip \in TStarts(block) : At(longer, ip) = At(block, ip)
      /\ At(longer, Len(block)) = At(bytes, 0)
  BY <1>1, AppendInstruction
<1>3. /\ \A i \in 0..(Len(block) - 1) : At(longer, i) = At(block, i)
      /\ \A i \in 0..(Len(bytes) - 1) : At(longer, Len(block) + i) = At(bytes, i)
  BY <1>1, AppendAt
<1> HIDE DEF longer
<1>4. ASSUME NEW ip \in TStarts(block) PROVE KnownAt(longer, ip, n)
  <2>1. KnownAt(block, ip, n) /\ At(longer, ip) = At(block, ip)
    BY <1>2 DEF Known
  <2>2. ASSUME At(block, ip) = T_OP_CALL8 PROVE At(longer, ip + 1) = At(block, ip + 1)
    <3>1. ip + 1 \in 0..(Len(block) - 1)
      BY <1>1, <2>2, CallFits
    <3>2. QED
      BY <1>3, <3>1
  <2>3. QED
    BY <2>1, <2>2 DEF KnownAt
<1>5. KnownAt(longer, Len(block), n)
  <2>1. ASSUME At(bytes, 0) = T_OP_CALL8 PROVE At(longer, Len(block) + 1) = At(bytes, 1)
    <3>1. Len(bytes) = 2
      BY <2>1 DEF t_instruction_size, is_t_jump, T_OP_CALL8, T_OP_PUSH8, T_OP_PUSH_INT8,
         T_OP_JUMP, T_OP_JUMP_COND, T_OP_JUMP_NCOND, T_OP_FOR_STARTS, T_OP_FOR_UPDATES,
         T_OP_FOR_DEC_START, T_OP_FOR_INC_START, T_OP_FOR_DEC, T_OP_FOR_INC,
         T_OP_GET_LOOP_VAR, T_OP_LOCAL_GET, T_OP_LOCAL_SET
    <3>2. 1 \in 0..(Len(bytes) - 1)
      BY <3>1
    <3>3. QED
      BY <1>3, <3>2
  <2>2. 0 + 1 = 1
    OBVIOUS
  <2>3. QED
    BY <1>2, <2>1, <2>2 DEF KnownAt
<1>6. QED
  BY <1>2, <1>4, <1>5 DEF Known, longer

LEMMA KnownPatched ==
  ASSUME NEW block, NEW n, Known(block, n), NEW b \in TJumps(block), NEW dest \in Int
  PROVE  /\ Known(PatchTo(block, b, dest), n)
         /\ TJumps(PatchTo(block, b, dest)) = TJumps(block)
<1> DEFINE v == dest - b - 1
           patched == overwrite_s16(block, b + 1, v)
<1>1. WholeBlock(block) /\ block \in Seq(Nat)
  BY DEF Known, WholeBlock
<1>2. /\ b \in TStarts(block) /\ b \in Nat /\ Len(block) \in Nat /\ b + 3 <= Len(block)
      /\ \A other \in TStarts(block) : other <= b \/ other >= b + 3
  BY <1>1, JumpFits
<1>3. v \in Int /\ b + 1 \in Nat /\ (b + 1) + 1 < Len(block)
  BY <1>2
<1>4. PatchTo(block, b, dest) = patched
  BY DEF PatchTo, Patched
<1> HIDE DEF v
<1>5. /\ WholeBlock(patched)
      /\ TStarts(patched) = TStarts(block)
      /\ TJumps(patched) = TJumps(block)
      /\ \A other \in TStarts(block) : At(patched, other) = At(block, other)
  BY <1>1, <1>3, PatchJump
<1>6. \A k \in 0..(Len(block) - 1) :
        k # b + 1 /\ k # b + 1 + 1 => At(patched, k) = At(block, k)
  BY <1>1, <1>3, OverwriteAt
<1> HIDE DEF patched
<1>7. ASSUME NEW ip \in TStarts(block) PROVE KnownAt(patched, ip, n)
  <2>1. KnownAt(block, ip, n) /\ At(patched, ip) = At(block, ip)
    BY <1>5 DEF Known
  <2>2. ASSUME At(block, ip) = T_OP_CALL8 PROVE At(patched, ip + 1) = At(block, ip + 1)
    <3>1. /\ ip \in Nat /\ ip + 1 \in 0..(Len(block) - 1)
          /\ b <= ip \/ b >= ip + 2
      BY <1>1, <1>2, <2>2, CallFits
    <3>2. ip <= b \/ ip >= b + 3
      BY <1>2
    <3>3. b # ip
      <4>1. is_t_jump(At(block, b))
        BY DEF TJumps
      <4>2. ~is_t_jump(T_OP_CALL8)
        BY DEF is_t_jump, T_OP_CALL8,
           T_OP_JUMP, T_OP_JUMP_COND, T_OP_JUMP_NCOND, T_OP_FOR_STARTS, T_OP_FOR_UPDATES,
           T_OP_FOR_DEC_START, T_OP_FOR_INC_START, T_OP_FOR_DEC, T_OP_FOR_INC
      <4>3. QED
        BY <2>2, <4>1, <4>2
    <3>4. ip + 1 # b + 1 /\ ip + 1 # b + 1 + 1
      BY <1>2, <3>1, <3>2, <3>3
    <3>5. QED
      BY <1>6, <3>1, <3>4
  <2>3. QED
    BY <2>1, <2>2 DEF KnownAt
<1>8. QED
  BY <1>4, <1>5, <1>7 DEF Known

LEMMA KnownLoop ==
  ASSUME NEW block, NEW n, Known(block, n), NEW op \in Nat, is_t_jump(op), NEW back \in Int,
         NEW b \in TJumps(block)
  PROVE  Known(LoopEnd(block, op, back, b), n)
<1> DEFINE v == back - Len(block) - 1
           bytes == <<op>> \o U16(v)
<1>1. WholeBlock(block) /\ block \in Seq(Nat) /\ Len(block) \in Nat
  BY LenProperties DEF Known, WholeBlock
<1>2. v \in Int
  BY <1>1
<1>3. LoopBack(block, op, back) = block \o bytes
  BY DEF LoopBack
<1> HIDE DEF v
<1>4. bytes \in Seq(Nat) /\ Len(bytes) = 3 /\ At(bytes, 0) = op
  BY <1>1, <1>2, EmittedOperand
<1> HIDE DEF bytes
<1>5. Len(bytes) = t_instruction_size(At(bytes, 0)) /\ KnownAt(bytes, 0, n)
  BY <1>4, JumpSize DEF KnownAt, is_t_jump, T_OP_CALL8, T_OP_NOP,
     T_OP_JUMP, T_OP_JUMP_COND, T_OP_JUMP_NCOND, T_OP_FOR_STARTS, T_OP_FOR_UPDATES,
     T_OP_FOR_DEC_START, T_OP_FOR_INC_START, T_OP_FOR_DEC, T_OP_FOR_INC
<1>6. Known(block \o bytes, n)
  BY <1>4, <1>5, KnownAppend
<1>7. b \in TJumps(block \o bytes)
  BY <1>1, <1>4, <1>5, AppendJumps
<1>8. Len(block) + 3 \in Int
  BY <1>1
<1>9. QED
  BY <1>3, <1>6, <1>7, <1>8, KnownPatched DEF LoopEnd

\* Steps that leave the code alone, and bind no name to a function.
LEMMA KnownStays ==
  ASSUME KnownInv, UNCHANGED t_code,
         \A name \in Names : symbols'[name] = symbols[name] \/ symbols'[name].kind # "func"
  PROVE  KnownInv'
BY DEF KnownInv

LEMMA KnownWritten ==
  ASSUME IInv, CodeInv, KnownInv, UNCHANGED symbols, NEW block,
         Wrote(t_code, t_code', func_index + 1, block), Known(block, Len(t_code))
  PROVE  KnownInv'
<1>1. /\ Len(t_code') = Len(t_code)
      /\ \A f \in 1..Len(t_code) : t_code'[f] = IF f = func_index + 1 THEN block ELSE t_code[f]
  BY DEF Wrote
<1>2. QED
  BY <1>1, Zenon DEF KnownInv

LEMMA KnownHere ==
  ASSUME IInv, CodeInv, KnownInv
  PROVE  Known(Block, Len(t_code)) /\ TypeOK
BY Current DEF KnownInv, Block

LEMMA KnownEmits ==
  ASSUME IInv, CodeInv, KnownInv, UNCHANGED symbols, NEW bytes \in Seq(Nat), Emit(bytes),
         Len(bytes) = t_instruction_size(At(bytes, 0)), KnownAt(bytes, 0, Len(t_code))
  PROVE  KnownInv'
<1>1. Wrote(t_code, t_code', func_index + 1, Block \o bytes)
  BY KnownHere, EmitWrites
<1>2. Known(Block \o bytes, Len(t_code))
  BY KnownHere, KnownAppend
<1>3. QED
  BY <1>1, <1>2, KnownWritten

\* A placeholder jump.
LEMMA KnownOwes ==
  ASSUME IInv, CodeInv, KnownInv, UNCHANGED symbols,
         NEW op \in {T_OP_JUMP, T_OP_JUMP_NCOND, T_OP_FOR_DEC_START, T_OP_FOR_INC_START},
         Emit(<<op>> \o U16(0))
  PROVE  KnownInv'
<1> DEFINE bytes == <<op>> \o U16(0)
<1>1. op \in Nat /\ is_t_jump(op)
  BY JumpOps
<1>2. op # T_OP_NOP /\ op # T_OP_CALL8
  BY DEF T_OP_JUMP, T_OP_JUMP_NCOND, T_OP_FOR_DEC_START, T_OP_FOR_INC_START, T_OP_NOP, T_OP_CALL8
<1>3. Emit(bytes)
  OBVIOUS
<1>4. bytes \in Seq(Nat) /\ Len(bytes) = 3 /\ At(bytes, 0) = op
  <2>1. op \in Nat /\ 0 \in Int /\ <<>> \in Seq(Nat)
    BY <1>1
  <2> HIDE DEF bytes
  <2>2. QED
    BY <2>1, EmittedOperand DEF bytes
<1> HIDE DEF bytes
<1>5. Len(bytes) = t_instruction_size(At(bytes, 0))
  BY <1>1, <1>4, JumpSize
<1>6. KnownAt(bytes, 0, Len(t_code))
  BY <1>2, <1>4 DEF KnownAt
<1>7. QED
  BY <1>3, <1>4, <1>5, <1>6, KnownEmits

LEMMA LiteralKnown ==
  ASSUME IInv, CodeInv, KnownInv, NEW op \in LiteralOps, NEW v \in Literals, CompileInteger(op, v)
  PROVE  KnownInv'
<1>1. op \in {T_OP_PUSH8, T_OP_PUSH_INT8} /\ v \in Nat
  BY CompilerAssumption, ByteBaseAssumption
<1>2. <<op, v>> \in Seq(Nat) /\ Len(<<op, v>>) = 2 /\ At(<<op, v>>, 0) = op
  BY <1>1 DEF At, T_OP_PUSH8, T_OP_PUSH_INT8
<1>3. t_instruction_size(op) = 2
  BY <1>1 DEF is_t_jump, t_instruction_size, T_OP_PUSH8, T_OP_PUSH_INT8, T_OP_JUMP, T_OP_JUMP_COND,
              T_OP_JUMP_NCOND, T_OP_FOR_STARTS, T_OP_FOR_UPDATES, T_OP_FOR_DEC_START,
              T_OP_FOR_INC_START, T_OP_FOR_DEC, T_OP_FOR_INC, T_OP_GET_LOOP_VAR,
              T_OP_LOCAL_GET, T_OP_LOCAL_SET
<1>4. KnownAt(<<op, v>>, 0, Len(t_code))
  BY <1>1, <1>2 DEF KnownAt, T_OP_NOP, T_OP_CALL8, T_OP_PUSH8, T_OP_PUSH_INT8
<1>5. UNCHANGED symbols /\ Emit(<<op, v>>)
  BY DEF CompileInteger
<1>6. QED
  BY <1>2, <1>3, <1>4, <1>5, KnownEmits

LEMMA OneByteKnown ==
  ASSUME IInv, CodeInv, KnownInv, UNCHANGED symbols,
         NEW op \in {T_OP_POP, T_OP_DUPE, T_OP_EXIT, T_OP_RET}, Emit(<<op>>)
  PROVE  KnownInv'
<1>1. /\ <<op>> \in Seq(Nat)
      /\ Len(<<op>>) = t_instruction_size(At(<<op>>, 0))
      /\ At(<<op>>, 0) = op
  BY SimpleSize
<1>2. KnownAt(<<op>>, 0, Len(t_code))
  BY <1>1 DEF KnownAt, T_OP_NOP, T_OP_CALL8, T_OP_POP, T_OP_DUPE, T_OP_EXIT, T_OP_RET
<1>3. QED
  BY <1>1, <1>2, KnownEmits

LEMMA OperandKnown ==
  ASSUME IInv, CodeInv, KnownInv, UNCHANGED symbols,
         NEW op \in {T_OP_GET_LOOP_VAR, T_OP_LOCAL_GET, T_OP_LOCAL_SET}, NEW v \in Int,
         Emit(<<op>> \o U16(v))
  PROVE  KnownInv'
<1> DEFINE bytes == <<op>> \o U16(v)
<1>1. /\ bytes \in Seq(Nat)
      /\ Len(bytes) = t_instruction_size(At(bytes, 0))
      /\ At(bytes, 0) = op
      /\ Emit(bytes)
  BY OperandSize
<1> HIDE DEF bytes
<1>2. KnownAt(bytes, 0, Len(t_code))
  BY <1>1 DEF KnownAt, T_OP_NOP, T_OP_CALL8, T_OP_GET_LOOP_VAR, T_OP_LOCAL_GET, T_OP_LOCAL_SET
<1>3. QED
  BY <1>1, <1>2, KnownEmits

LEMMA SymbolKnown ==
  ASSUME IInv, CodeInv, KnownInv, NEW n \in Names, CompileSymbol(n)
  PROVE  KnownInv'
<1> DEFINE s == symbols[n]
<1>1. /\ s.arg \in Nat
      /\ for_loop_level \in Nat
      /\ s.kind \in {"loop_var", "func", "var"}
      /\ s.kind = "func" => s.arg < Len(t_code)
  BY DEF IInv, TypeOK, CompileSymbol, SymbolRefused, Symbols, KnownInv
<1>2. UNCHANGED symbols /\ Emit(SymbolCode(s))
  BY DEF CompileSymbol
<1> HIDE DEF s
<1>3. CASE s.kind = "loop_var"
  <2> DEFINE v == for_loop_level - s.arg
  <2>1. v \in Int
    BY <1>1
  <2>2. Emit(<<T_OP_GET_LOOP_VAR>> \o U16(v))
    BY <1>2, <1>3 DEF SymbolCode
  <2> HIDE DEF v
  <2>3. QED
    BY <1>2, <2>1, <2>2, OperandKnown
<1>4. CASE s.kind = "var"
  <2>1. Emit(<<T_OP_LOCAL_GET>> \o U16(s.arg)) /\ s.arg \in Int
    BY <1>1, <1>2, <1>4 DEF SymbolCode
  <2>2. QED
    BY <1>2, <2>1, OperandKnown
<1>5. CASE s.kind = "func"
  <2> DEFINE bytes == <<T_OP_CALL8, s.arg>>
  <2>1. Emit(bytes)
    BY <1>2, <1>5 DEF SymbolCode
  <2>2. t_instruction_size(T_OP_CALL8) = 2 /\ T_OP_CALL8 \in Nat /\ T_OP_CALL8 # T_OP_NOP
    BY DEF is_t_jump, t_instruction_size, T_OP_CALL8, T_OP_PUSH8, T_OP_PUSH_INT8, T_OP_JUMP,
           T_OP_JUMP_COND, T_OP_JUMP_NCOND, T_OP_FOR_STARTS, T_OP_FOR_UPDATES,
           T_OP_FOR_DEC_START, T_OP_FOR_INC_START, T_OP_FOR_DEC, T_OP_FOR_INC,
           T_OP_GET_LOOP_VAR, T_OP_LOCAL_GET, T_OP_LOCAL_SET, T_OP_NOP
  <2>3. /\ bytes \in Seq(Nat) /\ Len(bytes) = 2
        /\ At(bytes, 0) = T_OP_CALL8 /\ At(bytes, 0 + 1) = s.arg
    BY <1>1, <2>2 DEF At
  <2> HIDE DEF bytes
  <2>4. KnownAt(bytes, 0, Len(t_code))
    BY <1>1, <1>5, <2>2, <2>3 DEF KnownAt
  <2>5. QED
    BY <1>2, <2>1, <2>2, <2>3, <2>4, KnownEmits
<1>6. QED
  BY <1>1, <1>3, <1>4, <1>5

\* A block is closed by patching jumps that the innermost construct owes.
LEMMA PatchesKnown ==
  ASSUME IInv, CodeInv, KnownInv, In({"then", "else", "elif"}), NEW else_start \in Int,
         NEW end \in Int,
         else_start # end => Top.kind # "then" /\ else_start = Top.body,
         CloseConditional(Top.start, else_start, end)
  PROVE  KnownInv'
<1>1. /\ Top.kind \in {"then", "else", "elif"}
      /\ BlockOK(Block, Around \cup {Top}, Here)
  <2>1. "func" \notin {"then", "else", "elif"}
    OBVIOUS
  <2>2. QED
    BY <2>1, Innermost
<1>2. Owed(Top) \subseteq TJumps(Block)
  BY <1>1, OKFacts
<1>3. /\ Top.start \in TJumps(Block)
      /\ else_start # end => else_start - 3 \in TJumps(Block)
  BY <1>1, <1>2 DEF Owed
<1> DEFINE once  == PatchTo(Block, Top.start, else_start)
           twice == PatchTo(once, else_start - 3, end)
<1>4. Known(once, Len(t_code)) /\ TJumps(once) = TJumps(Block)
  BY <1>3, KnownHere, KnownPatched
<1> HIDE DEF once
<1>5. else_start # end => Known(twice, Len(t_code))
  BY <1>3, <1>4, KnownPatched
<1>6. \/ SetBlock(once)
      \/ else_start # end /\ SetBlock(twice)
      \/ UNCHANGED t_code
  BY DEF CloseConditional, once, PatchTo
<1>7. UNCHANGED symbols
  BY DEF CloseConditional
<1> HIDE DEF twice
<1>8. ASSUME NEW block, Known(block, Len(t_code)), SetBlock(block) PROVE KnownInv'
  <2>1. block \in Seq(Nat)
    BY <1>8 DEF Known, WholeBlock
  <2>2. Wrote(t_code, t_code', func_index + 1, block)
    BY <1>8, <2>1, KnownHere, SetWrites
  <2>3. QED
    BY <1>7, <1>8, <2>2, KnownWritten
<1>9. CASE UNCHANGED t_code
  BY <1>7, <1>9, KnownStays
<1>10. QED
  BY <1>4, <1>5, <1>6, <1>8, <1>9

LEMMA ClosingKnown ==
  ASSUME IInv, CodeInv, KnownInv, ConditionalEnd \/ ReturnToElif
  PROVE  KnownInv'
<1>1. In({"then", "else", "elif"})
  BY DEF ConditionalEnd, ReturnToElif, In
<1>2. Top \in Frames /\ Top.body \in Nat /\ Count \in Nat /\ end_addr \in Nat
  <2>1. "func" \notin {"then", "else", "elif"}
    OBVIOUS
  <2>2. QED
    BY <1>1, <2>1, Innermost, Current DEF Frames, TypeOK
<1>3. CASE ConditionalEnd
  <2> DEFINE else_start == IF Top.kind = "then" THEN Count ELSE Top.body
  <2>1. CloseConditional(Top.start, else_start, Count)
    BY <1>3 DEF ConditionalEnd
  <2>2. /\ else_start \in Int /\ Count \in Int
        /\ else_start # Count => Top.kind # "then" /\ else_start = Top.body
    BY <1>2
  <2> HIDE DEF else_start
  <2>3. QED
    BY <1>1, <2>1, <2>2, PatchesKnown
<1>4. CASE ReturnToElif
  <2>1. CloseConditional(Top.start, Top.body, end_addr) /\ Top.kind # "then"
    BY <1>4 DEF ReturnToElif, In
  <2>2. QED
    BY <1>1, <1>2, <2>1, PatchesKnown
<1>5. QED
  BY <1>3, <1>4

LEMMA LoopKnown ==
  ASSUME IInv, CodeInv, KnownInv, WhileEnd \/ ForEnd
  PROVE  KnownInv'
<1> DEFINE op   == IF WhileEnd THEN T_OP_JUMP
                   ELSE IF Top.slots = 1 THEN T_OP_FOR_DEC ELSE T_OP_FOR_INC
           back == IF WhileEnd THEN Top.start ELSE Top.body
           b    == IF WhileEnd THEN Top.body ELSE Top.start
           looped == Looped(Block, op, back)
<1>1. In({"while_body", "for_body"}) /\ (WhileEnd => Top.kind = "while_body")
      /\ (~WhileEnd => Top.kind = "for_body")
  BY DEF WhileEnd, ForEnd, In
<1>2. /\ Top \in Frames
      /\ BlockOK(Block, Around \cup {Top}, Here)
  <2>1. "func" \notin {"while_body", "for_body"}
    OBVIOUS
  <2>2. QED
    BY <1>1, <2>1, Innermost
<1>3. b \in Nat /\ back \in Nat
  BY <1>2 DEF Frames
<1>4. b \in TJumps(Block)
  <2>1. Owed(Top) \subseteq TJumps(Block)
    BY <1>2, OKFacts
  <2>2. b \in Owed(Top)
    BY <1>1 DEF Owed
  <2>3. QED
    BY <2>1, <2>2
<1>5. op \in Nat /\ is_t_jump(op)
  BY DEF is_t_jump, T_OP_JUMP, T_OP_FOR_STARTS, T_OP_FOR_UPDATES, T_OP_FOR_DEC, T_OP_FOR_INC
<1>6. UNCHANGED symbols
  BY DEF WhileEnd, ForEnd, Fail
<1>7. SetBlock(Patched(looped, b, Len(looped) - b - 1)) \/ UNCHANGED t_code
  BY DEF WhileEnd, ForEnd, Looped, Fail, Count
<1> HIDE DEF op, back, b
<1>8. /\ looped = LoopBack(Block, op, back)
      /\ Len(looped) = Len(Block) + 3
  BY <1>3, <1>5, Current, LoopWritten, LoopedLength
<1>9. Known(LoopEnd(Block, op, back, b), Len(t_code))
  <2>1. back \in Int
    BY <1>3
  <2>2. QED
    BY <1>4, <1>5, <2>1, KnownHere, KnownLoop
<1> HIDE DEF looped
<1>10. CASE SetBlock(Patched(looped, b, Len(looped) - b - 1))
  <2> DEFINE closed == LoopEnd(Block, op, back, b)
  <2>1. SetBlock(closed)
    BY <1>8, <1>10 DEF LoopEnd, PatchTo
  <2>2. closed \in Seq(Nat)
    BY <1>9 DEF Known, WholeBlock
  <2> HIDE DEF closed
  <2>3. Wrote(t_code, t_code', func_index + 1, closed)
    BY <2>1, <2>2, KnownHere, SetWrites
  <2>4. QED
    BY <1>6, <1>9, <2>3, KnownWritten DEF closed
<1>11. CASE UNCHANGED t_code
  BY <1>6, <1>11, KnownStays
<1>12. QED
  BY <1>7, <1>10, <1>11

LEMMA FunctionKnown ==
  ASSUME IInv, KnownInv, NEW n \in FuncNames, NEW sig \in Signatures, CompileFunction(n, sig)
  PROVE  KnownInv'
<1> DEFINE count == Len(t_code)
<1>1. /\ t_code' = Append(t_code, <<>>)
      /\ symbols' = [symbols EXCEPT ![n] = Symbol("func", count, 0)]
  BY DEF CompileFunction
<1>2. t_code \in Seq(Seq(Nat)) /\ count \in Nat
  BY TablesOfTypeOK DEF IInv, TypeOK
<1>3. /\ Len(t_code') = count + 1
      /\ \A f \in 1..count : t_code'[f] = t_code[f]
      /\ t_code'[count + 1] = <<>>
  <2>1. <<>> \in Seq(Nat)
    OBVIOUS
  <2>2. QED
    BY <1>1, <1>2, <2>1, AppendProperties
<1>4. /\ \A f \in 1..count : Known(t_code[f], count)
      /\ \A name \in Names : symbols[name].kind = "func" => symbols[name].arg < count
  BY DEF KnownInv
<1>5. symbols \in [Names -> Symbols]
  BY DEF IInv, TypeOK
<1>6. Known(<<>>, count + 1)
  BY EmptyWhole DEF Known
<1> HIDE DEF count
<1>7. \A f \in 1..count : Known(t_code'[f], count + 1)
  BY <1>2, <1>3, <1>4, KnownMore
<1>8. \A f \in 1..(count + 1) : Known(t_code'[f], count + 1)
  <2>1. \A f \in 1..(count + 1) : f \in 1..count \/ f = count + 1
    BY <1>2
  <2>2. QED
    BY <1>3, <1>6, <1>7, <2>1
<1>9. ASSUME NEW name \in Names, symbols'[name].kind = "func"
      PROVE  symbols'[name].arg < count + 1
  <2>1. CASE symbols'[name] = symbols[name]
    <3>1. symbols[name].arg \in Nat
      BY <1>5 DEF Symbols
    <3>2. QED
      BY <1>2, <1>4, <1>9, <2>1, <3>1
  <2>2. CASE symbols'[name] # symbols[name]
    <3>1. symbols'[name] = Symbol("func", count, 0)
      BY <1>1, <1>5, <2>2
    <3>2. QED
      BY <1>2, <3>1 DEF Symbol
  <2>3. QED
    BY <2>1, <2>2
<1>10. QED
  BY <1>3, <1>8, <1>9 DEF KnownInv

LEMMA NextKeepsKnown ==
  ASSUME IInv, CodeInv, KnownInv, [Next]_vars
  PROVE  KnownInv'
<1>1. ASSUME UNCHANGED <<t_code, symbols>> PROVE KnownInv'
  BY <1>1, KnownStays
<1>2. CASE \/ \E op \in LiteralOps : \E v \in Literals : CompileInteger(op, v)
           \/ \E n \in Names : CompileSymbol(n)
  BY <1>2, LiteralKnown, SymbolKnown
<1>3. CASE \E op \in SimpleOps : CompileSimple(op)
  BY <1>3, CompilerAssumption, OneByteKnown DEF CompileSimple
<1>4. CASE \E n \in VarNames : CompileAssignment(n)
  <2>1. PICK n \in VarNames : CompileAssignment(n)
    BY <1>4
  <2>2. symbols[n].arg \in Int
    BY DEF IInv, TypeOK, Symbols, Names
  <2>3. QED
    BY <2>1, <2>2, OperandKnown DEF CompileAssignment
<1>5. CASE \/ \E n \in VarNames : CompileVar(n)
           \/ \E n \in LoopNames : \E slots \in {1, 2} : CompileForVar(n, slots)
  <2>1. PICK n, s : /\ n \in Names /\ symbols' = [symbols EXCEPT ![n] = s]
                    /\ s.kind # "func" /\ UNCHANGED t_code
    <3>1. CASE \E n \in VarNames : CompileVar(n)
      <4>1. PICK n \in VarNames : CompileVar(n)
        BY <3>1
      <4> DEFINE s == Symbol("var", Len(locals[func_index + 1]), func_index)
      <4>2. s.kind # "func"
        BY DEF Symbol
      <4>3. n \in Names /\ symbols' = [symbols EXCEPT ![n] = s] /\ UNCHANGED t_code
        BY <4>1 DEF CompileVar, Names
      <4> HIDE DEF s
      <4>4. QED
        BY <4>2, <4>3
    <3>2. CASE \E n \in LoopNames : \E slots \in {1, 2} : CompileForVar(n, slots)
      <4>1. PICK n \in LoopNames, slots \in {1, 2} : CompileForVar(n, slots)
        BY <3>2
      <4> DEFINE s == Symbol("loop_var", for_loop_level + slots, 0)
      <4>2. s.kind # "func"
        BY DEF Symbol
      <4>3. n \in Names /\ symbols' = [symbols EXCEPT ![n] = s] /\ UNCHANGED t_code
        BY <4>1 DEF CompileForVar, Names
      <4> HIDE DEF s
      <4>4. QED
        BY <4>2, <4>3
    <3>3. QED
      BY <1>5, <3>1, <3>2
  <2>2. symbols \in [Names -> Symbols]
    BY DEF IInv, TypeOK
  <2>3. QED
    BY <2>1, <2>2, KnownStays
<1>6. CASE ConditionalThen \/ ConditionalElse \/ ConditionalElif \/ WhileDo \/ ForDo
  <2>1. UNCHANGED symbols
    BY <1>6 DEF ConditionalThen, ConditionalElse, ConditionalElif, WhileDo, ForDo
  <2>2. PICK op \in {T_OP_JUMP, T_OP_JUMP_NCOND, T_OP_FOR_DEC_START, T_OP_FOR_INC_START} :
          Emit(<<op>> \o U16(0))
    BY <1>6 DEF ConditionalThen, ConditionalElse, ConditionalElif, WhileDo, ForDo
  <2>3. QED
    BY <2>1, <2>2, KnownOwes
<1>7. CASE ConditionalEnd \/ ReturnToElif
  BY <1>7, ClosingKnown
<1>8. CASE WhileEnd \/ ForEnd
  BY <1>8, LoopKnown
<1>9. CASE \E n \in FuncNames : \E sig \in Signatures : CompileFunction(n, sig)
  BY <1>9, FunctionKnown
<1>10. CASE FunctionEnd
  <2>1. UNCHANGED symbols /\ Emit(IF NeedsRet THEN <<T_OP_RET>> ELSE <<>>)
    BY <1>10 DEF FunctionEnd
  <2>2. CASE NeedsRet
    BY <2>1, <2>2, OneByteKnown
  <2>3. CASE ~NeedsRet
    <3>1. Emit(<<>>) /\ <<>> \in Seq(Nat)
      BY <2>1, <2>3
    <3>2. Block \o <<>> = Block
      BY Current, ConcatEmptySeq
    <3>3. QED
      BY <2>1, <3>1, <3>2, KnownHere, EmitWrites, KnownWritten
  <2>4. QED
    BY <2>2, <2>3
<1>11. CASE Finish
  BY <1>11, OneByteKnown DEF Finish
<1>12. CASE \/ CompileIf \/ ReturnFromConditional \/ CompileWhile \/ CompileFor
            \/ \E n \in Names : RefuseSymbol(n)
            \/ \E n \in VarNames : RefuseAssignment(n)
            \/ Unexpected \/ Stopped \/ UNCHANGED vars
  BY <1>1, <1>12 DEF CompileIf, ReturnFromConditional, CompileWhile, CompileFor, RefuseSymbol,
                     RefuseAssignment, Unexpected, Stopped, vars, Fail
<1>13. QED
  BY <1>2, <1>3, <1>4, <1>5, <1>6, <1>7, <1>8, <1>9, <1>10, <1>11, <1>12 DEF Next, Step

LEMMA InitKnown ==
  ASSUME Init
  PROVE  KnownInv
<1>1. Len(t_code) = 1 /\ t_code[1] = <<>> /\ \A name \in Names : symbols[name].kind = "none"
  BY DEF Init, None
<1>2. Known(<<>>, 1)
  BY EmptyWhole DEF Known
<1>3. \A f \in 1..1 : f = 1
  OBVIOUS
<1>4. QED
  BY <1>1, <1>2, <1>3 DEF KnownInv

-----------------------------------------------------------------------------
(* Theorems.                                                               *)

LEMMA CodeInductive ==
  ASSUME {"empty_else", "long_while"} \cap Oddities = {}
  PROVE  Spec => [](IInv /\ CodeInv)
<1>1. Init => IInv /\ CodeInv
  BY InitKeeps, InitHasCode
<1>2. (IInv /\ CodeInv) /\ [Next]_vars => (IInv /\ CodeInv)'
  BY NextKeeps, NextKeepsCode
<1>3. QED
  BY <1>1, <1>2, PTL DEF Spec

LEMMA EndsInductive ==
  ASSUME {"empty_else", "long_while", "no_final_ret"} \cap Oddities = {}
  PROVE  Spec => [](IInv /\ CodeInv /\ EndsInv)
<1>1. Init => EndsInv
  BY InitHasEnds
<1>2. (IInv /\ CodeInv) /\ EndsInv /\ [Next]_vars => EndsInv'
  BY NextKeepsEnds
<1>3. Spec => [](IInv /\ CodeInv)
  BY CodeInductive
<1>4. QED
  BY <1>1, <1>2, <1>3, PTL DEF Spec

LEMMA KnownInductive ==
  ASSUME {"empty_else", "long_while", "no_final_ret"} \cap Oddities = {}
  PROVE  Spec => [](IInv /\ CodeInv /\ EndsInv /\ KnownInv)
<1>1. Init => KnownInv
  BY InitKnown
<1>2. (IInv /\ CodeInv /\ EndsInv) /\ KnownInv /\ [Next]_vars => KnownInv'
  BY NextKeepsKnown
<1>3. Spec => [](IInv /\ CodeInv /\ EndsInv)
  BY EndsInductive
<1>4. QED
  BY <1>1, <1>2, <1>3, PTL DEF Spec

LEMMA CodeInvOwes ==
  ASSUME IInv, CodeInv
  PROVE  PlaceholdersOwed
<1>1. ASSUME NEW f \in DOMAIN t_code
      PROVE  {ip \in TJumps(t_code[f]) : read_s16(t_code[f], ip + 1) = 0}
               = UNION {Owed(ctx[i]) : i \in {j \in DOMAIN ctx : ctx[j].func = f - 1}}
  <2>1. f \in 1..Len(t_code)
    BY DEF IInv, TypeOK
  <2>2. BlockOK(t_code[f], FramesOf(ctx, f - 1), t_jumps[f])
    BY <2>1 DEF CodeInv, CodeOK
  <2>3. {ip \in TJumps(t_code[f]) : read_s16(t_code[f], ip + 1) = 0}
          = OwedIn(FramesOf(ctx, f - 1))
    BY <2>2 DEF BlockOK, Coded
  <2>4. OwedIn(FramesOf(ctx, f - 1))
          = UNION {Owed(ctx[i]) : i \in {j \in DOMAIN ctx : ctx[j].func = f - 1}}
    BY DEF OwedIn, FramesOf
  <2>5. QED
    BY <2>3, <2>4
<1>2. QED
  BY <1>1 DEF PlaceholdersOwed

\* The blocks of a compiled program owe nothing.
LEMMA CompiledBlock ==
  ASSUME IInv, CodeInv, status = "compiled", NEW f \in DOMAIN t_code
  PROVE  Coded(t_code[f], {}, {}, t_jumps[f])
<1>1. f \in 1..Len(t_code)
  BY DEF IInv, TypeOK
<1>2. BlockOK(t_code[f], FramesOf(ctx, f - 1), t_jumps[f]) /\ ctx = <<>>
  BY <1>1 DEF CodeInv, CodeOK
<1>3. FramesOf(ctx, f - 1) = {}
  BY <1>2 DEF FramesOf
<1>4. OwedIn({}) = {} /\ LabelsIn({}) = {}
  BY DEF OwedIn, LabelsIn
<1>5. QED
  BY <1>2, <1>3, <1>4 DEF BlockOK

LEMMA CodeInvResolves ==
  ASSUME IInv, CodeInv, EndsInv
  PROVE  JumpsResolved
<1>1. ASSUME status = "compiled", NEW f \in DOMAIN t_code,
             NEW dests, dests = {JumpDest(t_code[f], ip) : ip \in TJumps(t_code[f])}
      PROVE  dests \subseteq TStarts(t_code[f]) /\ t_jumps[f] = dests
  <2>1. Coded(t_code[f], {}, {}, t_jumps[f])
    BY <1>1, CompiledBlock
  <2>2. t_jumps[f] = dests
    BY <1>1, <2>1 DEF Coded
  <2>3. dests \subseteq Places(t_code[f])
    BY <1>1, <2>1 DEF Coded, Linked
  <2>4. Len(t_code[f]) \notin t_jumps[f]
    <3>1. ctx = <<>>
      BY <1>1 DEF CodeInv
    <3>2. f - 1 \notin OpenIn(ctx)
      BY <3>1 DEF OpenIn
    <3>3. QED
      BY <1>1, <3>2 DEF EndsInv, Ended
  <2>5. QED
    BY <2>2, <2>3, <2>4 DEF Places
<1>2. QED
  BY <1>1 DEF JumpsResolved

\* What compile leaves to the type checker: the functions have T-code whose control
\* stays within it and goes into loops by their first instruction only, made of
\* instructions that the type checker tells apart.
Compiled ==
  status = "compiled" =>
    /\ t_code # <<>>
    /\ \A f \in DOMAIN t_code : Flows(t_code[f], t_jumps[f]) /\ Known(t_code[f], Len(t_code))

LEMMA CodeInvFlows ==
  ASSUME IInv, CodeInv, EndsInv, KnownInv
  PROVE  Compiled
<1>1. ASSUME status = "compiled", NEW f \in DOMAIN t_code
      PROVE  Flows(t_code[f], t_jumps[f]) /\ Known(t_code[f], Len(t_code))
  <2> DEFINE block == t_code[f]
             dests == t_jumps[f]
  <2>1. f \in 1..Len(t_code)
    BY DEF IInv, TypeOK
  <2>2. Known(block, Len(t_code))
    BY <2>1 DEF KnownInv
  <2>3. Coded(block, {}, {}, dests)
    BY <1>1, CompiledBlock
  <2>4. JumpsResolved
    BY CodeInvResolves
  <2>5. dests = {JumpDest(block, ip) : ip \in TJumps(block)} /\ dests \subseteq TStarts(block)
    BY <1>1, <2>4 DEF JumpsResolved
  <2> HIDE DEF block, dests
  <2>6. ASSUME NEW back \in TJumps(block), NEW ip \in TJumps(block),
               JumpDest(block, back) <= back, ip < JumpDest(block, back) \/ ip > back
        PROVE  JumpDest(block, ip) <= JumpDest(block, back) \/ JumpDest(block, ip) > back
    <3>1. BackClosed(block, TJumps(block), {}, {}, back)
      <4>1. TJumps(block) \ {} = TJumps(block)
        OBVIOUS
      <4>2. Linked(block, Places(block), Len(block), TJumps(block), {}, {})
        BY <2>3, <4>1 DEF Coded
      <4>3. QED
        BY <2>6, <4>2 DEF Linked
    <3>2. QED
      BY <2>6, <3>1 DEF BackClosed
  <2>7. Flows(block, dests)
    BY <2>3, <2>5, <2>6 DEF Flows, Coded
  <2>8. QED
    BY <2>2, <2>7 DEF block, dests
<1>2. t_code # <<>>
  BY DEF IInv, TypeOK
<1>3. QED
  BY <1>1, <1>2 DEF Compiled

LEMMA CodeInvCloses ==
  ASSUME IInv, CodeInv
  PROVE  LoopBodiesClosed
<1>1. ASSUME status = "compiled", NEW f \in DOMAIN t_code, NEW s \in TJumps(t_code[f]),
             At(t_code[f], s) \in T_OP_FOR_STARTS
      PROVE  LoopClosed(t_code[f], TJumps(t_code[f]), {}, {}, s)
  <2>1. Coded(t_code[f], {}, {}, t_jumps[f])
    BY <1>1, CompiledBlock
  <2>2. Linked(t_code[f], Places(t_code[f]), Len(t_code[f]), TJumps(t_code[f]), {}, {})
    BY <2>1 DEF Coded
  <2>3. QED
    BY <1>1, <2>2 DEF Linked
<1>2. QED
  BY <1>1 DEF LoopBodiesClosed, LoopClosed

\* At every moment of a compilation the jumps that hold the placeholder operand are
\* exactly those that open calls of compile_conditional, compile_loop and
\* compile_for_loop will patch, at whatever depth of nesting and in whichever
\* function.  The two shapes left out are those for which the code emits a jump of
\* its own that is wrong: an `else' with an empty body, whose jump is never patched,
\* and a `while' whose jump back does not fit its operand.
THEOREM PlaceholdersAlwaysOwed ==
  ASSUME {"empty_else", "long_while"} \cap Oddities = {}
  PROVE  Spec => []PlaceholdersOwed
<1>1. IInv /\ CodeInv => PlaceholdersOwed
  BY CodeInvOwes
<1>2. Spec => [](IInv /\ CodeInv)
  BY CodeInductive
<1>3. QED
  BY <1>1, <1>2, PTL

\* When compile has returned, every jump of every function lands on the first byte
\* of an instruction of that function, and its jump table, which add_jump filled as
\* constructs closed, holds those bytes and no other.  Left out besides is the
\* function for which compile_function emits no RET although control may run past
\* its last byte: its last jump lands behind its code.
THEOREM JumpsAlwaysResolved ==
  ASSUME {"empty_else", "long_while", "no_final_ret"} \cap Oddities = {}
  PROVE  Spec => []JumpsResolved
<1>1. IInv /\ CodeInv /\ EndsInv => JumpsResolved
  BY CodeInvResolves
<1>2. Spec => [](IInv /\ CodeInv /\ EndsInv)
  BY EndsInductive
<1>3. QED
  BY <1>1, <1>2, PTL

\* No jump crosses the FOR_*_START or the FOR_* instruction of a counted loop in
\* either direction, however loops, conditionals and definitions are nested: what
\* compile_for_loop emits is the only way into a body and the only way out of it.
THEOREM LoopBodiesAlwaysClosed ==
  ASSUME {"empty_else", "long_while"} \cap Oddities = {}
  PROVE  Spec => []LoopBodiesClosed
<1>1. IInv /\ CodeInv => LoopBodiesClosed
  BY CodeInvCloses
<1>2. Spec => [](IInv /\ CodeInv)
  BY CodeInductive
<1>3. QED
  BY <1>1, <1>2, PTL

\* What the type checker relies on and does not check: the code of every function that
\* compile has left is a sequence of whole instructions; its table of destinations
\* holds where its jumps go and no more; every jump back is around a loop which is
\* entered at its beginning alone; and every call is of a function that exists.
THEOREM CompiledCodeFlows ==
  ASSUME {"empty_else", "long_while", "no_final_ret"} \cap Oddities = {}
  PROVE  Spec => []Compiled
<1>1. IInv /\ CodeInv /\ EndsInv /\ KnownInv => Compiled
  BY CodeInvFlows
<1>2. Spec => [](IInv /\ CodeInv /\ EndsInv /\ KnownInv)
  BY KnownInductive
<1>3. QED
  BY <1>1, <1>2, PTL

-----------------------------------------------------------------------------
(* The loop-stack slots that are open at each instruction.                 *)

\* The loop-stack slots an instruction opens when control goes on to the next one.
SlotsOpened(op) ==
  CASE op = T_OP_FOR_DEC_START -> 1
    [] op = T_OP_FOR_INC_START -> 2
    [] op = T_OP_FOR_DEC -> -1
    [] op = T_OP_FOR_INC -> -2
    [] OTHER -> 0

\* The operand of the instruction at ip is a byte, a slot of a loop that is open,
\* or a variable of the function.
OperandIn(block, ip, slots, size) ==
  LET op == At(block, ip)
  IN  /\ op \in {T_OP_PUSH8, T_OP_PUSH_INT8} => At(block, ip + 1) \in 0..(ByteBase - 1)
      /\ op = T_OP_GET_LOOP_VAR => read_u16(block, ip + 1) \in 0..(slots - 1)
      /\ op = T_OP_LOCAL_GET => read_u16(block, ip + 1) \in 0..(size - 1)

\* L[ip] slots are open wherever the instruction at ip is reached from: from the one
\* before it or by a jump.
LevelledAt(block, L, size, ip) ==
  LET op == At(block, ip)
  IN  /\ L[After("t", block, ip)] = L[ip] + SlotsOpened(op)
      /\ is_t_jump(op) /\ read_s16(block, ip + 1) # 0 => L[JumpDest(block, ip)] = L[ip]
      /\ OperandIn(block, ip, L[ip], size)

\* The block of a function with `size' variables begins with no slot open, has `end'
\* open at its end, and never more than `most'.
Levelled(block, L, end, most, size) ==
  /\ L \in [Nat -> Nat]
  /\ L[0] = 0 /\ L[Len(block)] = end
  /\ \A x \in Places(block) : L[x] <= most
  /\ \A ip \in TStarts(block) : LevelledAt(block, L, size, ip)

\* A definition begins where no slot is open, and a counted loop takes one or two.
Proper(frame) ==
  /\ frame.kind = "func" => frame.level = 0
  /\ frame.kind \in {"for_count", "for_body"} => frame.slots \in {1, 2}

\* Where the jumps that a frame owes start, as many slots are open as when its
\* construct was; where they will land, its own besides.
Held(frame, L) ==
  /\ \A x \in Owed(frame) : L[x] = frame.level
  /\ \A l \in Labels(frame) : L[l] = frame.level + SlotsOf(frame)
  /\ Proper(frame)

\* The block in which `frames' work has such levels.
HasLevels(block, frames, end, most, size) ==
  \E L : /\ Levelled(block, L, end, most, size)
         /\ \A frame \in frames : Held(frame, L)

\* The slots open at the end of the code of function f - 1 so far.
LevelAtEnd(f) == IF f = func_index + 1 THEN for_loop_level ELSE 0

LevelsIn(f) ==
  HasLevels(t_code[f], FramesOf(ctx, f - 1), LevelAtEnd(f), max_for_loop_level[f],
            Len(locals[f]))

SymbolInTable(s) ==
  /\ s.kind = "loop_var" => s.arg >= 1
  /\ s.kind = "var" => s.owner < Len(locals) /\ s.arg < Len(locals[s.owner + 1])

LevelsInv ==
  /\ \A f \in 1..Len(t_code) : LevelsIn(f)
  /\ \A n \in Names : SymbolInTable(symbols[n])

-----------------------------------------------------------------------------
(* Blocks with their levels.                                               *)

LEMMA InstructionFits ==
  ASSUME NEW block, WholeBlock(block), NEW ip \in TStarts(block)
  PROVE  /\ block \in Seq(Nat)
         /\ ip \in Nat
         /\ Len(block) \in Nat
         /\ After("t", block, ip) = ip + t_instruction_size(At(block, ip))
         /\ After("t", block, ip) \in Nat
         /\ After("t", block, ip) > ip
         /\ After("t", block, ip) <= Len(block)
         /\ After("t", block, ip) \in Places(block)
         /\ \A other \in TStarts(block) :
              other \in Nat /\ (other <= ip \/ other >= After("t", block, ip))
<1>1. block \in Seq(Nat) /\ Whole(TStarts(block), "t", block)
  BY DEF WholeBlock
<1>2. Len(block) \in Nat
  BY <1>1, LenProperties
<1>3. \A x \in TStarts(block) : x \in Nat /\ x < Len(block)
  BY <1>1, <1>2 DEF Whole
<1>4. After("t", block, ip) \in Nat /\ After("t", block, ip) > ip
  BY <1>3, AfterType
<1>5. /\ After("t", block, ip) \in TStarts(block) \cup {Len(block)}
      /\ \A other \in TStarts(block) : other <= ip \/ other >= After("t", block, ip)
  BY <1>1 DEF Whole
<1>6. After("t", block, ip) = ip + t_instruction_size(At(block, ip))
  BY SizeOfT DEF After
<1>7. QED
  BY <1>1, <1>2, <1>3, <1>4, <1>5, <1>6 DEF Places

LEMMA OperandSizes ==
  /\ \A op \in {T_OP_PUSH8, T_OP_PUSH_INT8} : t_instruction_size(op) = 2 /\ ~is_t_jump(op)
  /\ \A op \in {T_OP_GET_LOOP_VAR, T_OP_LOCAL_GET} : t_instruction_size(op) = 3 /\ ~is_t_jump(op)
BY DEF t_instruction_size, is_t_jump, T_OP_CALL8, T_OP_PUSH8, T_OP_PUSH_INT8,
   T_OP_JUMP, T_OP_JUMP_COND, T_OP_JUMP_NCOND, T_OP_FOR_STARTS, T_OP_FOR_UPDATES,
   T_OP_FOR_DEC_START, T_OP_FOR_INC_START, T_OP_FOR_DEC, T_OP_FOR_INC,
   T_OP_GET_LOOP_VAR, T_OP_LOCAL_GET, T_OP_LOCAL_SET

\* The operand of an instruction whose bytes are the same in another place.
LEMMA OperandSame ==
  ASSUME NEW block, NEW ip \in Nat, NEW block2, NEW ip2 \in Nat,
         At(block2, ip2) = At(block, ip),
         \A k \in 1..2 : k < t_instruction_size(At(block, ip)) /\ ~is_t_jump(At(block, ip)) =>
           At(block2, ip2 + k) = At(block, ip + k),
         NEW slots, NEW size, OperandIn(block, ip, slots, size)
  PROVE  OperandIn(block2, ip2, slots, size)
<1>1. ASSUME At(block, ip) \in {T_OP_PUSH8, T_OP_PUSH_INT8}
      PROVE  At(block2, ip2 + 1) = At(block, ip + 1)
  <2>1. t_instruction_size(At(block, ip)) = 2 /\ ~is_t_jump(At(block, ip))
    BY <1>1, OperandSizes
  <2>2. 1 \in 1..2 /\ 1 < 2
    OBVIOUS
  <2>3. QED
    BY <2>1, <2>2
<1>2. ASSUME At(block, ip) \in {T_OP_GET_LOOP_VAR, T_OP_LOCAL_GET}
      PROVE  read_u16(block2, ip2 + 1) = read_u16(block, ip + 1)
  <2>1. t_instruction_size(At(block, ip)) = 3 /\ ~is_t_jump(At(block, ip))
    BY <1>2, OperandSizes
  <2>2. 1 \in 1..2 /\ 1 < 3 /\ 2 \in 1..2 /\ 2 < 3
    OBVIOUS
  <2>3. At(block2, ip2 + 1) = At(block, ip + 1) /\ At(block2, ip2 + 2) = At(block, ip + 2)
    BY <2>1, <2>2
  <2>4. (ip2 + 1) + 1 = ip2 + 2 /\ (ip + 1) + 1 = ip + 2
    OBVIOUS
  <2>5. QED
    BY <2>3, <2>4 DEF read_u16
<1>3. QED
  BY <1>1, <1>2 DEF OperandIn

\* The bytes of an instruction lie in its block.
LEMMA OperandInside ==
  ASSUME NEW block, WholeBlock(block), NEW ip \in TStarts(block),
         NEW k \in 1..2, k < t_instruction_size(At(block, ip))
  PROVE  ip + k \in 0..(Len(block) - 1)
<1>1. /\ ip \in Nat /\ Len(block) \in Nat
      /\ ip + t_instruction_size(At(block, ip)) <= Len(block)
  BY InstructionFits
<1>2. t_instruction_size(At(block, ip)) \in Nat
  BY SizeInType, SizeOfT
<1>3. QED
  BY <1>1, <1>2

LEMMA OperandBytes ==
  ASSUME NEW bytes \in Seq(Nat), Len(bytes) = t_instruction_size(At(bytes, 0)), NEW k \in 1..2,
         k < t_instruction_size(At(bytes, 0))
  PROVE  k \in 0..(Len(bytes) - 1) /\ 0 + k = k
<1>1. t_instruction_size(At(bytes, 0)) \in Nat
  BY SizeInType, SizeOfT
<1>2. QED
  BY <1>1

\* No jump that has a destination leaves the block.
Landing(block) ==
  \A ip \in TJumps(block) :
    read_s16(block, ip + 1) # 0 => JumpDest(block, ip) \in Places(block)

LEMMA CodedLands ==
  ASSUME NEW block, NEW owed, NEW labels, NEW dests, Coded(block, owed, labels, dests)
  PROVE  Landing(block)
<1>1. \A ip \in TJumps(block) \ owed : JumpDest(block, ip) \in Places(block)
  BY DEF Coded, Linked
<1>2. \A ip \in TJumps(block) : read_s16(block, ip + 1) # 0 => ip \notin owed
  BY DEF Coded
<1>3. QED
  BY <1>1, <1>2 DEF Landing

LEMMA LevelledFacts ==
  ASSUME NEW block, WholeBlock(block), NEW L, NEW end, NEW most, NEW size,
         Levelled(block, L, end, most, size)
  PROVE  /\ block \in Seq(Nat)
         /\ Len(block) \in Nat
         /\ L \in [Nat -> Nat]
         /\ end \in Nat
         /\ end = L[Len(block)]
         /\ Places(block) \subseteq 0..Len(block)
<1>1. block \in Seq(Nat) /\ Whole(TStarts(block), "t", block)
  BY DEF WholeBlock
<1>2. Len(block) \in Nat
  BY <1>1, LenProperties
<1>3. L \in [Nat -> Nat] /\ end = L[Len(block)]
  BY DEF Levelled
<1>4. Places(block) \subseteq 0..Len(block)
  BY <1>1, <1>2 DEF Places, Whole
<1>5. QED
  BY <1>1, <1>2, <1>3, <1>4

\* The levels M are L up to the offset n, and `end' at the offset m.
Follows(L, M, n) == \A x \in Nat : x <= n => M[x] = L[x]
EndsAt(M, m, end) == M \in [Nat -> Nat] /\ M[m] = end

LEMMA LevelsWith ==
  ASSUME NEW L \in [Nat -> Nat], NEW n \in Nat, NEW m \in Nat, n < m, NEW end \in Nat
  PROVE  \E M : Follows(L, M, n) /\ EndsAt(M, m, end)
<1> DEFINE M == [L EXCEPT ![m] = end]
<1>1. M \in [Nat -> Nat] /\ M[m] = end /\ \A x \in Nat : x <= n => M[x] = L[x]
  OBVIOUS
<1>2. QED
  BY <1>1 DEF Follows, EndsAt

\* An instruction opens slots.
Goes(op, end, end2) == end2 = end + SlotsOpened(op)

\* `longer' is the block with these bytes at its end.
Appended(block, bytes, longer) == longer = block \o bytes

\* An instruction is appended, which jumps nowhere yet or to where as many slots are
\* open as there are at the end.
LEMMA AppendLevels ==
  ASSUME NEW block, WholeBlock(block), Landing(block),
         NEW L, NEW end, NEW most \in Nat, NEW size, Levelled(block, L, end, most, size),
         NEW bytes \in Seq(Nat), Len(bytes) = t_instruction_size(At(bytes, 0)),
         OperandIn(bytes, 0, end, size),
         NEW longer, Appended(block, bytes, longer),
         is_t_jump(At(bytes, 0)) /\ read_s16(longer, Len(block) + 1) # 0 =>
           /\ JumpDest(longer, Len(block)) \in Nat /\ JumpDest(longer, Len(block)) <= Len(block)
           /\ L[JumpDest(longer, Len(block))] = end,
         NEW end2 \in Nat, Goes(At(bytes, 0), end, end2),
         NEW most2 \in Nat, most <= most2, end2 <= most2,
         NEW L2, Follows(L, L2, Len(block)), EndsAt(L2, Len(longer), end2)
  PROVE  Levelled(longer, L2, end2, most2, size)
<1>1. /\ block \in Seq(Nat) /\ Len(block) \in Nat /\ L \in [Nat -> Nat]
      /\ end = L[Len(block)] /\ Places(block) \subseteq 0..Len(block)
  BY LevelledFacts
<1>2. Len(bytes) \in Nat /\ Len(bytes) > 0
  BY SizeInType, SizeOfT
<1>3. /\ TStarts(longer) = TStarts(block) \cup {Len(block)}
      /\ Len(longer) = Len(block) + Len(bytes)
      /\ \A ip \in TStarts(block) : At(longer, ip) = At(block, ip)
      /\ At(longer, Len(block)) = At(bytes, 0)
  BY AppendInstruction DEF Appended
<1>4. /\ \A i \in 0..(Len(block) - 1) : At(longer, i) = At(block, i)
      /\ \A i \in 0..(Len(bytes) - 1) : At(longer, Len(block) + i) = At(bytes, i)
  BY <1>1, AppendAt DEF Appended
<1>5. \A ip \in TJumps(block) : read_s16(longer, ip + 1) = read_s16(block, ip + 1)
  BY AppendJumps DEF Appended
<1>6. \A x \in Nat : x <= Len(block) => L2[x] = L[x]
  BY DEF Follows
<1>7. ASSUME NEW ip \in TStarts(block) PROVE LevelledAt(longer, L2, size, ip)
  <2>1. /\ ip \in Nat /\ ip <= Len(block)
        /\ After("t", block, ip) \in Nat /\ After("t", block, ip) <= Len(block)
        /\ After("t", block, ip) = ip + t_instruction_size(At(block, ip))
    BY <1>1, InstructionFits
  <2>2. LevelledAt(block, L, size, ip) /\ At(longer, ip) = At(block, ip)
    BY <1>3 DEF Levelled
  <2>3. After("t", longer, ip) = After("t", block, ip)
    BY <2>2 DEF After
  <2>4. L2[ip] = L[ip] /\ L2[After("t", block, ip)] = L[After("t", block, ip)]
    BY <1>6, <2>1
  <2>5. ASSUME is_t_jump(At(block, ip)), read_s16(longer, ip + 1) # 0
        PROVE  L2[JumpDest(longer, ip)] = L[ip]
    <3>1. ip \in TJumps(block)
      BY <2>5 DEF TJumps
    <3>2. read_s16(longer, ip + 1) = read_s16(block, ip + 1)
      BY <1>5, <3>1
    <3>3. JumpDest(longer, ip) = JumpDest(block, ip)
      BY <3>2 DEF JumpDest
    <3>4. JumpDest(block, ip) \in Nat /\ JumpDest(block, ip) <= Len(block)
      BY <1>1, <2>5, <3>1, <3>2 DEF Landing
    <3>5. L[JumpDest(block, ip)] = L[ip]
      BY <2>2, <2>5, <3>2 DEF LevelledAt
    <3>6. QED
      BY <1>6, <3>3, <3>4, <3>5
  <2>6. OperandIn(longer, ip, L[ip], size)
    <3>1. \A k \in 1..2 : k < t_instruction_size(At(block, ip)) =>
            At(longer, ip + k) = At(block, ip + k)
      BY <1>4, OperandInside
    <3>2. OperandIn(block, ip, L[ip], size)
      BY <2>2 DEF LevelledAt
    <3>3. QED
      BY <2>1, <2>2, <3>1, <3>2, OperandSame
  <2>7. QED
    BY <2>2, <2>3, <2>4, <2>5, <2>6 DEF LevelledAt
<1>8. LevelledAt(longer, L2, size, Len(block))
  <2>1. L2[Len(block)] = end
    <3>1. Len(block) \in Nat /\ Len(block) <= Len(block)
      BY <1>1
    <3>2. L2[Len(block)] = L[Len(block)]
      BY <1>6, <3>1
    <3>3. QED
      BY <1>1, <3>2
  <2>2. After("t", longer, Len(block)) = Len(longer)
    BY <1>3, SizeOfT DEF After
  <2>3. OperandIn(longer, Len(block), end, size)
    <3>1. At(longer, Len(block)) = At(bytes, 0)
      BY <1>3
    <3>2. \A k \in 1..2 : k < t_instruction_size(At(bytes, 0)) /\ ~is_t_jump(At(bytes, 0)) =>
            At(longer, Len(block) + k) = At(bytes, 0 + k)
      BY <1>4, OperandBytes
    <3>3. 0 \in Nat
      OBVIOUS
    <3>4. QED
      BY <1>1, <3>1, <3>2, <3>3, OperandSame
  <2>4. ASSUME is_t_jump(At(longer, Len(block))), read_s16(longer, Len(block) + 1) # 0
        PROVE  L2[JumpDest(longer, Len(block))] = end
    BY <1>3, <1>6, <2>4
  <2>5. QED
    BY <1>3, <2>1, <2>2, <2>3, <2>4 DEF LevelledAt, Goes, EndsAt
<1>9. \A x \in Places(longer) : L2[x] <= most2
  <2>1. ASSUME NEW x \in Places(block) PROVE L2[x] <= most2
    <3>1. x <= Len(block) /\ L[x] <= most /\ x \in Nat
      BY <1>1 DEF Levelled
    <3>2. L2[x] = L[x] /\ L[x] \in Nat
      BY <1>1, <1>6, <3>1
    <3>3. QED
      BY <3>1, <3>2
  <2>2. Places(longer) = Places(block) \cup {Len(longer)}
    BY <1>3 DEF Places
  <2>3. QED
    <3>1. end2 <= most2 /\ L2[Len(longer)] = end2
      BY DEF EndsAt
    <3>2. QED
      BY <2>1, <2>2, <3>1
<1>10. L2[0] = 0
  <2>1. 0 \in Nat /\ 0 <= Len(block) /\ L[0] = 0
    BY <1>1 DEF Levelled
  <2>2. QED
    BY <1>6, <2>1
<1>11. L2 \in [Nat -> Nat] /\ L2[Len(longer)] = end2
  BY DEF EndsAt
<1>12. QED
  BY <1>3, <1>7, <1>8, <1>9, <1>10, <1>11 DEF Levelled

LEMMA LevelAppend ==
  ASSUME NEW block, WholeBlock(block), Landing(block),
         NEW L, NEW end, NEW most \in Nat, NEW size, Levelled(block, L, end, most, size),
         NEW bytes \in Seq(Nat), Len(bytes) = t_instruction_size(At(bytes, 0)),
         OperandIn(bytes, 0, end, size),
         NEW longer, Appended(block, bytes, longer),
         is_t_jump(At(bytes, 0)) /\ read_s16(longer, Len(block) + 1) # 0 =>
           /\ JumpDest(longer, Len(block)) \in Nat /\ JumpDest(longer, Len(block)) <= Len(block)
           /\ L[JumpDest(longer, Len(block))] = end,
         NEW end2 \in Nat, Goes(At(bytes, 0), end, end2),
         NEW most2 \in Nat, most <= most2, end2 <= most2
  PROVE  \E L2 : /\ Levelled(longer, L2, end2, most2, size)
                 /\ Follows(L, L2, Len(block)) /\ L2[Len(longer)] = end2
<1>1. block \in Seq(Nat) /\ Len(block) \in Nat /\ L \in [Nat -> Nat]
  BY LevelledFacts
<1>2. Len(bytes) \in Nat /\ Len(bytes) > 0
  BY SizeInType, SizeOfT
<1>3. Len(longer) = Len(block) + Len(bytes)
  BY AppendInstruction DEF Appended
<1>4. Len(longer) \in Nat /\ Len(block) < Len(longer)
  BY <1>1, <1>2, <1>3
<1>5. PICK L2 : Follows(L, L2, Len(block)) /\ EndsAt(L2, Len(longer), end2)
  BY <1>1, <1>4, LevelsWith
<1>6. Levelled(longer, L2, end2, most2, size)
  BY <1>5, AppendLevels
<1>7. QED
  BY <1>5, <1>6 DEF EndsAt

\* patch_jump: the destination has as many slots open as the jump.
LEMMA LevelPatch ==
  ASSUME NEW block, WholeBlock(block), NEW L, NEW end, NEW most, NEW size,
         Levelled(block, L, end, most, size),
         NEW b \in TJumps(block), NEW dest \in Int, Fits(b, dest), L[dest] = L[b]
  PROVE  Levelled(PatchTo(block, b, dest), L, end, most, size)
<1> DEFINE v == dest - b - 1
           patched == overwrite_s16(block, b + 1, v)
<1>1. block \in Seq(Nat) /\ Len(block) \in Nat
  BY LevelledFacts
<1>2. /\ b \in TStarts(block) /\ b \in Nat /\ b + 3 <= Len(block)
      /\ \A other \in TStarts(block) : other <= b \/ other >= b + 3
  BY JumpFits
<1>3. v \in Int /\ b + 1 \in Nat /\ (b + 1) + 1 < Len(block) /\ InS16(v)
  BY <1>1, <1>2 DEF Fits
<1>4. PatchTo(block, b, dest) = patched
  BY DEF PatchTo, Patched
<1>5. b + 1 + v = dest
  BY <1>2
<1> HIDE DEF v
<1>6. /\ Len(patched) = Len(block)
      /\ TStarts(patched) = TStarts(block)
      /\ \A other \in TStarts(block) : At(patched, other) = At(block, other)
      /\ \A other \in TJumps(block) :
           other # b => read_s16(patched, other + 1) = read_s16(block, other + 1)
      /\ read_s16(patched, b + 1) = v
  BY <1>3, PatchJump
<1>7. \A k \in 0..(Len(block) - 1) :
        k # b + 1 /\ k # b + 1 + 1 => At(patched, k) = At(block, k)
  BY <1>1, <1>3, OverwriteAt
<1> HIDE DEF patched
<1>8. ASSUME NEW ip \in TStarts(block) PROVE LevelledAt(patched, L, size, ip)
  <2>1. LevelledAt(block, L, size, ip) /\ At(patched, ip) = At(block, ip)
    BY <1>6 DEF Levelled
  <2>2. After("t", patched, ip) = After("t", block, ip)
    BY <2>1 DEF After
  <2>3. ASSUME is_t_jump(At(block, ip)), read_s16(patched, ip + 1) # 0
        PROVE  L[JumpDest(patched, ip)] = L[ip]
    <3>1. ip \in TJumps(block)
      BY <2>3 DEF TJumps
    <3>2. CASE ip = b
      <4>1. JumpDest(patched, ip) = dest
        BY <1>5, <1>6, <3>2 DEF JumpDest
      <4>2. QED
        BY <3>2, <4>1
    <3>3. CASE ip # b
      <4>1. read_s16(patched, ip + 1) = read_s16(block, ip + 1)
        BY <1>6, <3>1, <3>3
      <4>2. JumpDest(patched, ip) = JumpDest(block, ip)
        BY <4>1 DEF JumpDest
      <4>3. QED
        BY <2>1, <2>3, <4>1, <4>2 DEF LevelledAt
    <3>4. QED
      BY <3>2, <3>3
  <2>4. OperandIn(patched, ip, L[ip], size)
    <3>1. /\ ip \in Nat /\ After("t", block, ip) <= Len(block)
          /\ After("t", block, ip) = ip + t_instruction_size(At(block, ip))
          /\ b <= ip \/ b >= After("t", block, ip)
      BY <1>2, InstructionFits
    <3>2. ASSUME NEW k \in 1..2, k < t_instruction_size(At(block, ip)),
                 ~is_t_jump(At(block, ip))
          PROVE  At(patched, ip + k) = At(block, ip + k)
      <4>1. t_instruction_size(At(block, ip)) \in Nat
        BY SizeInType, SizeOfT
      <4>2. ip # b
        BY <3>2 DEF TJumps
      <4>3. ip <= b \/ ip >= b + 3
        BY <1>2
      <4>4. ip + k \in 0..(Len(block) - 1) /\ ip + k # b + 1 /\ ip + k # b + 1 + 1
        BY <1>1, <1>2, <3>1, <3>2, <4>1, <4>2, <4>3, SMTT(40)
      <4>5. QED
        BY <1>7, <4>4
    <3>3. OperandIn(block, ip, L[ip], size)
      BY <2>1 DEF LevelledAt
    <3>4. QED
      BY <2>1, <3>1, <3>2, <3>3, OperandSame
  <2>5. QED
    BY <2>1, <2>2, <2>3, <2>4 DEF LevelledAt
<1>9. Places(patched) = Places(block)
  BY <1>6 DEF Places
<1>10. QED
  BY <1>4, <1>6, <1>8, <1>9 DEF Levelled

\* A function may get more variables.
LEMMA LevelMore ==
  ASSUME NEW block, NEW L, NEW end, NEW most, NEW size \in Nat,
         Levelled(block, L, end, most, size), NEW size2 \in Nat, size <= size2
  PROVE  Levelled(block, L, end, most, size2)
<1>1. ASSUME NEW ip \in TStarts(block) PROVE LevelledAt(block, L, size2, ip)
  <2>1. \A x : x \in 0..(size - 1) => x \in 0..(size2 - 1)
    OBVIOUS
  <2>2. QED
    BY <2>1 DEF Levelled, LevelledAt, OperandIn
<1>2. QED
  BY <1>1 DEF Levelled

LEMMA NoLevels ==
  ASSUME NEW most \in Nat, NEW size
  PROVE  Levelled(<<>>, [x \in Nat |-> 0], 0, most, size)
<1>1. TStarts(<<>>) = {} /\ Len(<<>>) = 0
  BY EmptyWhole
<1>2. QED
  BY <1>1 DEF Levelled, Places

-----------------------------------------------------------------------------
(* What the emitting and patching steps do to the levels.                  *)

LEMMA BlockFacts ==
  ASSUME NEW block, NEW F, NEW dests, BlockOK(block, F, dests)
  PROVE  /\ block \in Seq(Nat)
         /\ Len(block) \in Nat
         /\ WholeBlock(block)
         /\ Landing(block)
         /\ \A frame \in F : \A x \in Owed(frame) : x \in Nat /\ x <= Len(block) /\ x \in TJumps(block)
         /\ \A frame \in F : \A l \in Labels(frame) : l \in Nat /\ l <= Len(block)
<1>1. /\ Coded(block, OwedIn(F), LabelsIn(F), dests)
      /\ block \in Seq(Nat) /\ Len(block) \in Nat /\ WholeBlock(block)
      /\ \A frame \in F : /\ Owed(frame) \subseteq TJumps(block)
                          /\ Owed(frame) \subseteq TStarts(block)
                          /\ Labels(frame) \subseteq Places(block)
  BY OKFacts
<1>2. Places(block) \subseteq 0..Len(block)
  BY <1>1, CodedFacts
<1>3. TStarts(block) \subseteq Places(block)
  BY DEF Places
<1>4. Landing(block)
  BY <1>1, CodedLands
<1>5. QED
  BY <1>1, <1>2, <1>3, <1>4

\* What a frame holds is not touched by what is appended.
LEMMA HeldKept ==
  ASSUME NEW frame, NEW L, Held(frame, L), NEW n \in Nat, NEW M, Follows(L, M, n),
         \A x \in Owed(frame) : x \in Nat /\ x <= n,
         \A l \in Labels(frame) : l \in Nat /\ l <= n
  PROVE  Held(frame, M)
BY DEF Held, Follows

\* An instruction that is not a jump.
LEMMA PlainSlots ==
  ASSUME NEW op, ~is_t_jump(op)
  PROVE  SlotsOpened(op) = 0
BY DEF SlotsOpened, is_t_jump, T_OP_FOR_STARTS, T_OP_FOR_UPDATES

LEMMA LevelsPlain ==
  ASSUME NEW block, NEW F, NEW dests, BlockOK(block, F, dests),
         NEW end, NEW most \in Nat, NEW size, HasLevels(block, F, end, most, size), end <= most,
         NEW bytes \in Seq(Nat), Len(bytes) = t_instruction_size(At(bytes, 0)),
         ~is_t_jump(At(bytes, 0)), OperandIn(bytes, 0, end, size)
  PROVE  HasLevels(block \o bytes, F, end, most, size)
<1>1. PICK L : /\ Levelled(block, L, end, most, size)
               /\ \A frame \in F : Held(frame, L)
  BY DEF HasLevels
<1>2. WholeBlock(block) /\ Landing(block) /\ Len(block) \in Nat
  BY BlockFacts
<1>3. end \in Nat
  BY <1>1, <1>2, LevelledFacts
<1>4. Goes(At(bytes, 0), end, end) /\ Appended(block, bytes, block \o bytes)
  BY <1>3, PlainSlots DEF Goes, Appended
<1>5. \E L2 : /\ Levelled(block \o bytes, L2, end, most, size)
              /\ Follows(L, L2, Len(block))
  <2>1. most <= most
    OBVIOUS
  <2>2. ASSUME NEW longer, Appended(block, bytes, longer)
        PROVE  \E L2 : Levelled(longer, L2, end, most, size) /\ Follows(L, L2, Len(block))
    BY <1>1, <1>2, <1>3, <1>4, <2>1, <2>2, LevelAppend
  <2>3. QED
    BY <1>4, <2>2
<1>6. PICK L2 : Levelled(block \o bytes, L2, end, most, size) /\ Follows(L, L2, Len(block))
  BY <1>5
<1>7. \A frame \in F : Held(frame, L2)
  BY <1>1, <1>2, <1>6, BlockFacts, HeldKept
<1>8. QED
  BY <1>6, <1>7 DEF HasLevels

\* The levels stay in bounds.
LEMMA EndInBounds ==
  ASSUME NEW block, NEW F, NEW end, NEW most, NEW size, HasLevels(block, F, end, most, size)
  PROVE  end <= most
<1>1. PICK L : Levelled(block, L, end, most, size)
  BY DEF HasLevels
<1>2. Len(block) \in Places(block) /\ L[Len(block)] = end
  BY <1>1 DEF Levelled, Places
<1>3. QED
  BY <1>1, <1>2 DEF Levelled

\* A frame that owes nothing, and may have the end for a label.
LEMMA LevelsPush ==
  ASSUME NEW block, NEW F, NEW end, NEW most, NEW size, HasLevels(block, F, end, most, size),
         NEW g, Owed(g) = {}, Labels(g) \subseteq {Len(block)},
         g.level + SlotsOf(g) = end, Proper(g)
  PROVE  HasLevels(block, F \cup {g}, end, most, size)
<1>1. PICK L : /\ Levelled(block, L, end, most, size)
               /\ \A frame \in F : Held(frame, L)
  BY DEF HasLevels
<1>2. L[Len(block)] = end
  BY <1>1 DEF Levelled
<1>3. Held(g, L)
  BY <1>2 DEF Held
<1>4. QED
  BY <1>1, <1>3 DEF HasLevels

\* A placeholder jump.
LEMMA LevelsOwe ==
  ASSUME NEW block, NEW F, NEW dests, NEW t, BlockOK(block, F \cup {t}, dests),
         NEW end, NEW most \in Nat, NEW size, HasLevels(block, F \cup {t}, end, most, size),
         NEW op \in Nat, is_t_jump(op),
         NEW longer, Appended(block, <<op>> \o U16(0), longer),
         NEW g, Owed(g) = Owed(t) \cup {Len(block)},
         Labels(g) \subseteq Labels(t) \cup {Len(block) + 3},
         Proper(g), SlotsOf(t) = 0, t.level = end, g.level = end,
         Labels(t) # {} => SlotsOf(g) = 0,
         NEW end2 \in Nat, Goes(op, end, end2), g.level + SlotsOf(g) = end2,
         NEW most2 \in Nat, most <= most2, end2 <= most2
  PROVE  HasLevels(longer, F \cup {g}, end2, most2, size)
<1> DEFINE bytes == <<op>> \o U16(0)
<1>1. PICK L : /\ Levelled(block, L, end, most, size)
               /\ \A frame \in F \cup {t} : Held(frame, L)
  BY DEF HasLevels
<1>2. /\ block \in Seq(Nat) /\ WholeBlock(block) /\ Landing(block) /\ Len(block) \in Nat
      /\ \A frame \in F \cup {t} : \A x \in Owed(frame) : x \in Nat /\ x <= Len(block)
      /\ \A frame \in F \cup {t} : \A l \in Labels(frame) : l \in Nat /\ l <= Len(block)
  BY BlockFacts
<1>3. /\ bytes \in Seq(Nat) /\ Len(bytes) = 3 /\ At(bytes, 0) = op
      /\ read_s16(block \o bytes, Len(block) + 1) = 0
  <2>1. InS16(0)
    BY Halves DEF InS16
  <2>2. 0 \in Int
    OBVIOUS
  <2>3. QED
    BY <1>2, <2>1, <2>2, EmittedOperand
<1> HIDE DEF bytes
<1>4. Len(bytes) = t_instruction_size(At(bytes, 0)) /\ is_t_jump(At(bytes, 0))
  BY <1>3, JumpSize
<1>5. OperandIn(bytes, 0, end, size)
  BY <1>4, OperandSizes DEF OperandIn
<1>6. Goes(At(bytes, 0), end, end2)
  BY <1>3
<1>7. Appended(block, bytes, longer) /\ read_s16(longer, Len(block) + 1) = 0
  BY <1>3 DEF Appended, bytes
<1>8. PICK L2 : /\ Levelled(longer, L2, end2, most2, size)
                /\ Follows(L, L2, Len(block)) /\ L2[Len(longer)] = end2
  BY <1>1, <1>2, <1>3, <1>4, <1>5, <1>6, <1>7, LevelAppend
<1>9. ASSUME NEW frame \in F PROVE Held(frame, L2)
  BY <1>1, <1>2, <1>8, HeldKept
<1>10. Held(g, L2)
  <2>1. Len(longer) = Len(block) + 3
    BY <1>2, <1>3, <1>7, AppendAt DEF Appended
  <2>2. L[Len(block)] = end
    BY <1>1 DEF Levelled
  <2>3. L2[Len(block)] = end
    <3>1. Len(block) <= Len(block)
      BY <1>2
    <3>2. QED
      BY <1>2, <1>8, <2>2, <3>1 DEF Follows
  <2>4. Held(t, L2)
    BY <1>1, <1>2, <1>8, HeldKept
  <2>5. \A x \in Owed(g) : L2[x] = g.level
    BY <2>3, <2>4 DEF Held
  <2>6. \A l \in Labels(g) : L2[l] = g.level + SlotsOf(g)
    <3>1. L2[Len(block) + 3] = end2
      BY <1>8, <2>1
    <3>2. ASSUME NEW l \in Labels(t) PROVE L2[l] = g.level + SlotsOf(g)
      <4>1. L2[l] = t.level + SlotsOf(t)
        BY <2>4 DEF Held
      <4>2. SlotsOf(g) = 0
        BY <3>2
      <4>3. QED
        BY <4>1, <4>2
    <3>3. QED
      BY <3>1, <3>2
  <2>7. QED
    BY <2>5, <2>6 DEF Held
<1>11. QED
  BY <1>8, <1>9, <1>10 DEF HasLevels

-----------------------------------------------------------------------------
(* The levels of a block in which a construct is closed.                   *)

LEMMA PatchedWhole ==
  ASSUME NEW block, WholeBlock(block), NEW b \in TJumps(block), NEW dest \in Int
  PROVE  /\ WholeBlock(PatchTo(block, b, dest))
         /\ TJumps(PatchTo(block, b, dest)) = TJumps(block)
<1> DEFINE v == dest - b - 1
<1>1. b \in Nat
  BY JumpFits
<1>2. v \in Int
  BY <1>1
<1>3. PatchTo(block, b, dest) = overwrite_s16(block, b + 1, v)
  BY DEF PatchTo, Patched
<1> HIDE DEF v
<1>4. QED
  BY <1>2, <1>3, PatchJump

\* The end of an `if' without an `else'.
LEMMA LevelsEndThen ==
  ASSUME NEW block, NEW F, NEW dests, NEW t, BlockOK(block, F \cup {t}, dests),
         NEW end, NEW most, NEW size, HasLevels(block, F \cup {t}, end, most, size),
         t.kind = "then", t.level = end, Fits(t.start, Len(block))
  PROVE  HasLevels(PatchTo(block, t.start, Len(block)), F, end, most, size)
<1>1. PICK L : /\ Levelled(block, L, end, most, size)
               /\ \A frame \in F \cup {t} : Held(frame, L)
  BY DEF HasLevels
<1>2. WholeBlock(block) /\ Len(block) \in Int
  BY BlockFacts
<1>3. t.start \in Owed(t)
  BY DEF Owed
<1>4. t.start \in TJumps(block) /\ L[t.start] = t.level
  BY <1>1, <1>3, BlockFacts DEF Held
<1>5. L[Len(block)] = L[t.start]
  BY <1>1, <1>4 DEF Levelled
<1>6. Levelled(PatchTo(block, t.start, Len(block)), L, end, most, size)
  BY <1>1, <1>2, <1>4, <1>5, LevelPatch
<1>7. QED
  BY <1>1, <1>6 DEF HasLevels

\* The end of an `if' with an `else' or an `elif'.
LEMMA LevelsEndElse ==
  ASSUME NEW block, NEW F, NEW dests, NEW t, BlockOK(block, F \cup {t}, dests),
         NEW end, NEW most, NEW size, HasLevels(block, F \cup {t}, end, most, size),
         t.kind \in {"else", "elif"}, t.level = end, end \in Nat,
         Fits(t.start, t.body), Fits(t.body - 3, Len(block))
  PROVE  HasLevels(ClosedAt(block, t.start, t.body), F, end, most, size)
<1> DEFINE skipped == PatchTo(block, t.start, t.body)
<1>1. PICK L : /\ Levelled(block, L, end, most, size)
               /\ \A frame \in F \cup {t} : Held(frame, L)
  BY DEF HasLevels
<1>2. WholeBlock(block) /\ Len(block) \in Int
  BY BlockFacts
<1>3. t.start \in Owed(t) /\ t.body - 3 \in Owed(t) /\ t.body \in Labels(t) /\ SlotsOf(t) = 0
  BY DEF Owed, Labels, SlotsOf
<1>4. /\ t.start \in TJumps(block) /\ L[t.start] = t.level
      /\ t.body - 3 \in TJumps(block) /\ L[t.body - 3] = t.level
      /\ t.body \in Nat /\ L[t.body] = t.level + SlotsOf(t)
  BY <1>1, <1>3, BlockFacts DEF Held
<1>5. L[t.body] = L[t.start] /\ L[Len(block)] = L[t.body - 3]
  BY <1>1, <1>3, <1>4 DEF Levelled
<1>6. Levelled(skipped, L, end, most, size)
  BY <1>1, <1>2, <1>4, <1>5, LevelPatch
<1>7. WholeBlock(skipped) /\ TJumps(skipped) = TJumps(block)
  BY <1>2, <1>4, PatchedWhole
<1> HIDE DEF skipped
<1>8. Levelled(PatchTo(skipped, t.body - 3, Len(block)), L, end, most, size)
  BY <1>2, <1>4, <1>5, <1>6, <1>7, LevelPatch
<1>9. QED
  BY <1>1, <1>8 DEF HasLevels, ClosedAt, skipped

\* The end of a loop.
LEMMA LevelsEndLoop ==
  ASSUME NEW block, NEW F, NEW dests, NEW t, BlockOK(block, F \cup {t}, dests),
         NEW end \in Nat, NEW most \in Nat, NEW size,
         HasLevels(block, F \cup {t}, end, most, size),
         NEW op \in Nat, is_t_jump(op), NEW b \in Owed(t), NEW back \in Labels(t),
         t.level \in Nat, SlotsOf(t) \in Nat,
         t.level + SlotsOf(t) = end, Goes(op, end, t.level),
         Fits(Len(block), back), Fits(b, Len(block) + 3)
  PROVE  HasLevels(LoopEnd(block, op, back, b), F, t.level, most, size)
<1> DEFINE v == back - Len(block) - 1
           bytes == <<op>> \o U16(v)
           longer == LoopBack(block, op, back)
<1>1. PICK L : /\ Levelled(block, L, end, most, size)
               /\ \A frame \in F \cup {t} : Held(frame, L)
  BY DEF HasLevels
<1>2. /\ block \in Seq(Nat) /\ WholeBlock(block) /\ Landing(block) /\ Len(block) \in Nat
      /\ \A frame \in F \cup {t} : \A x \in Owed(frame) : x \in Nat /\ x <= Len(block)
      /\ \A frame \in F \cup {t} : \A l \in Labels(frame) : l \in Nat /\ l <= Len(block)
      /\ b \in TJumps(block)
  BY BlockFacts
<1>3. b \in Nat /\ b <= Len(block) /\ back \in Nat /\ back <= Len(block)
  BY <1>2
<1>4. L[b] = t.level /\ L[back] = end
  BY <1>1 DEF Held
<1>5. v \in Int /\ InS16(v) /\ Len(block) + 1 + v = back
  BY <1>2, <1>3 DEF Fits
<1> HIDE DEF v
<1>6. /\ bytes \in Seq(Nat) /\ Len(bytes) = 3 /\ At(bytes, 0) = op
      /\ read_s16(block \o bytes, Len(block) + 1) = v
  BY <1>2, <1>5, EmittedOperand
<1>7. Appended(block, bytes, longer)
  BY DEF Appended, LoopBack, bytes, longer, v
<1> HIDE DEF bytes, longer
<1>8. Len(bytes) = t_instruction_size(At(bytes, 0)) /\ is_t_jump(At(bytes, 0))
  BY <1>6, JumpSize
<1>9. OperandIn(bytes, 0, end, size)
  BY <1>8, OperandSizes DEF OperandIn
<1>10. read_s16(longer, Len(block) + 1) = v
  BY <1>6, <1>7 DEF Appended
<1>11. JumpDest(longer, Len(block)) = back
  BY <1>5, <1>10 DEF JumpDest
<1>12. Goes(At(bytes, 0), end, t.level) /\ most <= most /\ t.level <= most
  <2>1. end <= most
    BY EndInBounds
  <2>2. QED
    BY <1>6, <2>1
<1>13. PICK L2 : /\ Levelled(longer, L2, t.level, most, size)
                 /\ Follows(L, L2, Len(block)) /\ L2[Len(longer)] = t.level
  <2>1. /\ JumpDest(longer, Len(block)) \in Nat /\ JumpDest(longer, Len(block)) <= Len(block)
        /\ L[JumpDest(longer, Len(block))] = end
    BY <1>3, <1>4, <1>11
  <2>2. ASSUME NEW low \in Nat, Goes(At(bytes, 0), end, low), low <= most
        PROVE  \E L2 : /\ Levelled(longer, L2, low, most, size)
                       /\ Follows(L, L2, Len(block)) /\ L2[Len(longer)] = low
    BY <1>1, <1>2, <1>6, <1>7, <1>8, <1>9, <1>12, <2>1, <2>2, LevelAppend
  <2>3. QED
    BY <1>12, <2>2
<1>14. ASSUME NEW frame \in F PROVE Held(frame, L2)
  BY <1>1, <1>2, <1>13, HeldKept
<1>15. /\ WholeBlock(longer) /\ Len(longer) = Len(block) + 3 /\ b \in TJumps(longer)
  <2>1. longer = block \o bytes
    BY <1>7 DEF Appended
  <2>2. WholeBlock(longer) /\ Len(longer) = Len(block) + 3
    BY <1>2, <1>6, <1>8, <2>1, AppendInstruction
  <2>3. TJumps(block) \subseteq TJumps(longer)
    BY <1>2, <1>6, <1>8, <2>1, AppendJumps
  <2>4. QED
    BY <1>2, <2>2, <2>3
<1>16. L2[Len(block) + 3] = L2[b]
  BY <1>3, <1>4, <1>13, <1>15 DEF Follows
<1>17. Len(block) + 3 \in Int
  BY <1>2
<1>18. Levelled(PatchTo(longer, b, Len(block) + 3), L2, t.level, most, size)
  BY <1>13, <1>15, <1>16, <1>17, LevelPatch
<1>19. QED
  BY <1>14, <1>18 DEF HasLevels, LoopEnd, longer

-----------------------------------------------------------------------------
(* The levels of the current function.                                     *)

Most == max_for_loop_level[func_index + 1]
Size == Len(locals[func_index + 1])

LEMMA LevelsHere ==
  ASSUME IInv, CodeInv, LevelsInv
  PROVE  /\ HasLevels(Block, Working, for_loop_level, Most, Size)
         /\ BlockOK(Block, Working, Here)
         /\ TypeOK
         /\ for_loop_level \in Nat /\ Most \in Nat /\ Size \in Nat
         /\ for_loop_level <= Most
         /\ func_index \in Nat /\ func_index + 1 \in 1..Len(t_code) /\ Len(t_code) \in Nat
         /\ Len(locals) = Len(t_code) /\ Len(max_for_loop_level) = Len(t_code)
<1>1. /\ TypeOK /\ func_index \in Nat /\ func_index + 1 \in 1..Len(t_code)
      /\ Len(t_code) \in Nat /\ BlockOK(Block, Working, Here)
  BY Current
<1>2. Len(locals) = Len(t_code) /\ Len(max_for_loop_level) = Len(t_code)
  BY <1>1, TablesOfTypeOK
<1>3. /\ for_loop_level \in Nat /\ max_for_loop_level \in Seq(Nat)
      /\ locals \in Seq(Seq({IntType}))
  BY <1>1 DEF TypeOK
<1>4. Most \in Nat /\ locals[func_index + 1] \in Seq({IntType})
  BY <1>1, <1>2, <1>3, ElementOfSeq DEF Most
<1>5. Size \in Nat
  BY <1>4, LenProperties DEF Size
<1>6. LevelsIn(func_index + 1)
  BY <1>1 DEF LevelsInv
<1>7. (func_index + 1) - 1 = func_index /\ LevelAtEnd(func_index + 1) = for_loop_level
  BY <1>1 DEF LevelAtEnd
<1>8. HasLevels(Block, Working, for_loop_level, Most, Size)
  BY <1>6, <1>7 DEF LevelsIn, Block, Working, Most, Size
<1>9. for_loop_level <= Most
  BY <1>8, EndInBounds
<1>10. QED
  BY <1>1, <1>2, <1>3, <1>4, <1>5, <1>8, <1>9

\* A step that writes to the block of the current function, and changes the frames
\* and the tables of no other.
LEMMA LevelsWritten ==
  ASSUME IInv, CodeInv, LevelsInv, UNCHANGED func_index,
         NEW block2, Wrote(t_code, t_code', func_index + 1, block2),
         NEW F, FramesOf(ctx', func_index) = F,
         \A f : f # func_index => FramesOf(ctx', f) = FramesOf(ctx, f),
         NEW most, Wrote(max_for_loop_level, max_for_loop_level', func_index + 1, most),
         NEW vs, Wrote(locals, locals', func_index + 1, vs),
         HasLevels(block2, F, for_loop_level', most, Len(vs))
  PROVE  \A f \in 1..Len(t_code') : LevelsIn(f)'
<1>1. /\ func_index \in Nat /\ func_index + 1 \in 1..Len(t_code) /\ Len(t_code) \in Nat
      /\ Len(locals) = Len(t_code) /\ Len(max_for_loop_level) = Len(t_code)
  BY LevelsHere
<1>2. Len(t_code') = Len(t_code)
  BY DEF Wrote
<1>3. ASSUME NEW f \in 1..Len(t_code), f # func_index + 1 PROVE LevelsIn(f)'
  <2>1. /\ t_code'[f] = t_code[f] /\ max_for_loop_level'[f] = max_for_loop_level[f]
        /\ locals'[f] = locals[f]
    BY <1>1, <1>3 DEF Wrote
  <2>2. FramesOf(ctx', f - 1) = FramesOf(ctx, f - 1)
    <3>1. f - 1 # func_index
      BY <1>1, <1>3
    <3>2. QED
      BY <3>1
  <2>3. LevelAtEnd(f) = 0 /\ LevelAtEnd(f)' = 0
    BY <1>3 DEF LevelAtEnd
  <2>4. LevelsIn(f)
    BY DEF LevelsInv
  <2>5. QED
    BY <2>1, <2>2, <2>3, <2>4 DEF LevelsIn
<1>4. LevelsIn(func_index + 1)'
  <2>1. (func_index + 1) - 1 = func_index
    BY <1>1
  <2>2. /\ t_code'[func_index + 1] = block2 /\ max_for_loop_level'[func_index + 1] = most
        /\ locals'[func_index + 1] = vs
    BY DEF Wrote
  <2>3. LevelAtEnd(func_index + 1)' = for_loop_level'
    BY DEF LevelAtEnd
  <2>4. QED
    BY <2>1, <2>2, <2>3 DEF LevelsIn
<1>5. QED
  BY <1>2, <1>3, <1>4

\* The same, when the tables stay.
LEMMA LevelsWrittenCode ==
  ASSUME IInv, CodeInv, LevelsInv, UNCHANGED <<func_index, tables, symbols>>,
         NEW block2, Wrote(t_code, t_code', func_index + 1, block2),
         NEW F, FramesOf(ctx', func_index) = F,
         \A f : f # func_index => FramesOf(ctx', f) = FramesOf(ctx, f),
         HasLevels(block2, F, for_loop_level', Most, Size)
  PROVE  LevelsInv'
<1>1. max_for_loop_level' = max_for_loop_level /\ locals' = locals
  BY DEF tables
<1>2. Wrote(max_for_loop_level, max_for_loop_level', func_index + 1, Most)
  BY <1>1, WroteNothing DEF Most
<1>3. Wrote(locals, locals', func_index + 1, locals[func_index + 1])
  BY <1>1, WroteNothing
<1>4. \A f \in 1..Len(t_code') : LevelsIn(f)'
  BY <1>2, <1>3, LevelsWritten DEF Size
<1>5. \A n \in Names : SymbolInTable(symbols[n])'
  BY <1>1 DEF LevelsInv, SymbolInTable
<1>6. QED
  BY <1>4, <1>5 DEF LevelsInv

\* Nothing of what the levels are about changes.
LEMMA LevelsStay ==
  ASSUME LevelsInv,
         UNCHANGED <<ctx, func_index, for_loop_level, symbols, t_code, tables>>
  PROVE  LevelsInv'
<1>1. UNCHANGED <<locals, max_for_loop_level>>
  BY DEF tables
<1>2. QED
  BY <1>1 DEF LevelsInv, LevelsIn, LevelAtEnd, SymbolInTable

LEMMA FailKeepsLevels ==
  ASSUME LevelsInv, Fail
  PROVE  LevelsInv'
BY LevelsStay DEF Fail

\* An action that appends an instruction other than a jump.
LEMMA PlainKeepsLevels ==
  ASSUME IInv, CodeInv, LevelsInv,
         UNCHANGED <<ctx, func_index, for_loop_level, symbols, tables>>,
         NEW bytes \in Seq(Nat), Emit(bytes),
         Len(bytes) = t_instruction_size(At(bytes, 0)), ~is_t_jump(At(bytes, 0)),
         OperandIn(bytes, 0, for_loop_level, Size)
  PROVE  LevelsInv'
<1>1. /\ HasLevels(Block, Working, for_loop_level, Most, Size)
      /\ BlockOK(Block, Working, Here) /\ TypeOK
      /\ for_loop_level \in Nat /\ Most \in Nat /\ for_loop_level <= Most
  BY LevelsHere
<1>2. HasLevels(Block \o bytes, Working, for_loop_level, Most, Size)
  BY <1>1, LevelsPlain
<1>3. Wrote(t_code, t_code', func_index + 1, Block \o bytes)
  BY <1>1, EmitWrites
<1>4. FramesOf(ctx', func_index) = Working /\ \A f : FramesOf(ctx', f) = FramesOf(ctx, f)
  BY DEF Working
<1>5. QED
  BY <1>2, <1>3, <1>4, LevelsWrittenCode

LEMMA LiteralKeepsLevels ==
  ASSUME IInv, CodeInv, LevelsInv, NEW op \in LiteralOps, NEW v \in Literals,
         CompileInteger(op, v)
  PROVE  LevelsInv'
<1> DEFINE bytes == <<op, v>>
<1>1. op \in {T_OP_PUSH8, T_OP_PUSH_INT8} /\ v \in 0..(ByteBase - 1) /\ v \in Nat
  BY CompilerAssumption, ByteBaseAssumption
<1>2. t_instruction_size(op) = 2 /\ ~is_t_jump(op) /\ op \in Nat
  BY <1>1, OperandSizes, OpcodeTypes
<1>3. /\ bytes \in Seq(Nat) /\ Len(bytes) = 2 /\ At(bytes, 0) = op
      /\ At(bytes, 1) = v /\ At(bytes, 0 + 1) = v
  BY <1>1, <1>2 DEF At
<1> HIDE DEF bytes
<1>4. OperandIn(bytes, 0, for_loop_level, Size)
  BY <1>1, <1>3 DEF OperandIn, T_OP_PUSH8, T_OP_PUSH_INT8, T_OP_GET_LOOP_VAR, T_OP_LOCAL_GET
<1>5. Emit(bytes) /\ UNCHANGED <<ctx, func_index, for_loop_level, symbols, tables>>
  BY DEF CompileInteger, bytes
<1>6. QED
  BY <1>2, <1>3, <1>4, <1>5, PlainKeepsLevels

LEMMA OneByteKeepsLevels ==
  ASSUME IInv, CodeInv, LevelsInv, NEW op \in {T_OP_POP, T_OP_DUPE, T_OP_EXIT, T_OP_RET},
         Emit(<<op>>), UNCHANGED <<ctx, func_index, for_loop_level, symbols, tables>>
  PROVE  LevelsInv'
<1>1. /\ ~is_t_jump(op) /\ t_instruction_size(op) = 1 /\ <<op>> \in Seq(Nat)
      /\ Len(<<op>>) = 1 /\ At(<<op>>, 0) = op
  BY SimpleSize
<1>2. OperandIn(<<op>>, 0, for_loop_level, Size)
  BY <1>1 DEF OperandIn, T_OP_PUSH8, T_OP_PUSH_INT8, T_OP_GET_LOOP_VAR, T_OP_LOCAL_GET,
     T_OP_POP, T_OP_DUPE, T_OP_EXIT, T_OP_RET
<1>3. QED
  BY <1>1, <1>2, PlainKeepsLevels

\* What write_u16 leaves of an operand is no more than the operand.
LEMMA U16Below ==
  ASSUME NEW v \in Nat
  PROVE  (v % ByteBase) + ByteBase * ((v \div ByteBase) % ByteBase) \in 0..v
<1> DEFINE b == ByteBase
           q == v \div ByteBase
           r == v % ByteBase
           m == q % ByteBase
           k == q \div ByteBase
<1>1. b \in Nat /\ b > 0
  BY ByteBaseAssumption
<1>2. q \in Int /\ r \in 0..(b - 1) /\ v = b * q + r
  BY DivMod
<1>3. q >= 0
  <2>1. SUFFICES ASSUME q <= -1 PROVE FALSE
    BY <1>2
  <2> HIDE DEF q, r, b
  <2>2. b * q <= -b
    BY <1>1, <1>2, <2>1
  <2>3. QED
    BY <1>1, <1>2, <2>2
<1>4. k \in Int /\ m \in 0..(b - 1) /\ q = b * k + m
  BY <1>2, DivMod
<1>5. k >= 0
  <2>1. SUFFICES ASSUME k <= -1 PROVE FALSE
    BY <1>4
  <2> HIDE DEF q, m, k, b
  <2>2. b * k <= -b
    BY <1>1, <1>4, <2>1
  <2>3. QED
    BY <1>1, <1>2, <1>3, <1>4, <2>2
<1>6. m <= q
  <2> HIDE DEF q, m, k, b
  <2>1. b * k >= 0
    BY <1>1, <1>4, <1>5
  <2>2. QED
    BY <1>1, <1>2, <1>4, <2>1
<1>7. r + b * m \in 0..v
  <2> HIDE DEF q, m, k, b, r
  <2>1. b * m >= 0 /\ b * m \in Int
    BY <1>1, <1>4
  <2>2. b * (q - m) >= 0
    BY <1>1, <1>2, <1>4, <1>6
  <2>3. b * (q - m) = b * q - b * m /\ b * q \in Int
    BY <1>1, <1>2, <1>4
  <2>4. b * m <= b * q
    BY <2>1, <2>2, <2>3
  <2>5. QED
    BY <1>1, <1>2, <2>1, <2>3, <2>4
<1>8. QED
  BY <1>7

LEMMA OperandBelow ==
  ASSUME NEW op \in Nat, NEW v \in Nat, NEW bytes, bytes = <<op>> \o U16(v)
  PROVE  read_u16(bytes, 0 + 1) \in 0..v
<1>1. U16(v) \in Seq(Nat) /\ Len(U16(v)) = 2
      /\ U16(v)[1] = v % ByteBase /\ U16(v)[2] = (v \div ByteBase) % ByteBase
  BY U16Bytes
<1>2. bytes[2] = U16(v)[1] /\ bytes[3] = U16(v)[2]
  BY <1>1
<1>3. read_u16(bytes, 0 + 1) = (v % ByteBase) + ByteBase * ((v \div ByteBase) % ByteBase)
  <2>1. At(bytes, 0 + 1) = bytes[2] /\ At(bytes, 0 + 1 + 1) = bytes[3]
    BY DEF At
  <2>2. QED
    BY <1>1, <1>2, <2>1 DEF read_u16
<1>4. QED
  BY <1>3, U16Below

LEMMA SymbolKeepsLevels ==
  ASSUME IInv, CodeInv, LevelsInv, NEW n \in Names, CompileSymbol(n)
  PROVE  LevelsInv'
<1> DEFINE s == symbols[n]
           bytes == SymbolCode(s)
<1>1. /\ s \in Symbols
      /\ s.arg \in Nat
      /\ for_loop_level \in Nat
      /\ s.kind \in {"loop_var", "func", "var"}
      /\ s.kind = "loop_var" => s.arg <= for_loop_level
      /\ s.kind = "var" => s.owner = func_index
  BY DEF IInv, TypeOK, CompileSymbol, SymbolRefused, Symbols
<1>2. /\ Emit(bytes)
      /\ UNCHANGED <<ctx, func_index, for_loop_level, symbols, tables>>
  BY DEF CompileSymbol
<1>3. SymbolInTable(s)
  BY DEF LevelsInv
<1>4. Size \in Nat
  BY LevelsHere
<1> HIDE DEF s
<1>5. /\ bytes \in Seq(Nat)
      /\ Len(bytes) = t_instruction_size(At(bytes, 0))
      /\ ~is_t_jump(At(bytes, 0))
      /\ OperandIn(bytes, 0, for_loop_level, Size)
  <2>1. CASE s.kind = "loop_var"
    <3> DEFINE v == for_loop_level - s.arg
    <3>1. v \in Nat /\ v \in Int /\ v < for_loop_level
      BY <1>1, <1>3, <2>1 DEF SymbolInTable
    <3> HIDE DEF v
    <3>2. bytes = <<T_OP_GET_LOOP_VAR>> \o U16(v)
      BY <2>1 DEF SymbolCode, v
    <3>3. /\ bytes \in Seq(Nat) /\ Len(bytes) = t_instruction_size(At(bytes, 0))
          /\ ~is_t_jump(At(bytes, 0)) /\ At(bytes, 0) = T_OP_GET_LOOP_VAR
      BY <3>1, <3>2, OperandSize
    <3>4. read_u16(bytes, 0 + 1) \in 0..v
      BY <3>1, <3>2, OperandBelow, OpcodeTypes
    <3>5. read_u16(bytes, 0 + 1) \in 0..(for_loop_level - 1)
      BY <1>1, <3>1, <3>4
    <3>6. OperandIn(bytes, 0, for_loop_level, Size)
      BY <3>3, <3>5 DEF OperandIn, T_OP_PUSH8, T_OP_PUSH_INT8, T_OP_GET_LOOP_VAR, T_OP_LOCAL_GET
    <3>7. QED
      BY <3>3, <3>6
  <2>2. CASE s.kind = "var"
    <3>1. bytes = <<T_OP_LOCAL_GET>> \o U16(s.arg)
      BY <2>2 DEF SymbolCode
    <3>2. s.arg \in Int /\ s.arg < Size
      BY <1>1, <1>3, <2>2 DEF SymbolInTable, Size
    <3>3. /\ bytes \in Seq(Nat) /\ Len(bytes) = t_instruction_size(At(bytes, 0))
          /\ ~is_t_jump(At(bytes, 0)) /\ At(bytes, 0) = T_OP_LOCAL_GET
      BY <3>1, <3>2, OperandSize
    <3>4. read_u16(bytes, 0 + 1) \in 0..s.arg
      BY <1>1, <3>1, OperandBelow, OpcodeTypes
    <3>5. read_u16(bytes, 0 + 1) \in 0..(Size - 1)
      BY <1>1, <1>4, <3>2, <3>4
    <3>6. OperandIn(bytes, 0, for_loop_level, Size)
      BY <3>3, <3>5 DEF OperandIn, T_OP_PUSH8, T_OP_PUSH_INT8, T_OP_GET_LOOP_VAR, T_OP_LOCAL_GET
    <3>7. QED
      BY <3>3, <3>6
  <2>3. CASE s.kind = "func"
    <3>1. bytes = <<T_OP_CALL8, s.arg>>
      BY <2>3 DEF SymbolCode
    <3>2. ~is_t_jump(T_OP_CALL8) /\ t_instruction_size(T_OP_CALL8) = 2 /\ T_OP_CALL8 \in Nat
      BY DEF is_t_jump, t_instruction_size, T_OP_CALL8, T_OP_PUSH8, T_OP_PUSH_INT8, T_OP_JUMP,
             T_OP_JUMP_COND, T_OP_JUMP_NCOND, T_OP_FOR_STARTS, T_OP_FOR_UPDATES,
             T_OP_FOR_DEC_START, T_OP_FOR_INC_START, T_OP_FOR_DEC, T_OP_FOR_INC,
             T_OP_GET_LOOP_VAR, T_OP_LOCAL_GET, T_OP_LOCAL_SET
    <3>3. bytes \in Seq(Nat) /\ Len(bytes) = 2 /\ At(bytes, 0) = T_OP_CALL8
      BY <1>1, <3>1, <3>2 DEF At
    <3>4. OperandIn(bytes, 0, for_loop_level, Size)
      BY <3>3 DEF OperandIn, T_OP_PUSH8, T_OP_PUSH_INT8, T_OP_GET_LOOP_VAR, T_OP_LOCAL_GET,
         T_OP_CALL8
    <3>5. QED
      BY <3>2, <3>3, <3>4
  <2>4. QED
    BY <1>1, <2>1, <2>2, <2>3
<1> HIDE DEF bytes
<1>6. QED
  BY <1>2, <1>5, PlainKeepsLevels

LEMMA AssignmentKeepsLevels ==
  ASSUME IInv, CodeInv, LevelsInv, NEW n \in VarNames, CompileAssignment(n)
  PROVE  LevelsInv'
<1> DEFINE v == symbols[n].arg
           bytes == <<T_OP_LOCAL_SET>> \o U16(v)
<1>1. v \in Int
  BY DEF IInv, TypeOK, Symbols, Names
<1>2. Emit(bytes) /\ UNCHANGED <<ctx, func_index, for_loop_level, symbols, tables>>
  BY DEF CompileAssignment
<1> HIDE DEF v
<1>3. /\ bytes \in Seq(Nat) /\ Len(bytes) = t_instruction_size(At(bytes, 0))
      /\ ~is_t_jump(At(bytes, 0)) /\ At(bytes, 0) = T_OP_LOCAL_SET
  BY <1>1, OperandSize
<1>4. OperandIn(bytes, 0, for_loop_level, Size)
  BY <1>3 DEF OperandIn, T_OP_PUSH8, T_OP_PUSH_INT8, T_OP_GET_LOOP_VAR, T_OP_LOCAL_GET,
     T_OP_LOCAL_SET
<1> HIDE DEF bytes
<1>5. QED
  BY <1>2, <1>3, <1>4, PlainKeepsLevels

\* The current function gets a variable.
LEMMA VarKeepsLevels ==
  ASSUME IInv, CodeInv, LevelsInv, NEW n \in VarNames, CompileVar(n)
  PROVE  LevelsInv'
<1> DEFINE vs == Append(locals[func_index + 1], IntType)
<1>1. /\ HasLevels(Block, Working, for_loop_level, Most, Size) /\ TypeOK
      /\ func_index \in Nat /\ func_index + 1 \in 1..Len(t_code) /\ Size \in Nat
      /\ Len(t_code) \in Nat /\ Len(locals) = Len(t_code)
  BY LevelsHere
<1>2. /\ locals \in Seq(Seq({IntType})) /\ locals[func_index + 1] \in Seq({IntType})
      /\ symbols \in [Names -> Symbols]
  BY <1>1, ElementOfSeq DEF TypeOK
<1>3. vs \in Seq({IntType}) /\ Len(vs) = Size + 1
  BY <1>2, AppendProperties DEF Size
<1> HIDE DEF vs
<1>4. /\ locals' = Replaced(locals, func_index + 1, vs)
      /\ symbols' = [symbols EXCEPT ![n] = Symbol("var", Size, func_index)]
      /\ UNCHANGED <<ctx, func_index, for_loop_level, t_code, max_for_loop_level>>
  BY DEF CompileVar, Replaced, vs, Size
<1>5. Wrote(locals, locals', func_index + 1, vs)
  BY <1>1, <1>2, <1>3, <1>4, WroteReplaced
<1>6. /\ Wrote(t_code, t_code', func_index + 1, Block)
      /\ Wrote(max_for_loop_level, max_for_loop_level', func_index + 1, Most)
  BY <1>4, WroteNothing DEF Block, Most
<1>7. HasLevels(Block, Working, for_loop_level', Most, Len(vs))
  <2>1. PICK L : /\ Levelled(Block, L, for_loop_level, Most, Size)
                 /\ \A frame \in Working : Held(frame, L)
    BY <1>1 DEF HasLevels
  <2>2. Size + 1 \in Nat /\ Size <= Size + 1
    BY <1>1
  <2>3. Levelled(Block, L, for_loop_level, Most, Size + 1)
    BY <1>1, <2>1, <2>2, LevelMore
  <2>4. QED
    BY <1>3, <1>4, <2>1, <2>3 DEF HasLevels
<1>8. FramesOf(ctx', func_index) = Working /\ \A f : FramesOf(ctx', f) = FramesOf(ctx, f)
  BY <1>4 DEF Working
<1>9. \A f \in 1..Len(t_code') : LevelsIn(f)'
  BY <1>4, <1>5, <1>6, <1>7, <1>8, LevelsWritten
<1>10. ASSUME NEW name \in Names PROVE SymbolInTable(symbols[name])'
  <2>1. ASSUME NEW s, SymbolInTable(s), s.kind = "var", s.arg \in Nat, s.owner \in Nat
        PROVE  s.owner < Len(locals') /\ s.arg < Len(locals'[s.owner + 1])
    <3>1. s.owner < Len(locals) /\ s.arg < Len(locals[s.owner + 1])
      BY <2>1 DEF SymbolInTable
    <3>2. Len(locals') = Len(locals)
      BY <1>5 DEF Wrote
    <3>3. CASE s.owner = func_index
      <4>1. locals'[s.owner + 1] = vs
        BY <1>5, <3>3 DEF Wrote
      <4>2. s.arg < Size
        BY <3>1, <3>3 DEF Size
      <4>3. QED
        BY <1>1, <1>3, <2>1, <3>1, <3>2, <4>1, <4>2
    <3>4. CASE s.owner # func_index
      <4>1. s.owner + 1 \in 1..Len(locals) /\ s.owner + 1 # func_index + 1
        BY <1>1, <2>1, <3>1, <3>4
      <4>2. locals'[s.owner + 1] = locals[s.owner + 1]
        BY <1>5, <4>1 DEF Wrote
      <4>3. QED
        BY <3>1, <3>2, <4>2
    <3>5. QED
      BY <3>3, <3>4
  <2>2. CASE name = n
    <3>1. symbols'[name] = Symbol("var", Size, func_index)
      BY <1>2, <1>4, <2>2
    <3>2. /\ symbols'[name].kind = "var" /\ symbols'[name].arg = Size
          /\ symbols'[name].owner = func_index
      BY <3>1 DEF Symbol
    <3>3. func_index < Len(locals') /\ Len(locals'[func_index + 1]) = Size + 1
      BY <1>1, <1>3, <1>5 DEF Wrote
    <3>4. QED
      BY <1>1, <3>2, <3>3 DEF SymbolInTable
  <2>3. CASE name # n
    <3>1. symbols'[name] = symbols[name]
      BY <1>2, <1>4, <2>3
    <3>2. SymbolInTable(symbols[name])
      BY DEF LevelsInv
    <3>3. symbols[name].arg \in Nat /\ symbols[name].owner \in Nat
      BY <1>2 DEF Symbols
    <3>4. QED
      BY <2>1, <3>1, <3>2, <3>3 DEF SymbolInTable
  <2>4. QED
    BY <2>2, <2>3
<1>11. QED
  BY <1>9, <1>10 DEF LevelsInv

-----------------------------------------------------------------------------
(* The levels when a construct is opened or goes on.                       *)

\* A construct is opened; only a loop variable may be bound.
LEMMA OpenKeepsLevels ==
  ASSUME IInv, CodeInv, LevelsInv, UNCHANGED <<func_index, for_loop_level, t_code, tables>>,
         \A n \in Names : SymbolInTable(symbols[n])',
         NEW g \in Frames, Enter(g), g.func = func_index, g.level = for_loop_level,
         Owed(g) = {}, Labels(g) \subseteq {Count}, SlotsOf(g) = 0, Proper(g)
  PROVE  LevelsInv'
<1>1. /\ HasLevels(Block, Working, for_loop_level, Most, Size) /\ TypeOK
      /\ for_loop_level \in Nat
  BY LevelsHere
<1>2. Pushed(ctx', ctx, g)
  BY <1>1, PushAppend DEF Enter, TypeOK
<1>3. \A f : FramesOf(ctx', f) = FramesOf(ctx, f) \cup (IF g.func = f THEN {g} ELSE {})
  BY <1>2, PushedFrames
<1>4. /\ FramesOf(ctx', func_index) = Working \cup {g}
      /\ \A f : f # func_index => FramesOf(ctx', f) = FramesOf(ctx, f)
  BY <1>3 DEF Working
<1>5. HasLevels(Block, Working \cup {g}, for_loop_level, Most, Size)
  <2>1. g.level + SlotsOf(g) = for_loop_level
    BY <1>1
  <2>2. QED
    BY <1>1, <2>1, LevelsPush DEF Count
<1>6. max_for_loop_level' = max_for_loop_level /\ locals' = locals /\ t_code' = t_code
  BY DEF tables
<1>7. /\ Wrote(t_code, t_code', func_index + 1, Block)
      /\ Wrote(max_for_loop_level, max_for_loop_level', func_index + 1, Most)
      /\ Wrote(locals, locals', func_index + 1, locals[func_index + 1])
  BY <1>6, WroteNothing DEF Block, Most
<1>8. \A f \in 1..Len(t_code') : LevelsIn(f)'
  BY <1>4, <1>5, <1>7, LevelsWritten DEF Size
<1>9. QED
  BY <1>8 DEF LevelsInv

LEMMA SymbolsStay ==
  ASSUME LevelsInv, UNCHANGED <<symbols, tables>>
  PROVE  \A n \in Names : SymbolInTable(symbols[n])'
<1>1. UNCHANGED locals
  BY DEF tables
<1>2. QED
  BY <1>1 DEF LevelsInv, SymbolInTable

LEMMA IfKeepsLevels ==
  ASSUME IInv, CodeInv, LevelsInv, CompileIf
  PROVE  LevelsInv'
<1> DEFINE g == Frame("if_cond", 0, 0)
<1>1. g \in Frames /\ g.kind = "if_cond" /\ g.func = func_index /\ g.level = for_loop_level
  BY FrameFields DEF IInv, Kinds
<1>2. /\ Enter(g)
      /\ UNCHANGED <<func_index, for_loop_level, symbols, t_code, tables>>
  BY DEF CompileIf
<1> HIDE DEF g
<1>3. Owed(g) = {} /\ Labels(g) = {} /\ SlotsOf(g) = 0 /\ Proper(g)
  BY <1>1 DEF Owed, Labels, SlotsOf, Proper
<1>4. QED
  BY <1>1, <1>2, <1>3, SymbolsStay, OpenKeepsLevels

LEMMA WhileKeepsLevels ==
  ASSUME IInv, CodeInv, LevelsInv, CompileWhile
  PROVE  LevelsInv'
<1> DEFINE g == Frame("while_cond", Count, 0)
<1>1. Count \in Nat
  BY Current
<1>2. /\ g \in Frames /\ g.kind = "while_cond" /\ g.func = func_index
      /\ g.level = for_loop_level /\ g.start = Count
  BY <1>1, FrameFields, FrameOperands DEF IInv, Kinds
<1>3. /\ Enter(g)
      /\ UNCHANGED <<func_index, for_loop_level, symbols, t_code, tables>>
  BY DEF CompileWhile
<1> HIDE DEF g
<1>4. Owed(g) = {} /\ Labels(g) = {Count} /\ SlotsOf(g) = 0 /\ Proper(g)
  BY <1>2 DEF Owed, Labels, SlotsOf, Proper
<1>5. QED
  BY <1>2, <1>3, <1>4, SymbolsStay, OpenKeepsLevels

LEMMA ForOpensLevels ==
  ASSUME IInv, CodeInv, LevelsInv, UNCHANGED <<func_index, for_loop_level, t_code, tables>>,
         \A n \in Names : SymbolInTable(symbols[n])',
         NEW name \in Names \cup {NoName}, NEW slots \in {1, 2}, Enter(ForFrame(name, slots))
  PROVE  LevelsInv'
<1> DEFINE g == ForFrame(name, slots)
<1>1. g \in Frames /\ g.kind = "for_count" /\ g.func = func_index /\ g.level = for_loop_level
  BY ForFrameFields DEF IInv
<1>2. g.slots = slots
  BY DEF ForFrame, Frame
<1>3. Enter(g)
  OBVIOUS
<1> HIDE DEF g
<1>4. Owed(g) = {} /\ Labels(g) = {} /\ SlotsOf(g) = 0 /\ Proper(g)
  BY <1>1, <1>2 DEF Owed, Labels, SlotsOf, Proper
<1>5. QED
  BY <1>1, <1>3, <1>4, OpenKeepsLevels

LEMMA ForKeepsLevels ==
  ASSUME IInv, CodeInv, LevelsInv, CompileFor
  PROVE  LevelsInv'
<1>1. /\ Enter(ForFrame(NoName, 1))
      /\ UNCHANGED <<func_index, for_loop_level, symbols, t_code, tables>>
  BY DEF CompileFor
<1>2. NoName \in Names \cup {NoName} /\ 1 \in {1, 2}
  OBVIOUS
<1>3. QED
  BY <1>1, <1>2, SymbolsStay, ForOpensLevels

LEMMA ForVarKeepsLevels ==
  ASSUME IInv, CodeInv, LevelsInv, NEW n \in LoopNames, NEW slots \in {1, 2},
         CompileForVar(n, slots)
  PROVE  LevelsInv'
<1>1. /\ Enter(ForFrame(n, slots))
      /\ symbols' = [symbols EXCEPT ![n] = Symbol("loop_var", for_loop_level + slots, 0)]
      /\ UNCHANGED <<func_index, for_loop_level, t_code, tables>>
  BY DEF CompileForVar
<1>2. n \in Names \cup {NoName}
  BY DEF Names
<1>3. symbols \in [Names -> Symbols] /\ for_loop_level \in Nat
  BY DEF IInv, TypeOK
<1>4. UNCHANGED locals
  BY <1>1 DEF tables
<1>5. ASSUME NEW name \in Names PROVE SymbolInTable(symbols[name])'
  <2>1. CASE name = n
    <3>1. symbols'[name] = Symbol("loop_var", for_loop_level + slots, 0)
      BY <1>1, <1>3, <2>1
    <3>2. symbols'[name].kind = "loop_var" /\ symbols'[name].arg >= 1
      BY <1>3, <3>1 DEF Symbol
    <3>3. QED
      BY <3>2 DEF SymbolInTable
  <2>2. CASE name # n
    <3>1. symbols'[name] = symbols[name]
      BY <1>1, <1>3, <2>2
    <3>2. SymbolInTable(symbols[name])
      BY DEF LevelsInv
    <3>3. QED
      BY <1>4, <3>1, <3>2 DEF SymbolInTable
  <2>3. QED
    BY <2>1, <2>2
<1>6. QED
  BY <1>1, <1>2, <1>5, ForOpensLevels

\* What the construct that is innermost holds.
LEMMA LevelsInnermost ==
  ASSUME IInv, CodeInv, LevelsInv, NEW kinds, In(kinds), "func" \notin kinds
  PROVE  /\ HasLevels(Block, Around \cup {Top}, for_loop_level, Most, Size)
         /\ BlockOK(Block, Around \cup {Top}, Here)
         /\ Top \in Frames /\ Top.kind \in kinds /\ Top.func = func_index
         /\ Top.level \in Nat /\ SlotsOf(Top) \in Nat
         /\ for_loop_level = Top.level + SlotsOf(Top)
         /\ Proper(Top)
<1>1. HasLevels(Block, Working, for_loop_level, Most, Size)
  BY LevelsHere
<1>2. /\ Top \in Frames /\ Top.kind \in kinds /\ Top.func = func_index
      /\ Working = Around \cup {Top}
      /\ BlockOK(Block, Around \cup {Top}, Here)
  BY Innermost
<1>3. for_loop_level = Top.level + SlotsOf(Top)
  BY InnermostConstruct
<1>4. SlotsOf(Top) \in Nat /\ Top.level \in Nat
  BY <1>2, FrameType DEF Frames
<1>5. Proper(Top)
  BY <1>1, <1>2 DEF HasLevels, Held
<1>6. QED
  BY <1>1, <1>2, <1>3, <1>4, <1>5

\* A placeholder jump is emitted for the innermost construct, which becomes g.
LEMMA OweHasLevels ==
  ASSUME IInv, CodeInv, LevelsInv, NEW kinds, In(kinds), "func" \notin kinds,
         NEW op \in Nat, is_t_jump(op), SlotsOf(Top) = 0,
         NEW g, Owed(g) = Owed(Top) \cup {Count},
         Labels(g) \subseteq Labels(Top) \cup {Count + 3},
         Proper(g), g.level = Top.level, Labels(Top) # {} => SlotsOf(g) = 0,
         NEW end2 \in Nat, Goes(op, for_loop_level, end2), g.level + SlotsOf(g) = end2,
         NEW most2 \in Nat, Most <= most2, end2 <= most2
  PROVE  HasLevels(Block \o (<<op>> \o U16(0)), Around \cup {g}, end2, most2, Size)
<1>1. /\ HasLevels(Block, Around \cup {Top}, for_loop_level, Most, Size)
      /\ BlockOK(Block, Around \cup {Top}, Here)
      /\ Top.level \in Nat /\ for_loop_level = Top.level + SlotsOf(Top)
  BY LevelsInnermost
<1>2. Most \in Nat
  BY LevelsHere
<1>3. Top.level = for_loop_level
  BY <1>1
<1>4. Appended(Block, <<op>> \o U16(0), Block \o (<<op>> \o U16(0)))
  BY DEF Appended
<1>5. Owed(g) = Owed(Top) \cup {Len(Block)}
      /\ Labels(g) \subseteq Labels(Top) \cup {Len(Block) + 3}
  BY DEF Count
<1>6. ASSUME NEW longer, Appended(Block, <<op>> \o U16(0), longer)
      PROVE  HasLevels(longer, Around \cup {g}, end2, most2, Size)
  BY <1>1, <1>2, <1>3, <1>5, <1>6, LevelsOwe
<1>7. QED
  BY <1>4, <1>6

\* The stack of constructs when the innermost one has become g.
LEMMA FramesReplaced ==
  ASSUME IInv, CodeInv, NEW kinds, In(kinds), "func" \notin kinds,
         NEW g \in Frames, g.func = func_index, NEW c, c = [ctx EXCEPT ![Len(ctx)] = g]
  PROVE  /\ FramesOf(c, func_index) = Around \cup {g}
         /\ \A f : f # func_index => FramesOf(c, f) = FramesOf(ctx, f)
<1>1. /\ ctx \in Seq(Frames)
      /\ ctx # <<>>
      /\ \A f : f # func_index => FramesOf(ctx, f) = FramesOf(Outer, f)
  BY Innermost
<1>2. Pushed(c, Outer, g)
  BY <1>1, PushOther DEF Outer
<1>3. \A f : FramesOf(c, f) = FramesOf(Outer, f) \cup (IF g.func = f THEN {g} ELSE {})
  BY <1>2, PushedFrames
<1>4. FramesOf(c, func_index) = Around \cup {g}
  BY <1>3, Zenon DEF Around
<1>5. ASSUME NEW f, f # func_index PROVE FramesOf(c, f) = FramesOf(ctx, f)
  <2>1. FramesOf(c, f) = FramesOf(Outer, f)
    BY <1>3, <1>5
  <2>2. QED
    BY <1>1, <1>5, <2>1, Zenon
<1>6. QED
  BY <1>4, <1>5

\* A step that does no more than that.
LEMMA OweKeepsLevels ==
  ASSUME IInv, CodeInv, LevelsInv, UNCHANGED <<func_index, for_loop_level, symbols, tables>>,
         NEW kinds, In(kinds), "func" \notin kinds,
         NEW op \in {T_OP_JUMP, T_OP_JUMP_NCOND}, Emit(<<op>> \o U16(0)), SlotsOf(Top) = 0,
         NEW g \in Frames, g.func = func_index, Owed(g) = Owed(Top) \cup {Count},
         Labels(g) \subseteq Labels(Top) \cup {Count + 3},
         Proper(g), g.level = Top.level, SlotsOf(g) = 0,
         ctx' = [ctx EXCEPT ![Len(ctx)] = g]
  PROVE  LevelsInv'
<1>1. op \in Nat /\ is_t_jump(op)
  BY JumpOps
<1>2. /\ for_loop_level \in Nat /\ Most \in Nat /\ for_loop_level <= Most /\ TypeOK
  BY LevelsHere
<1>3. Goes(op, for_loop_level, for_loop_level)
  <2>1. SlotsOpened(op) = 0
    BY DEF SlotsOpened, T_OP_JUMP, T_OP_JUMP_NCOND, T_OP_FOR_DEC_START, T_OP_FOR_INC_START,
       T_OP_FOR_DEC, T_OP_FOR_INC
  <2>2. QED
    BY <1>2, <2>1 DEF Goes
<1>4. Top.level = for_loop_level /\ Most <= Most
  BY <1>2, LevelsInnermost
<1>5. g.level + SlotsOf(g) = for_loop_level
  BY <1>2, <1>4
<1>6. HasLevels(Block \o (<<op>> \o U16(0)), Around \cup {g}, for_loop_level, Most, Size)
  BY <1>1, <1>2, <1>3, <1>4, <1>5, OweHasLevels
<1>7. Wrote(t_code, t_code', func_index + 1, Block \o (<<op>> \o U16(0)))
  BY <1>1, <1>2, OweWrites
<1>8. /\ FramesOf(ctx', func_index) = Around \cup {g}
      /\ \A f : f # func_index => FramesOf(ctx', f) = FramesOf(ctx, f)
  BY FramesReplaced
<1>9. QED
  BY <1>6, <1>7, <1>8, LevelsWrittenCode

LEMMA NextPartLevel ==
  ASSUME Top \in Frames, NEW kind \in Kinds, NEW start \in Nat, NEW body \in Nat,
         NEW g, g = NextPart(kind, start, body)
  PROVE  g.level = Top.level
BY DEF NextPart, Frames

LEMMA ThenKeepsLevels ==
  ASSUME IInv, CodeInv, LevelsInv, ConditionalThen
  PROVE  LevelsInv'
<1> DEFINE op == T_OP_JUMP_NCOND
           g == NextPart("then", Count, 0)
<1>1. Count \in Nat
  BY Current
<1>2. /\ In({"if_cond"}) /\ "func" \notin {"if_cond"}
      /\ Emit(<<op>> \o U16(0))
      /\ Become("then", Count, 0)
      /\ UNCHANGED <<func_index, for_loop_level, symbols, tables>>
  BY DEF ConditionalThen
<1>3. Top \in Frames /\ Top.kind = "if_cond" /\ Top.func = func_index
  BY <1>2, Innermost
<1>4. ctx' = [ctx EXCEPT ![Len(ctx)] = g]
  BY <1>2, BecomeIs
<1>5. "then" \in Kinds /\ 0 \in Nat
  BY DEF Kinds
<1>6. g \in Frames /\ g.kind = "then" /\ g.start = Count /\ g.func = func_index
  BY <1>1, <1>3, <1>5, NextPartFields
<1>7. g.level = Top.level
  BY <1>1, <1>3, <1>5, NextPartLevel
<1> HIDE DEF g
<1>8. Owed(g) = Owed(Top) \cup {Count} /\ Labels(g) = {}
  BY <1>3, <1>6 DEF Owed, Labels
<1>9. SlotsOf(Top) = 0 /\ SlotsOf(g) = 0 /\ Proper(g)
  BY <1>3, <1>6 DEF SlotsOf, Proper
<1>10. op \in {T_OP_JUMP, T_OP_JUMP_NCOND} /\ Labels(g) \subseteq Labels(Top) \cup {Count + 3}
  BY <1>8
<1> HIDE DEF op
<1>11. QED
  BY <1>2, <1>4, <1>6, <1>7, <1>8, <1>9, <1>10, OweKeepsLevels

LEMMA WhileDoKeepsLevels ==
  ASSUME IInv, CodeInv, LevelsInv, WhileDo
  PROVE  LevelsInv'
<1> DEFINE op == T_OP_JUMP_NCOND
           g == NextPart("while_body", Top.start, Count)
<1>1. Count \in Nat
  BY Current
<1>2. /\ In({"while_cond"}) /\ "func" \notin {"while_cond"}
      /\ Emit(<<op>> \o U16(0))
      /\ Become("while_body", Top.start, Count)
      /\ UNCHANGED <<func_index, for_loop_level, symbols, tables>>
  BY DEF WhileDo
<1>3. Top \in Frames /\ Top.kind = "while_cond" /\ Top.func = func_index
  BY <1>2, Innermost
<1>4. ctx' = [ctx EXCEPT ![Len(ctx)] = g]
  BY <1>2, BecomeIs
<1>5. "while_body" \in Kinds /\ Top.start \in Nat
  BY <1>3 DEF Kinds, Frames
<1>6. /\ g \in Frames /\ g.kind = "while_body" /\ g.start = Top.start /\ g.body = Count
      /\ g.func = func_index
  BY <1>1, <1>3, <1>5, NextPartFields, SMTT(40)
<1>7. g.level = Top.level
  BY <1>1, <1>3, <1>5, NextPartLevel
<1> HIDE DEF g
<1>8. /\ Owed(g) = Owed(Top) \cup {Count} /\ Labels(g) = {Top.start}
      /\ Labels(Top) = {Top.start}
  BY <1>3, <1>6 DEF Owed, Labels
<1>9. SlotsOf(Top) = 0 /\ SlotsOf(g) = 0 /\ Proper(g)
  BY <1>3, <1>6 DEF SlotsOf, Proper
<1>10. op \in {T_OP_JUMP, T_OP_JUMP_NCOND} /\ Labels(g) \subseteq Labels(Top) \cup {Count + 3}
  BY <1>8
<1> HIDE DEF op
<1>11. QED
  BY <1>2, <1>4, <1>6, <1>7, <1>8, <1>9, <1>10, OweKeepsLevels

\* The part of a conditional after an `else' or an `elif'.
LEMMA OtherLevels ==
  ASSUME IInv, CodeInv, LevelsInv, In({"then"}), NEW kind \in {"else", "elif"},
         NEW g, g = NextPart(kind, Top.start, Count + 3)
  PROVE  /\ g \in Frames /\ g.func = func_index
         /\ Owed(g) = Owed(Top) \cup {Count}
         /\ Labels(g) \subseteq Labels(Top) \cup {Count + 3}
         /\ SlotsOf(Top) = 0 /\ SlotsOf(g) = 0 /\ Proper(g)
         /\ g.level = Top.level
<1>1. Count \in Nat
  BY Current
<1>2. Top \in Frames /\ Top.kind = "then"
  <2>1. "func" \notin {"then"}
    OBVIOUS
  <2>2. QED
    BY <2>1, Innermost
<1>3. Top.start \in Nat /\ kind \in Kinds /\ Count + 3 \in Nat
  BY <1>1, <1>2 DEF Frames, Kinds
<1>4. g.kind = kind
  BY <1>2, <1>3, NextPartFields
<1>5. g.level = Top.level
  BY <1>2, <1>3, NextPartLevel
<1>6. /\ g \in Frames /\ g.func = func_index
      /\ Owed(g) = Owed(Top) \cup {Count}
      /\ Labels(g) \subseteq Labels(Top) \cup {Count + 3}
  BY OtherPart
<1>7. SlotsOf(Top) = 0 /\ SlotsOf(g) = 0 /\ Proper(g)
  BY <1>2, <1>4 DEF SlotsOf, Proper
<1>8. QED
  BY <1>5, <1>6, <1>7

LEMMA ElseKeepsLevels ==
  ASSUME IInv, CodeInv, LevelsInv, ConditionalElse
  PROVE  LevelsInv'
<1> DEFINE op == T_OP_JUMP
           g == NextPart("else", Top.start, Count + 3)
<1>1. /\ In({"then"}) /\ "func" \notin {"then"}
      /\ Emit(<<op>> \o U16(0))
      /\ Become("else", Top.start, Count + 3)
      /\ UNCHANGED <<func_index, for_loop_level, symbols, tables>>
  BY DEF ConditionalElse
<1>2. ctx' = [ctx EXCEPT ![Len(ctx)] = g]
  BY <1>1, BecomeIs
<1>3. /\ g \in Frames /\ g.func = func_index
      /\ Owed(g) = Owed(Top) \cup {Count}
      /\ Labels(g) \subseteq Labels(Top) \cup {Count + 3}
      /\ SlotsOf(Top) = 0 /\ SlotsOf(g) = 0 /\ Proper(g)
      /\ g.level = Top.level
  BY <1>1, OtherLevels
<1>4. op \in {T_OP_JUMP, T_OP_JUMP_NCOND}
  OBVIOUS
<1> HIDE DEF g, op
<1>5. QED
  BY <1>1, <1>2, <1>3, <1>4, OweKeepsLevels

LEMMA ElifKeepsLevels ==
  ASSUME IInv, CodeInv, LevelsInv, ConditionalElif
  PROVE  LevelsInv'
<1> DEFINE op == T_OP_JUMP
           longer == Block \o (<<op>> \o U16(0))
           g == NextPart("elif", Top.start, Count + 3)
           c == [ctx EXCEPT ![Len(ctx)] = g]
           inner == Frame("if_cond", 0, 0)
<1>1. /\ In({"then"}) /\ "func" \notin {"then"}
      /\ Emit(<<op>> \o U16(0))
      /\ UNCHANGED <<func_index, for_loop_level, symbols, tables>>
  BY DEF ConditionalElif
<1>2. Top \in Frames /\ ctx \in Seq(Frames)
  BY <1>1, Innermost
<1>3. ctx' = Append(c, inner)
  <2>1. [Top EXCEPT !.kind = "elif", !.body = Count + 3] = g
    BY <1>2 DEF NextPart, Frames
  <2>2. ctx' = Append([ctx EXCEPT ![Len(ctx)] = [Top EXCEPT !.kind = "elif", !.body = Count + 3]],
                      inner)
    BY DEF ConditionalElif, Top
  <2>3. QED
    BY <2>1, <2>2
<1>4. /\ g \in Frames /\ g.func = func_index
      /\ Owed(g) = Owed(Top) \cup {Count}
      /\ Labels(g) \subseteq Labels(Top) \cup {Count + 3}
      /\ SlotsOf(Top) = 0 /\ SlotsOf(g) = 0 /\ Proper(g)
      /\ g.level = Top.level
  BY <1>1, OtherLevels
<1>5. op \in Nat /\ is_t_jump(op) /\ SlotsOpened(op) = 0
  <2>1. SlotsOpened(op) = 0
    BY DEF SlotsOpened, T_OP_JUMP, T_OP_JUMP_NCOND, T_OP_FOR_DEC_START, T_OP_FOR_INC_START,
       T_OP_FOR_DEC, T_OP_FOR_INC
  <2>2. QED
    BY <2>1, JumpOps
<1>6. for_loop_level \in Nat /\ Most \in Nat /\ for_loop_level <= Most /\ TypeOK
  BY LevelsHere
<1>7. Wrote(t_code, t_code', func_index + 1, longer)
  BY <1>1, <1>5, <1>6, OweWrites
<1>8. Goes(op, for_loop_level, for_loop_level)
  BY <1>5, <1>6 DEF Goes
<1> HIDE DEF g, op
<1>9. Top.level = for_loop_level /\ Most <= Most
  BY <1>1, <1>4, <1>6, LevelsInnermost
<1>10. g.level + SlotsOf(g) = for_loop_level
  BY <1>4, <1>6, <1>9
<1>11. HasLevels(longer, Around \cup {g}, for_loop_level, Most, Size)
  BY <1>1, <1>4, <1>5, <1>6, <1>8, <1>9, <1>10, OweHasLevels
<1>12. /\ FramesOf(c, func_index) = Around \cup {g}
       /\ \A f : f # func_index => FramesOf(c, f) = FramesOf(ctx, f)
  BY <1>1, <1>4, FramesReplaced
<1>13. c \in Seq(Frames)
  <2>1. Len(ctx) \in 1..Len(ctx)
    BY <1>1, <1>2, Innermost, EmptySeq
  <2>2. QED
    BY <1>2, <1>4, <2>1, ExceptSeq
<1>14. /\ inner \in Frames /\ inner.kind = "if_cond" /\ inner.func = func_index
       /\ inner.level = for_loop_level
  BY FrameFields DEF IInv, Kinds
<1> HIDE DEF c, longer, inner
<1>15. Owed(inner) = {} /\ Labels(inner) = {} /\ SlotsOf(inner) = 0 /\ Proper(inner)
  BY <1>14 DEF Owed, Labels, SlotsOf, Proper
<1>16. inner.level + SlotsOf(inner) = for_loop_level
  BY <1>6, <1>14, <1>15
<1>17. HasLevels(longer, (Around \cup {g}) \cup {inner}, for_loop_level, Most, Size)
  BY <1>11, <1>15, <1>16, LevelsPush
<1>18. Pushed(ctx', c, inner)
  BY <1>3, <1>13, <1>14, PushAppend
<1>19. \A f : FramesOf(ctx', f) = FramesOf(c, f) \cup (IF inner.func = f THEN {inner} ELSE {})
  BY <1>18, PushedFrames
<1>20. /\ FramesOf(ctx', func_index) = (Around \cup {g}) \cup {inner}
       /\ \A f : f # func_index => FramesOf(ctx', f) = FramesOf(ctx, f)
  <2>1. FramesOf(ctx', func_index) = (Around \cup {g}) \cup {inner}
    BY <1>12, <1>14, <1>19
  <2>2. ASSUME NEW f, f # func_index PROVE FramesOf(ctx', f) = FramesOf(ctx, f)
    <3>1. FramesOf(ctx', f) = FramesOf(c, f)
      BY <1>14, <1>19, <2>2
    <3>2. QED
      BY <1>12, <2>2, <3>1, Zenon
  <2>3. QED
    BY <2>1, <2>2
<1>21. QED
  BY <1>1, <1>7, <1>17, <1>20, LevelsWrittenCode

LEMMA ForDoKeepsLevels ==
  ASSUME IInv, CodeInv, LevelsInv, ForDo
  PROVE  LevelsInv'
<1> DEFINE op == IF Top.slots = 1 THEN T_OP_FOR_DEC_START ELSE T_OP_FOR_INC_START
           longer == Block \o (<<op>> \o U16(0))
           g == NextPart("for_body", Count, Count + 3)
           level == for_loop_level + Top.slots
           most == IF level > Most THEN level ELSE Most
<1>1. /\ In({"for_count"}) /\ "func" \notin {"for_count"}
      /\ Emit(<<op>> \o U16(0))
      /\ Become("for_body", Count, Count + 3)
      /\ for_loop_level' = level
      /\ max_for_loop_level' = Replaced(max_for_loop_level, func_index + 1, most)
      /\ UNCHANGED <<func_index, symbols, locals>>
  BY DEF ForDo, Replaced, Most
<1>2. Count \in Nat
  BY Current
<1>3. /\ Top \in Frames /\ Top.kind = "for_count" /\ Top.func = func_index /\ Proper(Top)
      /\ Top.level \in Nat /\ for_loop_level = Top.level + SlotsOf(Top)
  BY <1>1, LevelsInnermost
<1>4. Top.slots \in {1, 2} /\ SlotsOf(Top) = 0 /\ Top.level = for_loop_level
  BY <1>3 DEF Proper, SlotsOf
<1>5. ctx' = [ctx EXCEPT ![Len(ctx)] = g]
  BY <1>1, BecomeIs
<1>6. "for_body" \in Kinds /\ Count + 3 \in Nat
  BY <1>2 DEF Kinds
<1>7. /\ g \in Frames /\ g.kind = "for_body" /\ g.start = Count /\ g.body = Count + 3
      /\ g.func = func_index /\ g.slots = Top.slots
  BY <1>2, <1>3, <1>6, NextPartFields
<1>8. g.level = Top.level
  BY <1>2, <1>3, <1>6, NextPartLevel
<1> HIDE DEF g
<1>9. Owed(g) = Owed(Top) \cup {Count} /\ Labels(g) = {Count + 3} /\ Labels(Top) = {}
  BY <1>3, <1>7 DEF Owed, Labels
<1>10. SlotsOf(g) = Top.slots /\ Proper(g)
  BY <1>4, <1>7 DEF SlotsOf, Proper
<1>11. /\ for_loop_level \in Nat /\ Most \in Nat /\ for_loop_level <= Most /\ TypeOK
       /\ func_index + 1 \in 1..Len(t_code) /\ Len(max_for_loop_level) = Len(t_code)
  BY LevelsHere
<1>12. op \in Nat /\ is_t_jump(op)
  BY JumpOps
<1>13. Goes(op, for_loop_level, level)
  BY <1>4, <1>11 DEF Goes, SlotsOpened, T_OP_FOR_DEC_START, T_OP_FOR_INC_START, T_OP_FOR_DEC,
     T_OP_FOR_INC
<1>14. level \in Nat /\ g.level + SlotsOf(g) = level
  BY <1>4, <1>8, <1>10, <1>11
<1>15. most \in Nat /\ Most <= most /\ level <= most
  BY <1>11, <1>14
<1>16. Wrote(t_code, t_code', func_index + 1, longer)
  BY <1>1, <1>11, <1>12, OweWrites
<1> HIDE DEF op, level, most
<1>17. HasLevels(longer, Around \cup {g}, level, most, Size)
  <2>1. /\ Labels(g) \subseteq Labels(Top) \cup {Count + 3}
        /\ Labels(Top) # {} => SlotsOf(g) = 0
    BY <1>9
  <2>2. QED
    BY <1>1, <1>4, <1>8, <1>9, <1>10, <1>12, <1>13, <1>14, <1>15, <2>1, OweHasLevels
<1> HIDE DEF longer
<1>18. Wrote(max_for_loop_level, max_for_loop_level', func_index + 1, most)
  <2>1. max_for_loop_level \in Seq(Nat)
    BY <1>11 DEF TypeOK
  <2>2. QED
    BY <1>1, <1>11, <1>15, <2>1, WroteReplaced
<1>19. Wrote(locals, locals', func_index + 1, locals[func_index + 1])
  BY <1>1, WroteNothing
<1>20. /\ FramesOf(ctx', func_index) = Around \cup {g}
       /\ \A f : f # func_index => FramesOf(ctx', f) = FramesOf(ctx, f)
  BY <1>1, <1>5, <1>7, FramesReplaced
<1>21. \A f \in 1..Len(t_code') : LevelsIn(f)'
  BY <1>1, <1>16, <1>17, <1>18, <1>19, <1>20, LevelsWritten DEF Size
<1>22. \A n \in Names : SymbolInTable(symbols[n])'
  BY <1>1 DEF LevelsInv, SymbolInTable
<1>23. QED
  BY <1>21, <1>22 DEF LevelsInv

-----------------------------------------------------------------------------
(* The levels when a construct is closed.                                  *)

\* The end of compile_conditional.
LEMMA CloseKeepsLevels ==
  ASSUME IInv, CodeInv, LevelsInv, In({"then", "else", "elif"}),
         NEW else_start,
         Top.kind = "then" => else_start = Count,
         Top.kind # "then" => else_start = Top.body /\ else_start < Count,
         CloseConditional(Top.start, else_start, Count)
  PROVE  LevelsInv'
<1> DEFINE closed == IF else_start = Count THEN PatchTo(Block, Top.start, else_start)
                     ELSE ClosedAt(Block, Top.start, else_start)
           done == /\ Fits(Top.start, else_start)
                   /\ else_start = Count \/ Fits(else_start - 3, Count)
<1>1. CASE ~done
  <2>1. Fail
    BY <1>1 DEF CloseConditional, Fail, Fits
  <2>2. QED
    BY <2>1, FailKeepsLevels
<1>2. CASE done
  <2>1. /\ SetBlock(closed)
        /\ Leave
        /\ UNCHANGED <<func_index, for_loop_level, symbols, tables>>
    <3>1. InS16(else_start - Top.start - 1)
          /\ (else_start = Count \/ InS16(Count - (else_start - 3) - 1))
      BY <1>2 DEF Fits
    <3>2. closed = IF else_start = Count
                   THEN Patched(Block, Top.start, else_start - Top.start - 1)
                   ELSE Patched(Patched(Block, Top.start, else_start - Top.start - 1),
                                else_start - 3, Count - (else_start - 3) - 1)
      BY DEF PatchTo, ClosedAt, Count
    <3>3. QED
      BY <3>1, <3>2 DEF CloseConditional
  <2>2. closed \in Seq(Nat)
    BY <1>2, ClosedCode, ZenonT(60)
  <2>3. TypeOK /\ for_loop_level \in Nat
    BY LevelsHere
  <2>4. "func" \notin {"then", "else", "elif"}
    OBVIOUS
  <2>5. /\ HasLevels(Block, Around \cup {Top}, for_loop_level, Most, Size)
        /\ BlockOK(Block, Around \cup {Top}, Here)
        /\ Top \in Frames /\ Top.kind \in {"then", "else", "elif"}
        /\ Top.level \in Nat /\ for_loop_level = Top.level + SlotsOf(Top)
    BY <2>4, LevelsInnermost
  <2>6. Top.level = for_loop_level
    <3>1. SlotsOf(Top) = 0
      BY <2>5 DEF SlotsOf
    <3>2. QED
      BY <2>5, <3>1
  <2>7. HasLevels(closed, Around, for_loop_level, Most, Size)
    <3>1. CASE Top.kind = "then"
      <4>1. else_start = Len(Block) /\ Fits(Top.start, Len(Block))
        BY <1>2, <3>1 DEF Count
      <4>2. closed = PatchTo(Block, Top.start, Len(Block))
        BY <4>1 DEF Count
      <4>3. HasLevels(PatchTo(Block, Top.start, Len(Block)), Around, for_loop_level, Most, Size)
        BY <2>5, <2>6, <3>1, <4>1, LevelsEndThen
      <4>4. QED
        BY <4>2, <4>3
    <3>2. CASE Top.kind # "then"
      <4>1. /\ Top.kind \in {"else", "elif"} /\ else_start = Top.body /\ else_start # Count
            /\ Count = Len(Block)
        <5>1. Top.body \in Nat /\ Count \in Nat
          BY <2>5, Current DEF Frames
        <5>2. QED
          BY <2>5, <3>2, <5>1 DEF Count
      <4>2. Fits(Top.start, Top.body) /\ Fits(Top.body - 3, Len(Block))
        BY <1>2, <4>1
      <4>3. closed = ClosedAt(Block, Top.start, Top.body)
        BY <4>1
      <4>4. HasLevels(ClosedAt(Block, Top.start, Top.body), Around, for_loop_level, Most, Size)
        BY <2>3, <2>5, <2>6, <4>1, <4>2, LevelsEndElse
      <4>5. QED
        BY <4>3, <4>4
    <3>3. QED
      BY <3>1, <3>2
  <2> HIDE DEF closed
  <2>8. Wrote(t_code, t_code', func_index + 1, closed)
    BY <2>1, <2>2, <2>3, SetWrites
  <2>9. /\ FramesOf(ctx', func_index) = Around
        /\ \A f : f # func_index => FramesOf(ctx', f) = FramesOf(ctx, f)
    <3>1. ctx' = Outer
      BY <2>1 DEF Leave, Outer
    <3>2. QED
      BY <2>4, <3>1, Innermost DEF Around
  <2>10. QED
    BY <2>1, <2>7, <2>8, <2>9, LevelsWrittenCode
<1>3. QED
  BY <1>1, <1>2

LEMMA EndKeepsLevels ==
  ASSUME IInv, CodeInv, LevelsInv, "empty_else" \notin Oddities, ConditionalEnd
  PROVE  LevelsInv'
<1> DEFINE else_start == IF Top.kind = "then" THEN Count ELSE Top.body
<1>1. /\ In({"then", "else"})
      /\ Top.kind = "else" => Top.body # Count
      /\ CloseConditional(Top.start, else_start, Count)
  BY DEF ConditionalEnd
<1>2. /\ Top \in Frames
      /\ Top.kind \in {"then", "else"}
      /\ BlockOK(Block, Around \cup {Top}, Here)
      /\ Above(Around, Top)
  <2>1. "func" \notin {"then", "else"}
    OBVIOUS
  <2>2. QED
    BY <1>1, <2>1, Innermost
<1>3. In({"then", "else", "elif"})
  BY <1>1 DEF In
<1>4. Top.kind # "then" => Top.body < Count
  <2>1. ASSUME Top.kind = "else" PROVE Top.body <= Count
    <3>1. Top.body \in Labels(Top)
      BY <2>1 DEF Labels
    <3>2. QED
      BY <1>2, <3>1, OwedLast DEF Count
  <2>2. Top.body \in Nat /\ Count \in Nat
    BY <1>2, Current DEF Frames
  <2>3. QED
    BY <1>1, <1>2, <2>1, <2>2
<1>5. QED
  BY <1>1, <1>3, <1>4, CloseKeepsLevels

LEMMA ReturnToElifKeepsLevels ==
  ASSUME IInv, CodeInv, LevelsInv, ReturnToElif
  PROVE  LevelsInv'
<1>1. /\ status = "returning"
      /\ In({"elif"})
      /\ CloseConditional(Top.start, Top.body, end_addr)
  BY DEF ReturnToElif
<1>2. end_addr = Count /\ Top.body < Count
  BY <1>1 DEF CodeInv, Returning
<1>3. In({"then", "else", "elif"}) /\ Top.kind = "elif"
  BY <1>1 DEF In
<1>4. QED
  BY <1>1, <1>2, <1>3, CloseKeepsLevels

\* The end of a loop, as WhileEnd and ForEnd write it.
LEMMA LoopKeepsLevels ==
  ASSUME IInv, CodeInv, LevelsInv, NEW kinds, In(kinds), "func" \notin kinds,
         NEW op \in Nat, is_t_jump(op), NEW back \in Labels(Top), NEW b \in Owed(Top),
         Goes(op, for_loop_level, Top.level),
         Fits(Len(Block), back), Fits(b, Len(Block) + 3),
         NEW looped, looped = Block \o <<op>> \o U16(back - Count - 1),
         SetBlock(Patched(looped, b, Len(looped) - b - 1)), Leave,
         for_loop_level' = Top.level, UNCHANGED <<func_index, symbols, tables>>
  PROVE  LevelsInv'
<1> DEFINE closed == LoopEnd(Block, op, back, b)
<1>1. TypeOK /\ Block \in Seq(Nat) /\ Count \in Nat /\ Count = Len(Block)
  BY Current DEF Count
<1>2. /\ HasLevels(Block, Around \cup {Top}, for_loop_level, Most, Size)
      /\ BlockOK(Block, Around \cup {Top}, Here)
      /\ Top.level \in Nat /\ SlotsOf(Top) \in Nat
      /\ for_loop_level = Top.level + SlotsOf(Top)
  BY LevelsInnermost
<1>3. back \in Nat /\ b \in Nat
  <2>1. Top \in Around \cup {Top}
    OBVIOUS
  <2>2. QED
    BY <1>2, <2>1, BlockFacts, Zenon
<1>4. Len(looped) = Len(Block) + 3 /\ Patched(looped, b, Len(looped) - b - 1) = closed
  <2>1. looped = Looped(Block, op, back)
    BY <1>1 DEF Looped
  <2>2. looped = LoopBack(Block, op, back)
    BY <1>1, <1>3, <2>1, LoopWritten
  <2>3. Len(looped) = Len(Block) + 3
    BY <1>1, <1>3, <2>1, LoopedLength
  <2>4. QED
    BY <2>2, <2>3 DEF LoopEnd, PatchTo
<1>5. closed \in Seq(Nat)
  <2>1. /\ Block \o <<op>> \o U16(back - Count - 1) \in Seq(Nat)
        /\ Len(looped) \in Nat
    BY <1>1, <1>3, <1>4, LoopedType, SMTT(40)
  <2>2. b \in Int /\ Len(looped) - b - 1 \in Int
    BY <1>3, <2>1
  <2>3. Patched(looped, b, Len(looped) - b - 1) \in Seq(Nat)
    BY <2>1, <2>2, PatchedType
  <2>4. QED
    BY <1>4, <2>3
<1>6. HasLevels(closed, Around, Top.level, Most, Size)
  <2>1. for_loop_level \in Nat /\ Most \in Nat /\ Top.level + SlotsOf(Top) = for_loop_level
    BY <1>2, LevelsHere
  <2>2. QED
    BY <1>2, <2>1, LevelsEndLoop
<1> HIDE DEF closed
<1>7. Wrote(t_code, t_code', func_index + 1, closed)
  BY <1>1, <1>4, <1>5, SetWrites
<1>8. /\ FramesOf(ctx', func_index) = Around
      /\ \A f : f # func_index => FramesOf(ctx', f) = FramesOf(ctx, f)
  <2>1. ctx' = Outer
    BY DEF Leave, Outer
  <2>2. QED
    BY <2>1, Innermost DEF Around
<1>9. HasLevels(closed, Around, for_loop_level', Most, Size)
  BY <1>6
<1>10. QED
  BY <1>7, <1>8, <1>9, LevelsWrittenCode

LEMMA WhileEndKeepsLevels ==
  ASSUME IInv, CodeInv, LevelsInv, "long_while" \notin Oddities, WhileEnd
  PROVE  LevelsInv'
<1> DEFINE op     == T_OP_JUMP
           looped == Block \o <<op>> \o U16(Top.start - Count - 1)
           exit   == Len(looped) - Top.body - 1
<1>1. /\ In({"while_body"})
      /\ InS16(exit) => InS16(Top.start - Count - 1)
      /\ IF InS16(exit)
         THEN /\ SetBlock(Patched(looped, Top.body, exit))
              /\ Leave
              /\ UNCHANGED <<func_index, for_loop_level, symbols, tables>>
         ELSE Fail
  BY DEF WhileEnd
<1>2. CASE ~InS16(exit)
  <2>1. Fail
    BY <1>1, <1>2
  <2>2. QED
    BY <2>1, FailKeepsLevels
<1>3. CASE InS16(exit)
  <2>1. "func" \notin {"while_body"}
    OBVIOUS
  <2>2. /\ Top \in Frames /\ Top.kind = "while_body"
        /\ Top.level \in Nat /\ for_loop_level = Top.level + SlotsOf(Top)
    BY <1>1, <2>1, LevelsInnermost
  <2>3. /\ Top.start \in Nat /\ Top.body \in Nat
        /\ Block \in Seq(Nat) /\ Count \in Nat /\ Count = Len(Block)
    BY <2>2, Current DEF Frames, Count
  <2>4. op \in Nat /\ is_t_jump(op)
    BY JumpOps
  <2>5. Len(looped) = Len(Block) + 3
    <3>1. looped = Looped(Block, op, Top.start)
      BY <2>3 DEF Looped
    <3>2. QED
      BY <2>3, <2>4, <3>1, LoopedLength
  <2>6. Fits(Len(Block), Top.start) /\ Fits(Top.body, Len(Block) + 3)
    <3>1. InS16(Top.start - Len(Block) - 1)
      BY <1>1, <1>3, <2>3
    <3>2. InS16((Len(Block) + 3) - Top.body - 1)
      BY <1>3, <2>5
    <3>3. QED
      BY <3>1, <3>2 DEF Fits
  <2>7. Top.start \in Labels(Top) /\ Top.body \in Owed(Top) /\ SlotsOf(Top) = 0
    BY <2>2 DEF Labels, Owed, SlotsOf
  <2>8. Top.level = for_loop_level
    BY <2>2, <2>7
  <2>9. Goes(op, for_loop_level, Top.level)
    <3>1. SlotsOpened(op) = 0
      BY DEF SlotsOpened, T_OP_JUMP, T_OP_FOR_DEC_START, T_OP_FOR_INC_START,
         T_OP_FOR_DEC, T_OP_FOR_INC
    <3>2. QED
      BY <2>2, <2>8, <3>1 DEF Goes
  <2>10. looped = Block \o <<op>> \o U16(Top.start - Count - 1)
    OBVIOUS
  <2>11. /\ SetBlock(Patched(looped, Top.body, Len(looped) - Top.body - 1))
         /\ Leave /\ for_loop_level' = Top.level
         /\ UNCHANGED <<func_index, symbols, tables>>
    BY <1>1, <1>3, <2>8
  <2> HIDE DEF op, looped
  <2>12. QED
    BY <1>1, <2>1, <2>4, <2>6, <2>7, <2>9, <2>10, <2>11, LoopKeepsLevels
<1>4. QED
  BY <1>2, <1>3

LEMMA ForEndKeepsLevels ==
  ASSUME IInv, CodeInv, LevelsInv, ForEnd
  PROVE  LevelsInv'
<1> DEFINE op     == IF Top.slots = 1 THEN T_OP_FOR_DEC ELSE T_OP_FOR_INC
           looped == Block \o <<op>> \o U16(Top.body - Count - 1)
           skip   == Len(looped) - Top.start - 1
<1>1. /\ In({"for_body"})
      /\ IF InS16(skip)
         THEN /\ SetBlock(Patched(looped, Top.start, skip))
              /\ for_loop_level' = for_loop_level - Top.slots
              /\ Leave
              /\ UNCHANGED <<func_index, symbols, tables>>
         ELSE Fail
  BY DEF ForEnd
<1>2. CASE ~InS16(skip)
  <2>1. Fail
    BY <1>1, <1>2
  <2>2. QED
    BY <2>1, FailKeepsLevels
<1>3. CASE InS16(skip)
  <2>1. "func" \notin {"for_body"}
    OBVIOUS
  <2>2. /\ Top \in Frames /\ Top.kind = "for_body" /\ Proper(Top)
        /\ Top.level \in Nat /\ for_loop_level = Top.level + SlotsOf(Top)
        /\ BlockOK(Block, Around \cup {Top}, Here)
    BY <1>1, <2>1, LevelsInnermost
  <2>3. /\ Top.start \in Nat /\ Top.body \in Nat
        /\ Block \in Seq(Nat) /\ Count \in Nat /\ Count = Len(Block)
    BY <2>2, Current DEF Frames, Count
  <2>4. op \in Nat /\ is_t_jump(op)
    BY DEF T_OP_FOR_DEC, T_OP_FOR_INC, is_t_jump, T_OP_FOR_UPDATES
  <2>5. Len(looped) = Len(Block) + 3
    <3>1. looped = Looped(Block, op, Top.body)
      BY <2>3 DEF Looped
    <3>2. QED
      BY <2>3, <2>4, <3>1, LoopedLength
  <2>6. Top.start + 3 <= Len(Block) /\ Top.body = Top.start + 3
    <3>1. Top.start \in Owed(Top)
      BY <2>2 DEF Owed
    <3>2. Shaped(Top, Block) /\ Above(Around, Top)
      BY <1>1, <2>1, <2>2, Innermost DEF BlockOK
    <3>3. QED
      BY <2>2, <3>1, <3>2, OwedLast DEF Shaped
  <2>7. Fits(Top.start, Len(Block) + 3)
    <3>1. InS16((Len(Block) + 3) - Top.start - 1)
      BY <1>3, <2>5
    <3>2. QED
      BY <3>1 DEF Fits
  <2>8. Fits(Len(Block), Top.body)
    <3>1. Len(Block) \in Nat
      BY <2>3
    <3>2. QED
      BY <2>3, <2>6, <2>7, <3>1, ForBackFits
  <2>9. Top.body \in Labels(Top) /\ Top.start \in Owed(Top) /\ SlotsOf(Top) = Top.slots
    BY <2>2 DEF Labels, Owed, SlotsOf
  <2>10. Top.slots \in {1, 2}
    BY <2>2 DEF Proper
  <2>11. Goes(op, for_loop_level, Top.level) /\ for_loop_level - Top.slots = Top.level
    BY <2>2, <2>9, <2>10 DEF Goes, SlotsOpened, T_OP_FOR_DEC_START, T_OP_FOR_INC_START,
       T_OP_FOR_DEC, T_OP_FOR_INC
  <2>12. looped = Block \o <<op>> \o U16(Top.body - Count - 1)
    OBVIOUS
  <2>13. /\ SetBlock(Patched(looped, Top.start, Len(looped) - Top.start - 1))
         /\ Leave /\ for_loop_level' = Top.level
         /\ UNCHANGED <<func_index, symbols, tables>>
    BY <1>1, <1>3, <2>11
  <2> HIDE DEF op, looped
  <2>14. QED
    BY <1>1, <2>1, <2>4, <2>7, <2>8, <2>9, <2>11, <2>12, <2>13, LoopKeepsLevels
<1>4. QED
  BY <1>2, <1>3

-----------------------------------------------------------------------------
(* The levels of functions.                                                *)

LEMMA FewerFrames ==
  ASSUME NEW block, NEW F, NEW end, NEW most, NEW size, HasLevels(block, F, end, most, size),
         NEW G, G \subseteq F
  PROVE  HasLevels(block, G, end, most, size)
BY DEF HasLevels

LEMMA NoCodeLevels ==
  HasLevels(<<>>, {}, 0, 0, 0)
<1>1. 0 \in Nat
  OBVIOUS
<1>2. Levelled(<<>>, [x \in Nat |-> 0], 0, 0, 0)
  BY <1>1, NoLevels
<1>3. QED
  BY <1>2 DEF HasLevels

LEMMA FunctionKeepsLevels ==
  ASSUME IInv, CodeInv, LevelsInv, "func_in_loop" \notin Oddities,
         NEW n \in FuncNames, NEW sig \in Signatures, CompileFunction(n, sig)
  PROVE  LevelsInv'
<1> DEFINE g == Frame("func", 0, Len(t_code))
           count == Len(t_code)
<1>1. /\ t_code' = Append(t_code, <<>>)
      /\ locals' = Append(locals, <<>>)
      /\ max_for_loop_level' = Append(max_for_loop_level, 0)
      /\ symbols' = [symbols EXCEPT ![n] = Symbol("func", Len(t_code), 0)]
      /\ ctx' = Append(ctx, g)
      /\ UNCHANGED for_loop_level
      /\ ~(for_loop_level > 0)
  BY DEF CompileFunction, Enter
<1>2. /\ TypeOK
      /\ ctx \in Seq(Frames) /\ t_code \in Seq(Seq(Nat)) /\ locals \in Seq(Seq({IntType}))
      /\ max_for_loop_level \in Seq(Nat) /\ symbols \in [Names -> Symbols]
      /\ count \in Nat /\ Len(locals) = count /\ Len(max_for_loop_level) = count
      /\ func_index \in 0..(count - 1)
  BY LevelsHere DEF TypeOK
<1>3. for_loop_level = 0 /\ for_loop_level' = 0
  BY <1>1, <1>2 DEF TypeOK
<1>4. g \in Frames /\ g.kind = "func" /\ g.func = func_index /\ g.level = 0
  <2>1. "func" \in Kinds /\ 0 \in Nat
    BY DEF Kinds
  <2>2. QED
    BY <1>2, <1>3, <2>1, FrameFields, SMTT(40)
<1> HIDE DEF g
<1>5. Owed(g) = {} /\ Labels(g) = {} /\ SlotsOf(g) = 0 /\ Proper(g)
  BY <1>4 DEF Owed, Labels, SlotsOf, Proper
<1>6. Pushed(ctx', ctx, g)
  BY <1>1, <1>2, <1>4, PushAppend
<1>7. \A f : FramesOf(ctx', f) = FramesOf(ctx, f) \cup (IF g.func = f THEN {g} ELSE {})
  BY <1>6, PushedFrames
<1>8. /\ Len(t_code') = count + 1
      /\ t_code'[count + 1] = <<>>
      /\ \A i \in 1..count : t_code'[i] = t_code[i]
  BY <1>1, <1>2, AppendProperties
<1>9. /\ Len(locals') = count + 1
      /\ locals'[count + 1] = <<>>
      /\ \A i \in 1..count : locals'[i] = locals[i]
  <2> DEFINE e == <<>>
             T == Seq({IntType})
  <2>1. e \in T /\ locals' = Append(locals, e) /\ locals \in Seq(T)
    BY <1>1, <1>2
  <2> HIDE DEF e, T
  <2>2. /\ Len(locals') = Len(locals) + 1
        /\ locals'[Len(locals) + 1] = e
        /\ \A i \in 1..Len(locals) : locals'[i] = locals[i]
    BY <2>1, AppendProperties
  <2>3. QED
    BY <1>2, <2>2 DEF e
<1>10. /\ max_for_loop_level'[count + 1] = 0
       /\ \A i \in 1..count : max_for_loop_level'[i] = max_for_loop_level[i]
  <2>1. /\ max_for_loop_level'[Len(max_for_loop_level) + 1] = 0
        /\ \A i \in 1..Len(max_for_loop_level) : max_for_loop_level'[i] = max_for_loop_level[i]
    <3>1. 0 \in Nat /\ max_for_loop_level \in Seq(Nat)
      BY <1>2
    <3>2. QED
      BY <1>1, <3>1, AppendProperties
  <2>2. QED
    BY <1>2, <2>1
<1>11. FramesOf(ctx, count) = {}
  <2>1. \A i \in 1..Len(ctx) : ctx[i].func \in 0..(count - 1)
    BY DEF IInv, FunctionsNest
  <2>2. DOMAIN ctx = 1..Len(ctx)
    BY <1>2
  <2> HIDE DEF count
  <2>3. \A i \in 1..Len(ctx) : ctx[i].func # count
    BY <1>2, <2>1
  <2>4. QED
    BY <2>2, <2>3 DEF FramesOf
<1>12. \A f : LevelAtEnd(f) = 0 /\ LevelAtEnd(f)' = 0
  BY <1>3 DEF LevelAtEnd
<1> HIDE DEF count
<1>13. ASSUME NEW f \in 1..(count + 1) PROVE LevelsIn(f)'
  <2>1. CASE f = count + 1
    <3>1. f - 1 = count /\ func_index # count
      BY <1>2, <2>1
    <3>2. FramesOf(ctx', f - 1) = {}
      BY <1>4, <1>7, <1>11, <3>1
    <3>3. t_code'[f] = <<>> /\ max_for_loop_level'[f] = 0 /\ Len(locals'[f]) = 0
      BY <1>8, <1>9, <1>10, <2>1
    <3>4. HasLevels(t_code'[f], FramesOf(ctx', f - 1), 0, max_for_loop_level'[f],
                    Len(locals'[f]))
      BY <3>2, <3>3, NoCodeLevels
    <3>5. QED
      BY <1>12, <3>4 DEF LevelsIn
  <2>2. CASE f # count + 1
    <3>1. f \in 1..count
      BY <1>2, <2>2
    <3>2. HasLevels(t_code[f], FramesOf(ctx, f - 1), 0, max_for_loop_level[f], Len(locals[f]))
      <4>1. LevelsIn(f)
        BY <3>1 DEF LevelsInv, count
      <4>2. QED
        BY <1>12, <4>1 DEF LevelsIn
    <3>3. HasLevels(t_code[f], FramesOf(ctx, f - 1) \cup {g}, 0, max_for_loop_level[f],
                    Len(locals[f]))
      <4>1. Labels(g) \subseteq {Len(t_code[f])} /\ g.level + SlotsOf(g) = 0
        BY <1>4, <1>5
      <4>2. QED
        BY <1>5, <3>2, <4>1, LevelsPush
    <3>4. FramesOf(ctx', f - 1) \subseteq FramesOf(ctx, f - 1) \cup {g}
      BY <1>7
    <3>5. HasLevels(t_code[f], FramesOf(ctx', f - 1), 0, max_for_loop_level[f], Len(locals[f]))
      BY <3>3, <3>4, FewerFrames
    <3>6. t_code'[f] = t_code[f] /\ max_for_loop_level'[f] = max_for_loop_level[f]
          /\ locals'[f] = locals[f]
      BY <1>8, <1>9, <1>10, <3>1
    <3>7. QED
      BY <1>12, <3>5, <3>6 DEF LevelsIn
  <2>3. QED
    BY <2>1, <2>2
<1>14. ASSUME NEW name \in Names PROVE SymbolInTable(symbols[name])'
  <2>1. CASE name = n
    <3>1. symbols'[name].kind = "func"
      BY <1>1, <1>2, <2>1 DEF Symbol
    <3>2. QED
      BY <3>1 DEF SymbolInTable
  <2>2. CASE name # n
    <3>1. symbols'[name] = symbols[name]
      BY <1>1, <1>2, <2>2
    <3>2. SymbolInTable(symbols[name])
      BY DEF LevelsInv
    <3>3. symbols[name].owner \in Nat
      BY <1>2 DEF Symbols
    <3>4. ASSUME NEW s, SymbolInTable(s), s.kind = "var", s.owner \in Nat
          PROVE  s.owner < Len(locals') /\ s.arg < Len(locals'[s.owner + 1])
      <4>1. s.owner < Len(locals) /\ s.arg < Len(locals[s.owner + 1])
        BY <3>4 DEF SymbolInTable
      <4>2. s.owner + 1 \in 1..count /\ s.owner < count + 1
        BY <1>2, <3>4, <4>1
      <4>3. locals'[s.owner + 1] = locals[s.owner + 1]
        BY <1>9, <4>2
      <4>4. QED
        BY <1>9, <4>1, <4>2, <4>3
    <3>5. QED
      BY <3>1, <3>2, <3>3, <3>4 DEF SymbolInTable
  <2>3. QED
    BY <2>1, <2>2
<1>15. \A f \in 1..Len(t_code') : LevelsIn(f)'
  BY <1>8, <1>13
<1>16. QED
  BY <1>14, <1>15 DEF LevelsInv

\* The RET at the end of a function, or none.
LEMMA RetLevels ==
  ASSUME IInv, CodeInv, LevelsInv, NEW bytes, bytes = <<T_OP_RET>> \/ bytes = <<>>
  PROVE  /\ HasLevels(Block \o bytes, Working, for_loop_level, Most, Size)
         /\ bytes \in Seq(Nat)
<1>1. /\ HasLevels(Block, Working, for_loop_level, Most, Size)
      /\ BlockOK(Block, Working, Here)
      /\ for_loop_level \in Nat /\ Most \in Nat /\ for_loop_level <= Most
  BY LevelsHere
<1>2. CASE bytes = <<T_OP_RET>>
  <2> DEFINE op == T_OP_RET
  <2>1. op \in {T_OP_POP, T_OP_DUPE, T_OP_EXIT, T_OP_RET}
    OBVIOUS
  <2>2. op \notin {T_OP_PUSH8, T_OP_PUSH_INT8, T_OP_GET_LOOP_VAR, T_OP_LOCAL_GET}
    BY DEF T_OP_PUSH8, T_OP_PUSH_INT8, T_OP_GET_LOOP_VAR, T_OP_LOCAL_GET, T_OP_RET
  <2>3. bytes = <<op>>
    BY <1>2
  <2> HIDE DEF op
  <2>4. /\ ~is_t_jump(op) /\ t_instruction_size(op) = 1 /\ <<op>> \in Seq(Nat)
        /\ Len(<<op>>) = 1 /\ At(<<op>>, 0) = op
    BY <2>1, SimpleSize
  <2>5. OperandIn(<<op>>, 0, for_loop_level, Size)
    BY <2>2, <2>4 DEF OperandIn
  <2>6. HasLevels(Block \o <<op>>, Working, for_loop_level, Most, Size)
    BY <1>1, <2>4, <2>5, LevelsPlain
  <2>7. QED
    BY <2>3, <2>4, <2>6
<1>3. CASE bytes = <<>>
  <2>1. Block \in Seq(Nat)
    BY Current
  <2>2. Block \o <<>> = Block
    BY <2>1, ConcatEmptySeq
  <2>3. <<>> \in Seq(Nat)
    OBVIOUS
  <2>4. QED
    BY <1>1, <1>3, <2>2, <2>3
<1>4. QED
  BY <1>2, <1>3

LEMMA FunctionEndKeepsLevels ==
  ASSUME IInv, CodeInv, LevelsInv, FunctionEnd
  PROVE  LevelsInv'
<1> DEFINE bytes == IF NeedsRet THEN <<T_OP_RET>> ELSE <<>>
<1>1. /\ In({"func"})
      /\ Emit(bytes)
      /\ ctx' = Outer
      /\ UNCHANGED <<for_loop_level, symbols, tables>>
  BY DEF FunctionEnd, Leave, Outer
<1>2. bytes = <<T_OP_RET>> \/ bytes = <<>>
  OBVIOUS
<1> HIDE DEF bytes
<1>3. HasLevels(Block \o bytes, Working, for_loop_level, Most, Size) /\ bytes \in Seq(Nat)
  BY <1>2, RetLevels
<1>4. /\ TypeOK /\ func_index + 1 \in 1..Len(t_code) /\ func_index \in Nat /\ Len(t_code) \in Nat
  BY LevelsHere
<1>5. Wrote(t_code, t_code', func_index + 1, Block \o bytes)
  BY <1>1, <1>3, <1>4, EmitWrites
<1>6. /\ ctx \in Seq(Frames) /\ ctx # <<>> /\ Top \in Frames /\ Top.kind = "func"
      /\ for_loop_level = Top.level + SlotsOf(Top)
      /\ Top.func \in 0..(Len(t_code) - 1)
  BY <1>1, InnermostConstruct DEF IInv, TypeOK
<1>7. Pushed(ctx, Outer, Top)
  BY <1>6, PushTop DEF Outer, Top
<1>8. \A f : FramesOf(ctx, f) = FramesOf(Outer, f) \cup (IF Top.func = f THEN {Top} ELSE {})
  BY <1>7, PushedFrames
<1>9. for_loop_level = 0 /\ for_loop_level' = 0
  <2>1. ASSUME NEW k \in 0..(Len(t_code) - 1), Top.func = k PROVE Top.level = 0
    <3>1. LevelsIn(k + 1) /\ (k + 1) - 1 = k
      BY <1>4 DEF LevelsInv
    <3>2. Top \in FramesOf(ctx, k)
      BY <1>8, <2>1
    <3>3. Proper(Top)
      BY <3>1, <3>2 DEF LevelsIn, HasLevels, Held
    <3>4. QED
      BY <1>6, <3>3 DEF Proper
  <2>2. Top.level = 0 /\ SlotsOf(Top) = 0
    BY <1>6, <2>1 DEF SlotsOf
  <2>3. QED
    BY <1>1, <1>6, <2>2
<1>10. \A f : LevelAtEnd(f) = 0 /\ LevelAtEnd(f)' = 0
  BY <1>9 DEF LevelAtEnd
<1>11. max_for_loop_level' = max_for_loop_level /\ locals' = locals
  BY <1>1 DEF tables
<1>12. Len(t_code') = Len(t_code)
  BY <1>5 DEF Wrote
<1>13. ASSUME NEW f \in 1..Len(t_code) PROVE LevelsIn(f)'
  <2>1. HasLevels(t_code'[f], FramesOf(ctx, f - 1), 0, max_for_loop_level[f], Len(locals[f]))
    <3>1. CASE f = func_index + 1
      <4>1. f - 1 = func_index /\ t_code'[f] = Block \o bytes
        BY <1>4, <1>5, <3>1 DEF Wrote
      <4>2. QED
        BY <1>3, <1>9, <3>1, <4>1 DEF Working, Most, Size
    <3>2. CASE f # func_index + 1
      <4>1. t_code'[f] = t_code[f]
        BY <1>5, <3>2 DEF Wrote
      <4>2. LevelsIn(f)
        BY DEF LevelsInv
      <4>3. QED
        BY <1>10, <4>1, <4>2 DEF LevelsIn
    <3>3. QED
      BY <3>1, <3>2
  <2>2. FramesOf(ctx', f - 1) \subseteq FramesOf(ctx, f - 1)
    BY <1>1, <1>8
  <2>3. HasLevels(t_code'[f], FramesOf(ctx', f - 1), 0, max_for_loop_level[f], Len(locals[f]))
    BY <2>1, <2>2, FewerFrames
  <2>4. QED
    BY <1>10, <1>11, <2>3 DEF LevelsIn
<1>14. \A n \in Names : SymbolInTable(symbols[n])'
  BY <1>1, SymbolsStay
<1>15. QED
  BY <1>12, <1>13, <1>14 DEF LevelsInv

-----------------------------------------------------------------------------
(* The levels at every step.                                               *)

LEMMA SimpleKeepsLevels ==
  ASSUME IInv, CodeInv, LevelsInv, NEW op \in SimpleOps, CompileSimple(op)
  PROVE  LevelsInv'
<1>1. op \in {T_OP_POP, T_OP_DUPE, T_OP_EXIT, T_OP_RET}
  BY CompilerAssumption
<1>2. Emit(<<op>>) /\ UNCHANGED <<ctx, func_index, for_loop_level, symbols, tables>>
  BY DEF CompileSimple
<1>3. QED
  BY <1>1, <1>2, OneByteKeepsLevels

LEMMA FinishKeepsLevels ==
  ASSUME IInv, CodeInv, LevelsInv, Finish
  PROVE  LevelsInv'
<1> DEFINE op == T_OP_RET
<1>1. op \in {T_OP_POP, T_OP_DUPE, T_OP_EXIT, T_OP_RET}
  OBVIOUS
<1>2. Emit(<<op>>) /\ UNCHANGED <<ctx, func_index, for_loop_level, symbols, tables>>
  BY DEF Finish
<1> HIDE DEF op
<1>3. QED
  BY <1>1, <1>2, OneByteKeepsLevels

LEMMA RefusalKeepsLevels ==
  ASSUME LevelsInv, NEW n, RefuseSymbol(n) \/ RefuseAssignment(n)
  PROVE  LevelsInv'
<1>1. Fail
  BY DEF RefuseSymbol, RefuseAssignment
<1>2. QED
  BY <1>1, FailKeepsLevels

LEMMA RestKeepsLevels ==
  ASSUME LevelsInv, ReturnFromConditional \/ Unexpected \/ Stopped \/ UNCHANGED vars
  PROVE  LevelsInv'
<1>1. UNCHANGED <<ctx, func_index, for_loop_level, symbols, t_code, tables>>
  BY DEF ReturnFromConditional, Unexpected, Fail, Stopped, vars, tables
<1>2. QED
  BY <1>1, LevelsStay

LEMMA InitHasLevels ==
  ASSUME Init
  PROVE  LevelsInv
<1>1. /\ ctx = <<>> /\ t_code = <<<<>>>> /\ locals = <<<<>>>> /\ max_for_loop_level = <<0>>
      /\ for_loop_level = 0 /\ func_index = 0
      /\ \A n \in Names : symbols[n] = None
  BY DEF Init
<1>2. FramesOf(<<>>, 0) = {}
  BY DEF FramesOf
<1>3. LevelsIn(1)
  <2>1. /\ t_code[1] = <<>> /\ max_for_loop_level[1] = 0 /\ Len(locals[1]) = 0
        /\ FramesOf(ctx, 1 - 1) = {} /\ LevelAtEnd(1) = 0
    BY <1>1, <1>2 DEF LevelAtEnd
  <2>2. QED
    BY <2>1, NoCodeLevels DEF LevelsIn
<1>4. Len(t_code) = 1
  BY <1>1
<1>5. \A f \in 1..Len(t_code) : LevelsIn(f)
  BY <1>3, <1>4
<1>6. \A n \in Names : SymbolInTable(symbols[n])
  BY <1>1 DEF None, SymbolInTable
<1>7. QED
  BY <1>5, <1>6 DEF LevelsInv

LEMMA NextKeepsLevels ==
  ASSUME {"empty_else", "long_while", "func_in_loop"} \cap Oddities = {},
         IInv, CodeInv, LevelsInv, [Next]_vars
  PROVE  LevelsInv'
<1>1. "empty_else" \notin Oddities /\ "long_while" \notin Oddities /\ "func_in_loop" \notin Oddities
  OBVIOUS
<1>2. CASE \E op \in LiteralOps : \E v \in Literals : CompileInteger(op, v)
  BY <1>2, LiteralKeepsLevels
<1>3. CASE \E op \in SimpleOps : CompileSimple(op)
  BY <1>3, SimpleKeepsLevels
<1>4. CASE \E n \in Names : CompileSymbol(n)
  BY <1>4, SymbolKeepsLevels
<1>5. CASE \E n \in Names : RefuseSymbol(n)
  BY <1>5, RefusalKeepsLevels
<1>6. CASE \E n \in VarNames : CompileVar(n)
  BY <1>6, VarKeepsLevels
<1>7. CASE \E n \in VarNames : CompileAssignment(n)
  BY <1>7, AssignmentKeepsLevels
<1>8. CASE \E n \in VarNames : RefuseAssignment(n)
  BY <1>8, RefusalKeepsLevels
<1>9. CASE CompileIf
  BY <1>9, IfKeepsLevels
<1>10. CASE ConditionalThen
  BY <1>10, ThenKeepsLevels
<1>11. CASE ConditionalElse
  BY <1>11, ElseKeepsLevels
<1>12. CASE ConditionalElif
  BY <1>12, ElifKeepsLevels
<1>13. CASE ConditionalEnd
  BY <1>1, <1>13, EndKeepsLevels
<1>14. CASE ReturnToElif
  BY <1>14, ReturnToElifKeepsLevels
<1>15. CASE CompileWhile
  BY <1>15, WhileKeepsLevels
<1>16. CASE WhileDo
  BY <1>16, WhileDoKeepsLevels
<1>17. CASE WhileEnd
  BY <1>1, <1>17, WhileEndKeepsLevels
<1>18. CASE CompileFor
  BY <1>18, ForKeepsLevels
<1>19. CASE \E n \in LoopNames : \E slots \in {1, 2} : CompileForVar(n, slots)
  BY <1>19, ForVarKeepsLevels
<1>20. CASE ForDo
  BY <1>20, ForDoKeepsLevels
<1>21. CASE ForEnd
  BY <1>21, ForEndKeepsLevels
<1>22. CASE \E n \in FuncNames : \E sig \in Signatures : CompileFunction(n, sig)
  BY <1>1, <1>22, FunctionKeepsLevels
<1>23. CASE FunctionEnd
  BY <1>23, FunctionEndKeepsLevels
<1>24. CASE Finish
  BY <1>24, FinishKeepsLevels
<1>25. CASE ReturnFromConditional \/ Unexpected \/ Stopped \/ UNCHANGED vars
  BY <1>25, RestKeepsLevels
<1>26. QED
  BY <1>2, <1>3, <1>4, <1>5, <1>6, <1>7, <1>8, <1>9, <1>10, <1>11, <1>12, <1>13, <1>14,
     <1>15, <1>16, <1>17, <1>18, <1>19, <1>20, <1>21, <1>22, <1>23, <1>24, <1>25
     DEF Next, Step

-----------------------------------------------------------------------------
(* The last instructions of functions.                                     *)

\* The block ends with a RET.
RetLast(block) ==
  /\ Len(block) - 1 \in TStarts(block)
  /\ At(block, Len(block) - 1) = T_OP_RET

LastInv == \A f \in DOMAIN t_code : Ended(f) => RetLast(t_code[f])

LEMMA LastKept ==
  ASSUME IInv', LastInv, status' # "compiled", UNCHANGED func_index, Elsewhere,
         OpenIn(ctx) \subseteq OpenIn(ctx') \cup {func_index}
  PROVE  LastInv'
<1>1. func_index' = 0 \/ func_index' \in OpenIn(ctx')
  BY NestedIsIInv, CurrentOpen DEF IInv, TypeOK
<1>2. DOMAIN t_code \subseteq Nat
  <2>1. DOMAIN t_code' \subseteq Nat
    BY DEF IInv, TypeOK
  <2>2. QED
    BY <2>1 DEF Elsewhere
<1>3. func_index \in Nat
  BY DEF IInv, TypeOK
<1>4. ASSUME NEW f \in DOMAIN t_code, f # 1, f - 1 \notin OpenIn(ctx')
      PROVE  RetLast(t_code'[f])
  <2>1. f # func_index + 1
    <3>1. ASSUME f = func_index + 1 PROVE FALSE
      <4>1. f - 1 = func_index /\ func_index # 0
        BY <1>3, <1>4, <3>1
      <4>2. QED
        BY <1>1, <1>4, <4>1
    <3>2. QED
      BY <3>1
  <2>2. f - 1 # func_index
    BY <1>2, <1>3, <2>1
  <2>3. f - 1 \notin OpenIn(ctx)
    BY <1>4, <2>2
  <2>4. RetLast(t_code[f])
    BY <1>4, <2>3 DEF LastInv, Ended
  <2>5. QED
    BY <2>1, <2>4 DEF Elsewhere
<1>5. ASSUME NEW f \in DOMAIN t_code', Ended(f)' PROVE RetLast(t_code'[f])
  BY <1>4, <1>5 DEF Ended, Elsewhere
<1>6. QED
  BY <1>5 DEF LastInv

LEMMA RetLastAppended ==
  ASSUME IInv, CodeInv, NEW longer, longer = Block \o <<T_OP_RET>>
  PROVE  RetLast(longer)
<1> DEFINE op == T_OP_RET
<1>1. op \in {T_OP_POP, T_OP_DUPE, T_OP_EXIT, T_OP_RET}
  OBVIOUS
<1>2. longer = Block \o <<op>>
  OBVIOUS
<1> HIDE DEF op
<1>3. /\ t_instruction_size(op) = 1 /\ <<op>> \in Seq(Nat)
      /\ Len(<<op>>) = 1 /\ At(<<op>>, 0) = op
  BY <1>1, SimpleSize
<1>4. BlockOK(Block, Working, Here)
  BY Current
<1>5. WholeBlock(Block) /\ Len(Block) \in Nat
  BY <1>4, BlockFacts
<1>6. /\ TStarts(longer) = TStarts(Block) \cup {Len(Block)}
      /\ Len(longer) = Len(Block) + 1
      /\ At(longer, Len(Block)) = op
  BY <1>2, <1>3, <1>5, AppendInstruction
<1>7. Len(longer) - 1 = Len(Block)
  BY <1>5, <1>6
<1>8. QED
  BY <1>6, <1>7 DEF RetLast, op

\* A function begins: it is open, and the others are what they were.
LEMMA FunctionKeepsLast ==
  ASSUME IInv, IInv', LastInv, NEW n \in FuncNames, NEW sig \in Signatures,
         CompileFunction(n, sig)
  PROVE  LastInv'
<1> DEFINE count == Len(t_code)
           g == Frame("func", 0, count)
<1>1. /\ status' = "compiling"
      /\ t_code' = Append(t_code, <<>>)
      /\ func_index' = count
      /\ ctx' = Append(ctx, g)
  BY DEF CompileFunction, Reading, Enter
<1>2. /\ TypeOK
      /\ ctx \in Seq(Frames)
      /\ t_code \in Seq(Seq(Nat))
      /\ count \in Nat
  BY TablesOfTypeOK DEF IInv, TypeOK
<1>3. g \in Frames
  <2>1. "func" \in Kinds /\ 0 \in Nat
    BY DEF Kinds
  <2>2. QED
    BY <1>2, <2>1, FrameFields
<1> HIDE DEF g
<1>4. OpenIn(ctx) \subseteq OpenIn(ctx')
  <2>1. Pushed(ctx', ctx, g)
    BY <1>1, <1>2, <1>3, PushAppend
  <2>2. QED
    BY <2>1, OpenPushed
<1>5. /\ DOMAIN t_code = 1..count
      /\ DOMAIN t_code' = 1..(count + 1)
      /\ \A f \in 1..count : t_code'[f] = t_code[f]
  <2>1. Len(t_code') = count + 1 /\ t_code' \in Seq(Seq(Nat))
    BY <1>1, <1>2, AppendProperties
  <2>2. \A f \in 1..count : t_code'[f] = t_code[f]
    BY <1>1, <1>2, AppendProperties
  <2>3. DOMAIN t_code = 1..count /\ DOMAIN t_code' = 1..Len(t_code')
    BY <1>2, <2>1, LenProperties
  <2>4. QED
    BY <2>1, <2>2, <2>3
<1>6. count = 0 \/ count \in OpenIn(ctx')
  BY <1>1, NestedIsIInv, CurrentOpen DEF IInv, TypeOK
<1> HIDE DEF count
<1>7. ASSUME NEW f \in DOMAIN t_code', f # 1, f - 1 \notin OpenIn(ctx')
      PROVE  RetLast(t_code'[f])
  <2>1. f \in 1..count
    BY <1>2, <1>5, <1>6, <1>7
  <2>2. f - 1 \notin OpenIn(ctx)
    BY <1>4, <1>7
  <2>3. RetLast(t_code[f])
    BY <1>5, <1>7, <2>1, <2>2 DEF LastInv, Ended
  <2>4. QED
    BY <1>5, <2>1, <2>3
<1>8. QED
  BY <1>1, <1>7 DEF LastInv, Ended

\* A function ends: its last instruction is a RET.
LEMMA FunctionEndKeepsLast ==
  ASSUME "no_final_ret" \notin Oddities, IInv, CodeInv, LastInv, FunctionEnd
  PROVE  LastInv'
<1> DEFINE bytes == IF NeedsRet THEN <<T_OP_RET>> ELSE <<>>
<1>1. /\ status' = "compiling" /\ UNCHANGED t_jumps
      /\ In({"func"})
      /\ ~NeedsRet => ~RunsOffEnd
      /\ Emit(bytes)
      /\ Leave
  BY DEF FunctionEnd, Reading
<1>2. TypeOK /\ Block \in Seq(Nat) /\ Count \in Nat
  BY Current
<1>3. RetLast(t_code'[func_index + 1])
  <2>1. t_code'[func_index + 1] = Block \o bytes
    <3>1. bytes \in Seq(Nat)
      <4>1. <<T_OP_RET>> \in Seq(Nat)
        BY OpcodeTypes
      <4>2. <<>> \in Seq(Nat)
        OBVIOUS
      <4>3. QED
        BY <4>1, <4>2
    <3>2. QED
      BY <1>1, <1>2, <3>1, EmitWrites DEF Wrote
  <2>2. CASE NeedsRet
    BY <2>1, <2>2, RetLastAppended
  <2>3. CASE ~NeedsRet
    <3>1. Block \o <<>> = Block
      BY <1>2, ConcatEmptySeq
    <3>2. Count - 1 \in TStarts(Block) /\ Count > 0 /\ Block[Count] = T_OP_RET
      BY <1>1, <2>3 DEF RunsOffEnd, NeedsRet, check_last_instruction
    <3>3. At(Block, Count - 1) = T_OP_RET
      <4>1. (Count - 1) + 1 = Count
        BY <1>2
      <4>2. QED
        BY <3>2, <4>1 DEF At
    <3>4. RetLast(Block)
      BY <3>2, <3>3 DEF RetLast, Count
    <3>5. QED
      BY <2>1, <2>3, <3>1, <3>4
  <2>4. QED
    BY <2>2, <2>3
<1>4. Elsewhere
  BY <1>1, <1>2, WritesHere
<1>5. OpenIn(ctx) \subseteq OpenIn(ctx') \cup {func_index}
  BY <1>1, OpenLeft
<1>6. DOMAIN t_code \subseteq Nat /\ func_index \in Nat
  BY <1>2 DEF TypeOK
<1>7. ASSUME NEW f \in DOMAIN t_code, f # 1, f - 1 \notin OpenIn(ctx')
      PROVE  RetLast(t_code'[f])
  <2>1. CASE f = func_index + 1
    BY <1>3, <2>1
  <2>2. CASE f # func_index + 1
    <3>1. f - 1 # func_index
      BY <1>6, <2>2
    <3>2. RetLast(t_code[f])
      BY <1>5, <1>7, <3>1 DEF LastInv, Ended
    <3>3. QED
      BY <1>4, <2>2, <3>2 DEF Elsewhere
  <2>3. QED
    BY <2>1, <2>2
<1>8. ASSUME NEW f \in DOMAIN t_code', Ended(f)' PROVE RetLast(t_code'[f])
  BY <1>1, <1>4, <1>7, <1>8 DEF Ended, Elsewhere
<1>9. QED
  BY <1>8 DEF LastInv

\* Function 0 ends with the program.
LEMMA FinishKeepsLast ==
  ASSUME IInv, CodeInv, LastInv, Finish
  PROVE  LastInv'
<1>1. /\ ctx = <<>> /\ UNCHANGED <<ctx, t_jumps>>
      /\ Emit(<<T_OP_RET>>)
  BY DEF Finish
<1>2. TypeOK
  BY DEF IInv
<1>3. func_index = 0
  BY <1>1 DEF IInv, FunctionsNest
<1>4. RetLast(t_code'[1])
  <2>1. <<T_OP_RET>> \in Seq(Nat)
    BY OpcodeTypes
  <2>2. t_code'[func_index + 1] = Block \o <<T_OP_RET>>
    BY <1>1, <1>2, <2>1, EmitWrites DEF Wrote
  <2>3. func_index + 1 = 1
    BY <1>3
  <2>4. QED
    BY <2>2, <2>3, RetLastAppended
<1>5. Elsewhere
  BY <1>1, <1>2, WritesHere
<1>6. ASSUME NEW f \in DOMAIN t_code, f # 1, f - 1 \notin OpenIn(ctx')
      PROVE  RetLast(t_code'[f])
  <2>1. RetLast(t_code[f])
    BY <1>1, <1>6 DEF LastInv, Ended
  <2>2. f # func_index + 1
    BY <1>3, <1>6
  <2>3. QED
    BY <1>5, <2>1, <2>2 DEF Elsewhere
<1>7. ASSUME NEW f \in DOMAIN t_code', Ended(f)' PROVE RetLast(t_code'[f])
  BY <1>4, <1>5, <1>6, <1>7 DEF Ended, Elsewhere
<1>8. QED
  BY <1>7 DEF LastInv

LEMMA NextKeepsLast ==
  ASSUME "no_final_ret" \notin Oddities, IInv, CodeInv, LastInv, [Next]_vars
  PROVE  LastInv'
<1>1. TypeOK /\ IInv'
  BY NextKeeps DEF IInv
<1>2. CASE StaysHere
  BY <1>1, <1>2, LastKept DEF StaysHere
<1>3. CASE \/ \E op \in LiteralOps : \E v \in Literals : CompileInteger(op, v)
           \/ \E op \in SimpleOps : CompileSimple(op)
           \/ \E n \in Names : CompileSymbol(n)
           \/ \E n \in VarNames : CompileAssignment(n)
           \/ \E n \in VarNames : CompileVar(n)
           \/ ReturnFromConditional
  BY <1>1, <1>2, <1>3, PlainStays
<1>4. CASE \/ CompileIf
           \/ CompileWhile
           \/ CompileFor
           \/ \E n \in LoopNames : \E slots \in {1, 2} : CompileForVar(n, slots)
  BY <1>1, <1>2, <1>4, OpenStays
<1>5. CASE ConditionalThen \/ ConditionalElse \/ WhileDo \/ ForDo
  BY <1>2, <1>5, NextPartStays
<1>6. CASE ConditionalElif
  BY <1>2, <1>6, ElifStays
<1>7. CASE ConditionalEnd \/ ReturnToElif \/ WhileEnd \/ ForEnd
  BY <1>2, <1>7, ClosingStays
<1>8. CASE \/ \E n \in Names : RefuseSymbol(n)
           \/ \E n \in VarNames : RefuseAssignment(n)
           \/ Unexpected
  BY <1>1, <1>2, <1>8, FailStays DEF RefuseSymbol, RefuseAssignment, Unexpected
<1>9. CASE \E n \in FuncNames : \E sig \in Signatures : CompileFunction(n, sig)
  BY <1>1, <1>9, FunctionKeepsLast
<1>10. CASE FunctionEnd
  BY <1>10, FunctionEndKeepsLast
<1>11. CASE Finish
  BY <1>11, FinishKeepsLast
<1>12. CASE Stopped \/ UNCHANGED vars
  BY <1>12 DEF Stopped, vars, LastInv, Ended
<1>13. QED
  BY <1>3, <1>4, <1>5, <1>6, <1>7, <1>8, <1>9, <1>10, <1>11, <1>12 DEF Next, Step

LEMMA InitHasLast ==
  ASSUME Init
  PROVE  LastInv
BY DEF Init, LastInv, Ended

-----------------------------------------------------------------------------
(* What all this makes of a compiled program.                              *)

\* The odd shapes for which the compiled code is not what the type checker and the
\* interpreter take it to be.
Odd == {"empty_else", "long_while", "func_in_loop", "no_final_ret"}

LEMMA LevelsInductive ==
  ASSUME Odd \cap Oddities = {}
  PROVE  Spec => [](IInv /\ CodeInv /\ EndsInv /\ KnownInv /\ LevelsInv /\ LastInv)
<1>1. /\ {"empty_else", "long_while", "no_final_ret"} \cap Oddities = {}
      /\ {"empty_else", "long_while", "func_in_loop"} \cap Oddities = {}
      /\ "no_final_ret" \notin Oddities
  BY DEF Odd
<1>2. Init => LevelsInv /\ LastInv
  BY InitHasLevels, InitHasLast
<1>3. /\ (IInv /\ CodeInv /\ EndsInv /\ KnownInv) /\ LevelsInv /\ [Next]_vars => LevelsInv'
      /\ (IInv /\ CodeInv /\ EndsInv /\ KnownInv) /\ LastInv /\ [Next]_vars => LastInv'
  BY <1>1, NextKeepsLevels, NextKeepsLast
<1>4. Spec => [](IInv /\ CodeInv /\ EndsInv /\ KnownInv)
  BY <1>1, KnownInductive
<1>5. QED
  BY <1>2, <1>3, <1>4, PTL DEF Spec

\* Every function of a compiled program ends with a RET, opens and closes the slots
\* of its counted loops at the same places however control gets there, has none open
\* at its end, and never more than the number its function table entry says.
Balanced ==
  status = "compiled" =>
    \A f \in DOMAIN t_code :
      /\ RetLast(t_code[f])
      /\ HasLevels(t_code[f], {}, 0, max_for_loop_level[f], Len(locals[f]))

LEMMA LevelsBalance ==
  ASSUME IInv, CodeInv, LevelsInv, LastInv
  PROVE  Balanced
<1>1. ASSUME status = "compiled", NEW f \in DOMAIN t_code
      PROVE  /\ RetLast(t_code[f])
             /\ HasLevels(t_code[f], {}, 0, max_for_loop_level[f], Len(locals[f]))
  <2>1. ctx = <<>>
    BY <1>1 DEF CodeInv
  <2>2. Ended(f)
    BY <1>1, <2>1 DEF Ended, OpenIn
  <2>3. f \in 1..Len(t_code) /\ for_loop_level = 0
    BY <2>1 DEF IInv, TypeOK, LevelsNest
  <2>4. LevelsIn(f) /\ LevelAtEnd(f) = 0
    BY <2>3 DEF LevelsInv, LevelAtEnd
  <2>5. HasLevels(t_code[f], {}, 0, max_for_loop_level[f], Len(locals[f]))
    <3>1. {} \subseteq FramesOf(ctx, f - 1)
      OBVIOUS
    <3>2. QED
      BY <2>4, <3>1, FewerFrames DEF LevelsIn
  <2>6. QED
    BY <2>2, <2>5 DEF LastInv
<1>2. QED
  BY <1>1 DEF Balanced

\* What the interpreter's loop stack relies on and nothing checks: compile_for_loop's
\* for_loop_level is the number of slots open at every instruction of its function,
\* whichever way control took, so that a loop variable's offset finds its own loop and
\* max_for_loop_level slots are enough.
THEOREM CompiledLoopsBalance ==
  ASSUME Odd \cap Oddities = {}
  PROVE  Spec => []Balanced
<1>1. IInv /\ CodeInv /\ LevelsInv /\ LastInv => Balanced
  BY LevelsBalance
<1>2. Spec => [](IInv /\ CodeInv /\ EndsInv /\ KnownInv /\ LevelsInv /\ LastInv)
  BY LevelsInductive
<1>3. QED
  BY <1>1, <1>2, PTL

-----------------------------------------------------------------------------
(* The code is a string of bytes.                                          *)

\* Every opcode has its byte, and every function its number in a byte: no program is
\* so long that CALL8 would not do.
BytesSuffice == T_OP_RET < ByteBase /\ MaxPhrases < ByteBase

\* A phrase defines at most one function.
BytesInv ==
  /\ phrases <= MaxPhrases
  /\ Len(t_code) <= phrases + 1
  /\ \A f \in 1..Len(t_code) : t_code[f] \in Seq(ByteValues)
  /\ \A name \in Names : symbols[name].kind = "func" => symbols[name].arg < Len(t_code)

LEMMA OpcodesAreBytes ==
  ASSUME BytesSuffice
  PROVE  {T_OP_PUSH8, T_OP_PUSH_INT8, T_OP_POP, T_OP_DUPE, T_OP_EXIT, T_OP_FOR_DEC_START,
          T_OP_FOR_DEC, T_OP_FOR_INC_START, T_OP_FOR_INC, T_OP_GET_LOOP_VAR, T_OP_JUMP,
          T_OP_JUMP_COND, T_OP_JUMP_NCOND, T_OP_LOCAL_GET, T_OP_LOCAL_SET, T_OP_CALL8, T_OP_RET}
           \subseteq ByteValues
BY ByteBaseAssumption
   DEF BytesSuffice, ByteValues, T_OP_PUSH8, T_OP_PUSH_INT8, T_OP_POP, T_OP_DUPE, T_OP_EXIT,
       T_OP_FOR_DEC_START, T_OP_FOR_DEC, T_OP_FOR_INC_START, T_OP_FOR_INC, T_OP_GET_LOOP_VAR,
       T_OP_JUMP, T_OP_JUMP_COND, T_OP_JUMP_NCOND, T_OP_LOCAL_GET, T_OP_LOCAL_SET, T_OP_CALL8,
       T_OP_RET

\* A patch overwrites two bytes, or none.
LEMMA PatchInBytes ==
  ASSUME NEW block \in Seq(ByteValues), NEW at \in Int, NEW v \in Int
  PROVE  Patched(block, at, v) \in Seq(ByteValues)
<1> DEFINE low == U16(v)[1]
           high == U16(v)[2]
<1>1. low \in ByteValues /\ high \in ByteValues
  <2>1. 0 \in ByteValues
    BY ByteBaseAssumption DEF ByteValues
  <2>2. QED
    BY <2>1, OperandInBytes
<1>2. Patched(block, at, v) = [block EXCEPT ![(at + 1) + 1] = low, ![(at + 1) + 2] = high]
  BY DEF Patched, overwrite_s16
<1>3. Len(block) \in Nat /\ block \in [1..Len(block) -> ByteValues]
  BY LenProperties
<1> HIDE DEF low, high
<1>4. [block EXCEPT ![(at + 1) + 1] = low, ![(at + 1) + 2] = high] \in [1..Len(block) -> ByteValues]
  BY <1>1, <1>3, Zenon
<1>5. \A n \in Nat : \A s \in [1..n -> ByteValues] : s \in Seq(ByteValues)
  BY IsASeq
<1>6. QED
  BY <1>2, <1>3, <1>4, <1>5

\* The phrases are counted, up to the bound.
Counted == phrases' \in Nat /\ phrases <= phrases' /\ phrases' <= MaxPhrases

LEMMA PhrasesCounted ==
  ASSUME IInv, BytesInv, (Reading /\ NextPhrase) \/ UNCHANGED phrases
  PROVE  Counted
<1>1. phrases \in Nat /\ phrases <= MaxPhrases /\ MaxPhrases \in Nat
  BY CompilerAssumption DEF IInv, TypeOK, BytesInv
<1>2. CASE Reading /\ NextPhrase
  BY <1>1, <1>2 DEF Reading, NextPhrase, Counted
<1>3. CASE UNCHANGED phrases
  BY <1>1, <1>3 DEF Counted
<1>4. QED
  BY <1>2, <1>3

LEMMA BytesHere ==
  ASSUME IInv, BytesInv
  PROVE  /\ TypeOK
         /\ Len(t_code) \in Nat /\ func_index + 1 \in 1..Len(t_code)
         /\ Block \in Seq(ByteValues) /\ Block \in Seq(Nat) /\ Count \in Nat
<1>1. TypeOK
  BY DEF IInv
<1>2. Len(t_code) \in Nat /\ Block \in Seq(Nat) /\ Count \in Nat
  BY <1>1, TablesOfTypeOK, CountType
<1>3. func_index + 1 \in 1..Len(t_code)
  BY <1>1, <1>2 DEF TypeOK
<1>4. QED
  BY <1>1, <1>2, <1>3 DEF BytesInv, Block

\* Steps that leave the code alone, and bind no name to a function.
LEMMA BytesStay ==
  ASSUME IInv, BytesInv, Counted, UNCHANGED t_code,
         \A name \in Names : symbols'[name] = symbols[name] \/ symbols'[name].kind # "func"
  PROVE  BytesInv'
<1>1. phrases \in Nat /\ phrases' \in Nat /\ phrases <= phrases' /\ phrases' <= MaxPhrases
  BY DEF IInv, TypeOK, Counted
<1>2. Len(t_code) \in Nat
  BY BytesHere
<1>3. Len(t_code') <= phrases' + 1
  BY <1>1, <1>2 DEF BytesInv
<1>4. QED
  BY <1>1, <1>3 DEF BytesInv

LEMMA BytesWritten ==
  ASSUME IInv, BytesInv, Counted, UNCHANGED symbols, NEW block \in Seq(ByteValues),
         Wrote(t_code, t_code', func_index + 1, block)
  PROVE  BytesInv'
<1>1. phrases \in Nat /\ phrases' \in Nat /\ phrases <= phrases' /\ phrases' <= MaxPhrases
  BY DEF IInv, TypeOK, Counted
<1>2. /\ Len(t_code') = Len(t_code)
      /\ \A f \in 1..Len(t_code) : t_code'[f] = IF f = func_index + 1 THEN block ELSE t_code[f]
  BY DEF Wrote
<1>3. Len(t_code) \in Nat
  BY BytesHere
<1>4. Len(t_code') <= phrases' + 1
  BY <1>1, <1>2, <1>3 DEF BytesInv
<1>5. \A f \in 1..Len(t_code') : t_code'[f] \in Seq(ByteValues)
  BY <1>2, Zenon DEF BytesInv
<1>6. \A name \in Names : symbols'[name].kind = "func" => symbols'[name].arg < Len(t_code')
  BY <1>2 DEF BytesInv
<1>7. QED
  BY <1>1, <1>4, <1>5, <1>6 DEF BytesInv

LEMMA BytesEmitted ==
  ASSUME IInv, BytesInv, Counted, UNCHANGED symbols, NEW bytes \in Seq(ByteValues), Emit(bytes)
  PROVE  BytesInv'
<1>1. bytes \in Seq(Nat)
  BY BytesAreNumbers
<1>2. Wrote(t_code, t_code', func_index + 1, Block \o bytes)
  BY <1>1, BytesHere, EmitWrites
<1>3. Block \o bytes \in Seq(ByteValues)
  BY BytesHere, ConcatProperties
<1>4. QED
  BY <1>2, <1>3, BytesWritten

LEMMA BytesSet ==
  ASSUME IInv, BytesInv, Counted, UNCHANGED symbols, NEW block \in Seq(ByteValues), SetBlock(block)
  PROVE  BytesInv'
<1>1. block \in Seq(Nat)
  BY BytesAreNumbers
<1>2. QED
  BY <1>1, BytesHere, SetWrites, BytesWritten

LEMMA SymbolInBytes ==
  ASSUME BytesSuffice, IInv, BytesInv, Counted, NEW n \in Names, CompileSymbol(n)
  PROVE  BytesInv'
<1> DEFINE s == symbols[n]
<1>1. /\ s.arg \in Nat
      /\ for_loop_level \in Nat
      /\ s.kind \in {"loop_var", "func", "var"}
  BY DEF IInv, TypeOK, CompileSymbol, SymbolRefused, Symbols
<1>2. UNCHANGED symbols /\ Emit(SymbolCode(s)) /\ phrases < MaxPhrases
  BY DEF CompileSymbol, Reading
<1>3. s.kind = "func" => s.arg \in ByteValues
  <2>1. phrases \in Nat /\ MaxPhrases \in Nat /\ MaxPhrases < ByteBase /\ ByteBase \in Nat
    BY CompilerAssumption, ByteBaseAssumption DEF IInv, TypeOK, BytesSuffice
  <2>2. s.kind = "func" => s.arg < Len(t_code) /\ Len(t_code) <= phrases + 1
    BY DEF BytesInv
  <2>3. Len(t_code) \in Nat
    BY BytesHere
  <2> HIDE DEF s
  <2>4. QED
    BY <1>1, <1>2, <2>1, <2>2, <2>3 DEF ByteValues
<1> HIDE DEF s
<1>4. {T_OP_GET_LOOP_VAR, T_OP_LOCAL_GET, T_OP_CALL8} \subseteq ByteValues
  BY OpcodesAreBytes
<1>5. SymbolCode(s) \in Seq(ByteValues)
  <2>1. CASE s.kind = "loop_var"
    <3>1. for_loop_level - s.arg \in Int
      BY <1>1
    <3>2. SymbolCode(s) = <<T_OP_GET_LOOP_VAR>> \o U16(for_loop_level - s.arg)
      BY <2>1 DEF SymbolCode
    <3>3. QED
      BY <1>4, <3>1, <3>2, OperandInBytes
  <2>2. CASE s.kind = "var"
    <3>1. SymbolCode(s) = <<T_OP_LOCAL_GET>> \o U16(s.arg) /\ s.arg \in Int
      BY <1>1, <2>2 DEF SymbolCode
    <3>2. QED
      BY <1>4, <3>1, OperandInBytes
  <2>3. CASE s.kind = "func"
    <3>1. SymbolCode(s) = <<T_OP_CALL8, s.arg>>
      BY <2>3 DEF SymbolCode
    <3>2. QED
      BY <1>3, <1>4, <2>3, <3>1
  <2>4. QED
    BY <1>1, <2>1, <2>2, <2>3
<1>6. QED
  BY <1>2, <1>5, BytesEmitted

LEMMA ClosingInBytes ==
  ASSUME IInv, BytesInv, Counted, NEW start \in Nat, NEW else_start \in Nat, NEW end \in Nat,
         CloseConditional(start, else_start, end)
  PROVE  BytesInv'
<1> DEFINE skip == else_start - start - 1
           jump_addr == else_start - 3
           leap == end - jump_addr - 1
           skipped == Patched(Block, start, skip)
           leapt == Patched(skipped, jump_addr, leap)
<1>1. skip \in Int /\ jump_addr \in Int /\ leap \in Int
  OBVIOUS
<1>2. SetBlock(skipped) \/ SetBlock(leapt) \/ UNCHANGED t_code
  BY DEF CloseConditional
<1>3. UNCHANGED symbols
  BY DEF CloseConditional
<1> HIDE DEF skip, jump_addr, leap
<1>4. skipped \in Seq(ByteValues)
  BY <1>1, BytesHere, PatchInBytes
<1> HIDE DEF skipped
<1>5. leapt \in Seq(ByteValues)
  BY <1>1, <1>4, PatchInBytes
<1> HIDE DEF leapt
<1>6. QED
  BY <1>2, <1>3, <1>4, <1>5, BytesSet, BytesStay

LEMMA LoopInBytes ==
  ASSUME BytesSuffice, IInv, BytesInv, Counted, WhileEnd \/ ForEnd
  PROVE  BytesInv'
<1> DEFINE op   == IF WhileEnd THEN T_OP_JUMP
                   ELSE IF Top.slots = 1 THEN T_OP_FOR_DEC ELSE T_OP_FOR_INC
           back == IF WhileEnd THEN Top.start ELSE Top.body
           b    == IF WhileEnd THEN Top.body ELSE Top.start
           looped == Looped(Block, op, back)
<1>1. Top \in Frames
  <2>1. ctx \in Seq(Frames) /\ Len(ctx) > 0
    BY DEF IInv, TypeOK, WhileEnd, ForEnd, In
  <2>2. QED
    BY <2>1 DEF Top
<1>2. b \in Nat /\ back \in Nat
  BY <1>1 DEF Frames
<1>3. op \in ByteValues
  BY OpcodesAreBytes
<1>4. UNCHANGED symbols
  BY DEF WhileEnd, ForEnd, Fail
<1>5. SetBlock(Patched(looped, b, Len(looped) - b - 1)) \/ UNCHANGED t_code
  BY DEF WhileEnd, ForEnd, Looped, Fail, Count
<1> HIDE DEF op, back, b
<1>6. looped \in Seq(ByteValues) /\ Len(looped) \in Nat
  <2>1. back - Len(Block) - 1 \in Int /\ Block \in Seq(ByteValues)
    BY <1>2, BytesHere DEF Count
  <2>2. op \in Nat
    BY <1>3, ByteBaseAssumption DEF ByteValues
  <2>3. looped = LoopBack(Block, op, back)
    BY <1>2, <2>2, BytesHere, LoopWritten
  <2>4. <<op>> \o U16(back - Len(Block) - 1) \in Seq(ByteValues)
    BY <1>3, <2>1, OperandInBytes
  <2> HIDE DEF looped
  <2>5. looped \in Seq(ByteValues)
    BY <2>1, <2>3, <2>4, ConcatProperties DEF LoopBack
  <2>6. QED
    BY <2>5, LenProperties
<1> HIDE DEF looped
<1>7. Patched(looped, b, Len(looped) - b - 1) \in Seq(ByteValues)
  <2>1. b \in Int /\ Len(looped) - b - 1 \in Int
    BY <1>2, <1>6
  <2>2. QED
    BY <1>6, <2>1, PatchInBytes
<1>8. QED
  BY <1>4, <1>5, <1>7, BytesSet, BytesStay

LEMMA FunctionInBytes ==
  ASSUME IInv, BytesInv, NEW n \in FuncNames, NEW sig \in Signatures, CompileFunction(n, sig)
  PROVE  BytesInv'
<1> DEFINE count == Len(t_code)
<1>1. /\ t_code' = Append(t_code, <<>>)
      /\ symbols' = [symbols EXCEPT ![n] = Symbol("func", count, 0)]
      /\ phrases < MaxPhrases /\ phrases' = phrases + 1
  BY DEF CompileFunction, Reading, NextPhrase
<1>2. t_code \in Seq(Seq(Nat)) /\ count \in Nat /\ phrases \in Nat /\ MaxPhrases \in Nat
  BY TablesOfTypeOK, CompilerAssumption DEF IInv, TypeOK
<1>3. /\ Len(t_code') = count + 1
      /\ \A f \in 1..count : t_code'[f] = t_code[f]
      /\ t_code'[count + 1] = <<>>
  <2>1. <<>> \in Seq(Nat)
    OBVIOUS
  <2>2. QED
    BY <1>1, <1>2, <2>1, AppendProperties
<1>4. /\ \A f \in 1..count : t_code[f] \in Seq(ByteValues)
      /\ \A name \in Names : symbols[name].kind = "func" => symbols[name].arg < count
      /\ count <= phrases + 1
  BY DEF BytesInv
<1>5. symbols \in [Names -> Symbols]
  BY DEF IInv, TypeOK
<1> HIDE DEF count
<1>6. \A f \in 1..(count + 1) : t_code'[f] \in Seq(ByteValues)
  <2>1. \A f \in 1..(count + 1) : f \in 1..count \/ f = count + 1
    BY <1>2
  <2>2. <<>> \in Seq(ByteValues)
    OBVIOUS
  <2>3. QED
    BY <1>3, <1>4, <2>1, <2>2
<1>7. ASSUME NEW name \in Names, symbols'[name].kind = "func"
      PROVE  symbols'[name].arg < count + 1
  <2>1. CASE symbols'[name] = symbols[name]
    <3>1. symbols[name].arg \in Nat
      BY <1>5 DEF Symbols
    <3>2. QED
      BY <1>2, <1>4, <1>7, <2>1, <3>1
  <2>2. CASE symbols'[name] # symbols[name]
    <3>1. symbols'[name] = Symbol("func", count, 0)
      BY <1>1, <1>5, <2>2
    <3>2. QED
      BY <1>2, <3>1 DEF Symbol
  <2>3. QED
    BY <2>1, <2>2
<1>8. phrases' <= MaxPhrases /\ Len(t_code') <= phrases' + 1
  BY <1>1, <1>2, <1>3, <1>4
<1>9. QED
  BY <1>3, <1>6, <1>7, <1>8 DEF BytesInv

LEMMA NextKeepsBytes ==
  ASSUME BytesSuffice, IInv, BytesInv, [Next]_vars
  PROVE  BytesInv'
<1>1. Counted
  BY PhrasesCounted
     DEF Next, Step, Stopped, vars, CompileInteger, CompileSimple, CompileSymbol, RefuseSymbol,
         CompileVar, CompileAssignment, RefuseAssignment, CompileIf, ConditionalThen,
         ConditionalElse, ConditionalElif, ConditionalEnd, ReturnToElif, ReturnFromConditional,
         CompileWhile, WhileDo, WhileEnd, CompileFor, CompileForVar, ForDo, ForEnd,
         CompileFunction, FunctionEnd, Finish, Unexpected
<1>2. CASE \E op \in LiteralOps : \E v \in Literals : CompileInteger(op, v)
  <2>1. PICK op \in LiteralOps, v \in Literals : CompileInteger(op, v)
    BY <1>2
  <2>2. op \in ByteValues /\ v \in ByteValues
    BY CompilerAssumption, OpcodesAreBytes DEF ByteValues
  <2>3. <<op, v>> \in Seq(ByteValues)
    BY <2>2
  <2>4. QED
    BY <1>1, <2>1, <2>3, BytesEmitted DEF CompileInteger
<1>3. CASE \E op \in SimpleOps : CompileSimple(op)
  <2>1. PICK op \in SimpleOps : CompileSimple(op)
    BY <1>3
  <2>2. op \in ByteValues
    BY CompilerAssumption, OpcodesAreBytes
  <2>3. <<op>> \in Seq(ByteValues)
    BY <2>2
  <2>4. QED
    BY <1>1, <2>1, <2>3, BytesEmitted DEF CompileSimple
<1>4. CASE \E n \in Names : CompileSymbol(n)
  BY <1>1, <1>4, SymbolInBytes
<1>5. CASE \E n \in VarNames : CompileAssignment(n)
  <2>1. PICK n \in VarNames : CompileAssignment(n)
    BY <1>5
  <2>2. symbols[n].arg \in Int
    BY DEF IInv, TypeOK, Symbols, Names
  <2>3. <<T_OP_LOCAL_SET>> \o U16(symbols[n].arg) \in Seq(ByteValues)
    BY <2>2, OpcodesAreBytes, OperandInBytes
  <2>4. QED
    BY <1>1, <2>1, <2>3, BytesEmitted DEF CompileAssignment
<1>6. CASE \/ \E n \in VarNames : CompileVar(n)
           \/ \E n \in LoopNames : \E slots \in {1, 2} : CompileForVar(n, slots)
  <2>1. PICK n, s : /\ n \in Names /\ symbols' = [symbols EXCEPT ![n] = s]
                    /\ s.kind # "func" /\ UNCHANGED t_code
    <3>1. CASE \E n \in VarNames : CompileVar(n)
      <4>1. PICK n \in VarNames : CompileVar(n)
        BY <3>1
      <4> DEFINE s == Symbol("var", Len(locals[func_index + 1]), func_index)
      <4>2. s.kind # "func"
        BY DEF Symbol
      <4>3. n \in Names /\ symbols' = [symbols EXCEPT ![n] = s] /\ UNCHANGED t_code
        BY <4>1 DEF CompileVar, Names
      <4> HIDE DEF s
      <4>4. QED
        BY <4>2, <4>3
    <3>2. CASE \E n \in LoopNames : \E slots \in {1, 2} : CompileForVar(n, slots)
      <4>1. PICK n \in LoopNames, slots \in {1, 2} : CompileForVar(n, slots)
        BY <3>2
      <4> DEFINE s == Symbol("loop_var", for_loop_level + slots, 0)
      <4>2. s.kind # "func"
        BY DEF Symbol
      <4>3. n \in Names /\ symbols' = [symbols EXCEPT ![n] = s] /\ UNCHANGED t_code
        BY <4>1 DEF CompileForVar, Names
      <4> HIDE DEF s
      <4>4. QED
        BY <4>2, <4>3
    <3>3. QED
      BY <1>6, <3>1, <3>2
  <2>2. symbols \in [Names -> Symbols]
    BY DEF IInv, TypeOK
  <2>3. QED
    BY <1>1, <2>1, <2>2, BytesStay
<1>7. CASE ConditionalThen \/ ConditionalElse \/ ConditionalElif \/ WhileDo \/ ForDo
  <2>1. UNCHANGED symbols
    BY <1>7 DEF ConditionalThen, ConditionalElse, ConditionalElif, WhileDo, ForDo
  <2>2. PICK op \in {T_OP_JUMP, T_OP_JUMP_NCOND, T_OP_FOR_DEC_START, T_OP_FOR_INC_START} :
          Emit(<<op>> \o U16(0))
    BY <1>7 DEF ConditionalThen, ConditionalElse, ConditionalElif, WhileDo, ForDo
  <2>3. <<op>> \o U16(0) \in Seq(ByteValues)
    BY OpcodesAreBytes, OperandInBytes
  <2>4. QED
    BY <1>1, <2>1, <2>2, <2>3, BytesEmitted
<1>8. CASE ConditionalEnd \/ ReturnToElif
  <2>1. In({"then", "else", "elif"})
    BY <1>8 DEF ConditionalEnd, ReturnToElif, In
  <2>2. Top \in Frames
    <3>1. ctx \in Seq(Frames) /\ Len(ctx) > 0
      BY <2>1 DEF IInv, TypeOK, In
    <3>2. QED
      BY <3>1 DEF Top
  <2>3. Top.start \in Nat /\ Top.body \in Nat /\ Count \in Nat /\ end_addr \in Nat
    BY <2>2, BytesHere DEF Frames, TypeOK
  <2>4. CASE ConditionalEnd
    <3> DEFINE else_start == IF Top.kind = "then" THEN Count ELSE Top.body
    <3>1. CloseConditional(Top.start, else_start, Count) /\ else_start \in Nat
      BY <2>3, <2>4 DEF ConditionalEnd
    <3> HIDE DEF else_start
    <3>2. QED
      BY <1>1, <2>3, <3>1, ClosingInBytes
  <2>5. CASE ReturnToElif
    <3>1. CloseConditional(Top.start, Top.body, end_addr)
      BY <2>5 DEF ReturnToElif
    <3>2. QED
      BY <1>1, <2>3, <3>1, ClosingInBytes
  <2>6. QED
    BY <1>8, <2>4, <2>5
<1>9. CASE WhileEnd \/ ForEnd
  BY <1>1, <1>9, LoopInBytes
<1>10. CASE \E n \in FuncNames : \E sig \in Signatures : CompileFunction(n, sig)
  BY <1>10, FunctionInBytes
<1>11. CASE FunctionEnd \/ Finish
  <2>1. <<T_OP_RET>> \in Seq(ByteValues) /\ <<>> \in Seq(ByteValues)
    <3>1. T_OP_RET \in ByteValues
      BY OpcodesAreBytes
    <3>2. QED
      BY <3>1
  <2>2. UNCHANGED symbols /\ (Emit(<<T_OP_RET>>) \/ Emit(<<>>))
    BY <1>11 DEF FunctionEnd, Finish
  <2>3. QED
    BY <1>1, <2>1, <2>2, BytesEmitted
<1>12. CASE \/ CompileIf \/ ReturnFromConditional \/ CompileWhile \/ CompileFor
            \/ \E n \in Names : RefuseSymbol(n)
            \/ \E n \in VarNames : RefuseAssignment(n)
            \/ Unexpected \/ Stopped \/ UNCHANGED vars
  <2>1. UNCHANGED <<t_code, symbols>>
    BY <1>12 DEF CompileIf, ReturnFromConditional, CompileWhile, CompileFor, RefuseSymbol,
                 RefuseAssignment, Unexpected, Stopped, vars, Fail
  <2>2. QED
    BY <1>1, <2>1, BytesStay
<1>13. QED
  BY <1>2, <1>3, <1>4, <1>5, <1>6, <1>7, <1>8, <1>9, <1>10, <1>11, <1>12 DEF Next, Step

LEMMA InitInBytes ==
  ASSUME Init
  PROVE  BytesInv
<1>1. /\ Len(t_code) = 1 /\ t_code[1] = <<>> /\ phrases = 0
      /\ \A name \in Names : symbols[name].kind = "none"
  BY DEF Init, None
<1>2. <<>> \in Seq(ByteValues) /\ \A f \in 1..1 : f = 1
  OBVIOUS
<1>3. \A f \in 1..Len(t_code) : t_code[f] \in Seq(ByteValues)
  BY <1>1, <1>2
<1>4. \A name \in Names : symbols[name].kind = "func" => symbols[name].arg < Len(t_code)
  BY <1>1
<1>5. phrases <= MaxPhrases /\ Len(t_code) <= phrases + 1
  BY <1>1, CompilerAssumption
<1>6. QED
  BY <1>3, <1>4, <1>5 DEF BytesInv

\* emit_* and patch_jump: as long as bytes have room for the opcodes and the functions,
\* the code of a program is bytes, even where a jump was truncated (long_while): an
\* operand is reduced to its two bytes whenever it is written.
THEOREM CodeAlwaysInBytes ==
  ASSUME BytesSuffice
  PROVE  Spec => [](IInv /\ BytesInv)
<1>1. Init => IInv /\ BytesInv
  BY InitKeeps, InitInBytes
<1>2. (IInv /\ BytesInv) /\ [Next]_vars => (IInv /\ BytesInv)'
  BY NextKeeps, NextKeepsBytes
<1>3. QED
  BY <1>1, <1>2, PTL DEF Spec
===============================================================================
