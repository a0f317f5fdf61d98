---------------------------- MODULE RegionProofs ----------------------------
(***************************************************************************)
(* For chains of arenas of any size, any sizes asked for and any number of *)
(* blocks and fences: blocks are apart, fresh blocks are zero, and blocks  *)
(* in use are kept.                                                        *)
(***************************************************************************)
EXTENDS Region, SequenceTheorems, TLAPS

\* The inductive invariant.  That a fresh block is zero needs every byte above
\* the count of its arena to be, and that closing a fence zeroes no block
\* needs the blocks of the fence to lie below its count.
RegionTypeOK ==
  /\ alloc_count \in Seq(0 .. RegionSize)
  /\ Len(alloc_count) \in Arenas
  /\ written \subseteq Arenas \X Nat
  /\ blocks \subseteq Blocks
  /\ fences \in Seq([count : 0 .. RegionSize, blocks : SUBSET Blocks])

WrittenIsGivenOut ==
  \A w \in written : w[1] \in DOMAIN alloc_count /\ w[2] < alloc_count[w[1]]

BlocksAreWritten == \A b \in blocks : Bytes(b) \subseteq written

FencesHold ==
  /\ \A i \in DOMAIN fences :
       /\ fences[i].count <= alloc_count[1]
       /\ fences[i].blocks \subseteq blocks
       /\ \A b \in fences[i].blocks : b.arena = 1 => b.start + b.size <= fences[i].count
  /\ \A i, j \in DOMAIN fences :
       i < j => /\ fences[i].count <= fences[j].count
                /\ fences[i].blocks \subseteq fences[j].blocks

RegionInv ==
  /\ RegionTypeOK
  /\ BlocksApart
  /\ WrittenIsGivenOut
  /\ BlocksAreWritten
  /\ FencesHold
-----------------------------------------------------------------------------
\* Aligning never goes back, never leads past the end of an arena, and an
\* empty arena is aligned.
LEMMA AlignedInside ==
  ASSUME NEW size \in Nat, NEW count \in 0 .. RegionSize
  PROVE  /\ AlignTo(Alignment(size), count) \in count .. RegionSize
         /\ Alignment(size) \in Nat
<1>1. Alignment(size) \in {1, 2, 4, 8, 16}
  BY DEF Alignment
<1>2. ASSUME NEW a \in {1, 2, 4, 8, 16} PROVE AlignTo(a, count) \in count .. RegionSize
  <2>1. CASE a = 1  BY <2>1, RegionAssumption DEF AlignTo
  <2>2. CASE a = 2  BY <2>2, RegionAssumption DEF AlignTo
  <2>3. CASE a = 4  BY <2>3, RegionAssumption DEF AlignTo
  <2>4. CASE a = 8  BY <2>4, RegionAssumption DEF AlignTo
  <2>5. CASE a = 16 BY <2>5, RegionAssumption DEF AlignTo
  <2> QED BY <1>2, <2>1, <2>2, <2>3, <2>4, <2>5
<1> QED BY <1>1, <1>2

\* The counts as a function on 1 .. Len(alloc_count).
LEMMA Counts ==
  ASSUME RegionTypeOK
  PROVE  /\ Len(alloc_count) \in Nat \ {0}
         /\ DOMAIN alloc_count = 1 .. Len(alloc_count)
         /\ alloc_count \in [1 .. Len(alloc_count) -> 0 .. RegionSize]
         /\ \A r \in DOMAIN alloc_count : alloc_count[r] \in 0 .. RegionSize
BY LenProperties, RegionAssumption DEF RegionTypeOK, Arenas

\* What the two changes of a sequence leave, as functions.
LEMMA Appended ==
  ASSUME NEW S, NEW seq \in Seq(S), NEW e \in S
  PROVE  /\ Append(seq, e) \in Seq(S)
         /\ Len(Append(seq, e)) = Len(seq) + 1
         /\ DOMAIN Append(seq, e) = 1 .. Len(seq) + 1
         /\ \A i \in 1 .. Len(seq) : Append(seq, e)[i] = seq[i]
         /\ Append(seq, e)[Len(seq) + 1] = e
BY AppendProperties, LenProperties

LEMMA Replaced ==
  ASSUME NEW S, NEW seq \in Seq(S), NEW e \in S, NEW r \in 1 .. Len(seq)
  PROVE  /\ [seq EXCEPT ![r] = e] \in Seq(S)
         /\ Len([seq EXCEPT ![r] = e]) = Len(seq)
         /\ DOMAIN [seq EXCEPT ![r] = e] = 1 .. Len(seq)
         /\ \A i \in 1 .. Len(seq) : [seq EXCEPT ![r] = e][i] = IF i = r THEN e ELSE seq[i]
BY ExceptSeq, LenProperties

LEMMA StartInside ==
  ASSUME RegionTypeOK, NEW size \in Nat, NEW r \in DOMAIN alloc_count
  PROVE  Start(r, size) \in alloc_count[r] .. RegionSize
<1>1. alloc_count[r] \in 0 .. RegionSize
  BY Counts
<1> QED BY <1>1, AlignedInside DEF Start

\* What aligning the arenas on the way leaves.
LEMMA PassedCounts ==
  ASSUME RegionTypeOK, NEW size \in Nat, NEW r \in Nat
  PROVE  /\ Passed(r, size) \in Seq(0 .. RegionSize)
         /\ Len(Passed(r, size)) = Len(alloc_count)
         /\ \A q \in DOMAIN alloc_count : /\ Passed(r, size)[q] >= alloc_count[q]
                                          /\ q >= r => Passed(r, size)[q] = alloc_count[q]
<1>1. \A q \in DOMAIN alloc_count : Start(q, size) \in alloc_count[q] .. RegionSize
  BY StartInside
<1>2. DOMAIN alloc_count = 1 .. Len(alloc_count) /\ Len(alloc_count) \in Nat
  BY Counts
<1>3. \A q \in DOMAIN alloc_count : alloc_count[q] \in 0 .. RegionSize
  BY Counts
<1>4. \A q \in DOMAIN alloc_count : Passed(r, size)[q] = IF q < r THEN Start(q, size) ELSE alloc_count[q]
  BY DEF Passed
<1>5. DOMAIN Passed(r, size) = 1 .. Len(alloc_count)
  BY <1>2 DEF Passed
<1>6. \A q \in DOMAIN alloc_count : Passed(r, size)[q] \in 0 .. RegionSize
  BY <1>1, <1>3, <1>4
<1>7. Passed(r, size) \in Seq(0 .. RegionSize)
  BY <1>2, <1>5, <1>6, <1>4 DEF Passed
<1>8. Len(Passed(r, size)) = Len(alloc_count)
  BY <1>2, <1>5, <1>7
<1> QED BY <1>1, <1>2, <1>3, <1>4, <1>7, <1>8
-----------------------------------------------------------------------------
LEMMA BytesOfBlock ==
  ASSUME NEW b
  PROVE  \A w : w \in Bytes(b) <=> \E p \in b.start .. b.start + b.size - 1 : w = <<b.arena, p>>
BY DEF Bytes

THEOREM RegionInitial == RegionInit => RegionInv
<1> SUFFICES ASSUME RegionInit PROVE RegionInv
  OBVIOUS
<1>1. RegionTypeOK
  BY RegionAssumption, EmptySeq DEF RegionInit, RegionTypeOK, Arenas
<1>2. BlocksApart /\ WrittenIsGivenOut /\ BlocksAreWritten /\ FencesHold
  BY DEF RegionInit, BlocksApart, WrittenIsGivenOut, BlocksAreWritten, FencesHold
<1> QED BY <1>1, <1>2 DEF RegionInv

\* The new block lies above everything that was given out of its arena.
LEMMA AllocKeeps ==
  ASSUME RegionInv, NEW size \in Nat, 0 < size, size <= RegionSize,
         NEW r \in Arenas, r <= Len(alloc_count) + 1, AllocFrom(r, size)
  PROVE  /\ RegionInv'
         /\ \A b \in blocks' \ blocks : Bytes(b) \cap written = {}
         /\ written \subseteq written'
<1> DEFINE n == Len(alloc_count)
           new == r = n + 1
           start == IF new THEN 0 ELSE Start(r, size)
           block == [arena |-> r, start |-> start, size |-> size]
<1>a. /\ n \in Nat \ {0} /\ DOMAIN alloc_count = 1 .. n
      /\ \A q \in 1 .. n : alloc_count[q] \in 0 .. RegionSize
  BY Counts DEF RegionInv
<1>b. r \in 1 .. n + 1 /\ RegionSize \in Nat /\ r \in Nat
  BY <1>a, RegionAssumption DEF Arenas
<1>c. ~ new => start \in alloc_count[r] .. RegionSize /\ start + size <= RegionSize
  BY <1>a, <1>b, StartInside DEF RegionInv, AllocFrom, Fits
<1>d. start \in Nat /\ start + size <= RegionSize
  BY <1>a, <1>b, <1>c
<1>e. /\ Passed(r, size) \in Seq(0 .. RegionSize)
      /\ Len(Passed(r, size)) = n
      /\ \A q \in 1 .. n : /\ Passed(r, size)[q] >= alloc_count[q]
                           /\ q >= r => Passed(r, size)[q] = alloc_count[q]
  BY <1>a, <1>b, PassedCounts DEF RegionInv
<1>f. /\ alloc_count' = IF new THEN Append(Passed(r, size), size)
                        ELSE [Passed(r, size) EXCEPT ![r] = start + size]
      /\ blocks' = blocks \cup {block}
      /\ written' = written \cup Bytes(block)
      /\ fences' = fences
  BY DEF AllocFrom
<1>1. /\ alloc_count' \in Seq(0 .. RegionSize)
      /\ Len(alloc_count') = IF new THEN n + 1 ELSE n
      /\ DOMAIN alloc_count' = 1 .. Len(alloc_count')
      /\ \A q \in 1 .. n : alloc_count'[q] >= alloc_count[q]
      /\ alloc_count'[r] = start + size
      /\ \A q \in DOMAIN alloc_count' : alloc_count'[q] \in 0 .. RegionSize
  <2>1. CASE new
    <3>1. alloc_count' = Append(Passed(r, size), size) /\ r = n + 1 /\ start = 0
      BY <2>1, <1>f
    <3>2. size \in 0 .. RegionSize /\ start + size = size
      BY <1>b, <3>1
    <3>3. /\ alloc_count' \in Seq(0 .. RegionSize)
          /\ Len(alloc_count') = n + 1
          /\ DOMAIN alloc_count' = 1 .. n + 1
          /\ \A q \in 1 .. n : alloc_count'[q] = Passed(r, size)[q]
          /\ alloc_count'[n + 1] = size
      BY <1>e, <3>1, <3>2, Appended
    <3>4. \A q \in 1 .. n + 1 : alloc_count'[q] \in 0 .. RegionSize
      BY <3>3, ElementOfSeq
    <3>5. ASSUME NEW q \in 1 .. n PROVE alloc_count'[q] >= alloc_count[q]
      <4>1. alloc_count'[q] = Passed(r, size)[q]
        BY <3>3
      <4>2. Passed(r, size)[q] >= alloc_count[q]
        BY <1>e
      <4> QED BY <4>1, <4>2
    <3> HIDE DEF n, start
    <3> QED BY <2>1, <3>1, <3>2, <3>3, <3>4, <3>5
  <2>2. CASE ~ new
    <3>1. alloc_count' = [Passed(r, size) EXCEPT ![r] = start + size] /\ r \in 1 .. n
      BY <2>2, <1>a, <1>b, <1>f
    <3>2. start + size \in 0 .. RegionSize /\ start >= alloc_count[r]
      BY <1>a, <1>b, <1>c, <1>d, <2>2, <3>1
    <3>3. /\ alloc_count' \in Seq(0 .. RegionSize)
          /\ Len(alloc_count') = n
          /\ DOMAIN alloc_count' = 1 .. n
          /\ \A q \in 1 .. n : alloc_count'[q] = IF q = r THEN start + size ELSE Passed(r, size)[q]
      BY <1>e, <3>1, <3>2, Replaced
    <3>4. \A q \in 1 .. n : alloc_count'[q] \in 0 .. RegionSize
      BY <3>3, ElementOfSeq
    <3>5. \A q \in 1 .. n : alloc_count'[q] >= alloc_count[q]
      <4>1. ASSUME NEW q \in 1 .. n, q # r PROVE alloc_count'[q] >= alloc_count[q]
        <5>1. alloc_count'[q] = Passed(r, size)[q]
          BY <4>1, <3>3
        <5>2. Passed(r, size)[q] >= alloc_count[q]
          BY <1>e
        <5> QED BY <5>1, <5>2
      <4>2. start + size >= alloc_count[r]
        BY <3>1, <3>2, <1>a, <1>d
      <4>3. alloc_count'[r] = start + size
        BY <3>1, <3>3
      <4> HIDE DEF n, start
      <4> QED BY <4>1, <4>2, <4>3
    <3> QED BY <2>2, <3>1, <3>3, <3>4, <3>5
  <2> QED BY <2>1, <2>2
<1>2. block \in Blocks
  BY <1>d DEF Blocks
<1>3. \A w \in Bytes(block) : w \in Arenas \X Nat /\ w[1] = r /\ start <= w[2] /\ w[2] < start + size
  BY <1>d, BytesOfBlock
<1>4. RegionTypeOK'
  BY <1>1, <1>2, <1>3, <1>a, <1>b, <1>f DEF RegionInv, RegionTypeOK, Arenas
<1>5. Bytes(block) \cap written = {}
  <2> SUFFICES ASSUME NEW w \in Bytes(block), w \in written PROVE FALSE
    OBVIOUS
  <2>1. w[1] \in DOMAIN alloc_count /\ w[2] < alloc_count[w[1]]
    BY DEF RegionInv, WrittenIsGivenOut
  <2>2. w[2] \in Nat
    BY DEF RegionInv, RegionTypeOK
  <2> QED BY <2>1, <2>2, <1>3, <1>a, <1>b, <1>c, <1>d
<1>6. BlocksApart'
  <2>1. ASSUME NEW b \in blocks'
        PROVE  /\ b.arena \in DOMAIN alloc_count' /\ b.size > 0
               /\ b.start + b.size <= alloc_count'[b.arena]
               /\ alloc_count'[b.arena] <= RegionSize
    <3>1. CASE b = block
      BY <3>1, <1>1, <1>a, <1>b, <1>d
    <3>2. CASE b \in blocks
      <4>1. /\ b \in Blocks /\ b.arena \in 1 .. n /\ b.size > 0
            /\ b.start + b.size <= alloc_count[b.arena]
        BY <3>2, <1>a DEF RegionInv, BlocksApart, RegionTypeOK
      <4>2. b.start + b.size \in Nat /\ b.arena \in DOMAIN alloc_count'
        BY <4>1, <1>1, <1>a DEF Blocks
      <4>3. alloc_count'[b.arena] \in 0 .. RegionSize /\ alloc_count'[b.arena] >= alloc_count[b.arena]
        BY <4>1, <4>2, <1>1
      <4> QED BY <4>1, <4>2, <4>3, <1>a, <1>b
    <3> QED BY <2>1, <3>1, <3>2, <1>f
  <2>2. ASSUME NEW b \in blocks', NEW c \in blocks', b # c
        PROVE  Bytes(b) \cap Bytes(c) = {}
    BY <2>2, <1>5, <1>f DEF RegionInv, BlocksApart, BlocksAreWritten
  <2> QED BY <2>1, <2>2 DEF BlocksApart
<1>7. WrittenIsGivenOut'
  <2> SUFFICES ASSUME NEW w \in written'
               PROVE  w[1] \in DOMAIN alloc_count' /\ w[2] < alloc_count'[w[1]]
    BY DEF WrittenIsGivenOut
  <2>1. CASE w \in Bytes(block)
    BY <2>1, <1>1, <1>3, <1>a, <1>b
  <2>2. CASE w \in written
    <3>1. w[1] \in 1 .. n /\ w[2] < alloc_count[w[1]] /\ w[2] \in Nat
      BY <2>2, <1>a DEF RegionInv, WrittenIsGivenOut, RegionTypeOK
    <3> QED BY <3>1, <1>1, <1>a
  <2> QED BY <2>1, <2>2, <1>f
<1>8. BlocksAreWritten'
  BY <1>f DEF RegionInv, BlocksAreWritten
<1>9. FencesHold'
  <2>1. alloc_count'[1] >= alloc_count[1] /\ alloc_count[1] \in Nat /\ alloc_count'[1] \in Nat
    BY <1>1, <1>a
  <2>2. \A i \in DOMAIN fences : fences[i].count \in Nat
    <3>1. \A i \in DOMAIN fences : fences[i] \in [count : 0 .. RegionSize, blocks : SUBSET Blocks]
      BY LenProperties, ElementOfSeq DEF RegionInv, RegionTypeOK
    <3> QED BY <3>1, <1>b
  <2> QED BY <2>1, <2>2, <1>f DEF RegionInv, FencesHold
<1> QED BY <1>4, <1>5, <1>6, <1>7, <1>8, <1>9, <1>f DEF RegionInv

LEMMA RestoreKeeps ==
  ASSUME RegionInv, restore_region
  PROVE  /\ RegionInv'
         /\ blocks' \subseteq blocks
<1> DEFINE n == Len(fences)
           fence == fences[n]
<1>a. /\ n \in Nat \ {0} /\ DOMAIN fences = 1 .. n
      /\ \A i \in 1 .. n : fences[i] \in [count : 0 .. RegionSize, blocks : SUBSET Blocks]
  BY EmptySeq, LenProperties DEF RegionInv, RegionTypeOK, restore_region
<1>b. /\ Len(alloc_count) \in Nat \ {0} /\ DOMAIN alloc_count = 1 .. Len(alloc_count)
      /\ \A q \in DOMAIN alloc_count : alloc_count[q] \in 0 .. RegionSize
      /\ alloc_count \in Seq(0 .. RegionSize)
  BY Counts DEF RegionInv, RegionTypeOK
<1>c. /\ alloc_count' = [alloc_count EXCEPT ![1] = fence.count]
      /\ written' = written \ ({1} \X (fence.count .. alloc_count[1] - 1))
      /\ blocks' = fence.blocks
      /\ fences' = SubSeq(fences, 1, n - 1)
  BY DEF restore_region
<1>d. /\ fence.count \in 0 .. RegionSize /\ fence.count <= alloc_count[1]
      /\ fence.blocks \subseteq blocks
  BY <1>a DEF RegionInv, FencesHold
<1>1. /\ alloc_count' \in Seq(0 .. RegionSize)
      /\ Len(alloc_count') = Len(alloc_count)
      /\ DOMAIN alloc_count' = DOMAIN alloc_count
      /\ \A q \in DOMAIN alloc_count : alloc_count'[q] = IF q = 1 THEN fence.count ELSE alloc_count[q]
  BY <1>b, <1>c, <1>d, ExceptSeq
<1>2. /\ fences' \in Seq([count : 0 .. RegionSize, blocks : SUBSET Blocks])
      /\ DOMAIN fences' = 1 .. n - 1
      /\ \A i \in 1 .. n - 1 : fences'[i] = fences[i]
  BY <1>a, <1>c, SubSeqProperties, LenProperties
<1>3. RegionTypeOK'
  BY <1>1, <1>2, <1>c, <1>d DEF RegionInv, RegionTypeOK
<1>4. BlocksApart'
  <2>1. ASSUME NEW b \in blocks'
        PROVE  /\ b.arena \in DOMAIN alloc_count' /\ b.size > 0
               /\ b.start + b.size <= alloc_count'[b.arena]
               /\ alloc_count'[b.arena] <= RegionSize
    <3>1. b \in blocks /\ (b.arena = 1 => b.start + b.size <= fence.count)
      BY <1>a, <1>c, <1>d DEF RegionInv, FencesHold
    <3> QED BY <3>1, <1>1, <1>b, <1>d DEF RegionInv, BlocksApart
  <2>2. \A b, c \in blocks' : b # c => Bytes(b) \cap Bytes(c) = {}
    BY <1>c, <1>d DEF RegionInv, BlocksApart
  <2> QED BY <2>1, <2>2 DEF BlocksApart
<1>5. WrittenIsGivenOut'
  <2> SUFFICES ASSUME NEW w \in written'
               PROVE  w[1] \in DOMAIN alloc_count' /\ w[2] < alloc_count'[w[1]]
    BY DEF WrittenIsGivenOut
  <2>1. /\ w \in written /\ w[1] \in DOMAIN alloc_count /\ w[2] < alloc_count[w[1]]
        /\ w = <<w[1], w[2]>> /\ w[2] \in Nat
    BY <1>c DEF RegionInv, WrittenIsGivenOut, RegionTypeOK
  <2>2. w[1] = 1 => ~ (w[2] \in fence.count .. alloc_count[1] - 1)
    BY <2>1, <1>c
  <2> QED BY <2>1, <2>2, <1>1, <1>b, <1>d
<1>6. BlocksAreWritten'
  <2> SUFFICES ASSUME NEW b \in blocks', NEW w \in Bytes(b) PROVE w \in written'
    BY DEF BlocksAreWritten
  <2>1. b \in blocks /\ b \in Blocks /\ (b.arena = 1 => b.start + b.size <= fence.count)
    <3>1. b \in fence.blocks /\ b \in blocks /\ n \in DOMAIN fences
      BY <1>a, <1>c, <1>d
    <3>2. b \in Blocks
      BY <3>1 DEF RegionInv, RegionTypeOK
    <3> QED BY <3>1, <3>2 DEF RegionInv, FencesHold
  <2>2. PICK p \in b.start .. b.start + b.size - 1 : w = <<b.arena, p>>
    BY BytesOfBlock
  <2>3. w \in written
    BY <2>1 DEF RegionInv, BlocksAreWritten
  <2>4. ~ (w \in {1} \X (fence.count .. alloc_count[1] - 1))
    BY <2>1, <2>2, <1>b, <1>d DEF Blocks
  <2> QED BY <2>3, <2>4, <1>c
<1>7. FencesHold'
  <2>1. /\ \A i \in 1 .. n - 1 :
              /\ fences[i].count <= fence.count
              /\ fences[i].blocks \subseteq fence.blocks
    BY <1>a DEF RegionInv, FencesHold
  <2>2. alloc_count'[1] = fence.count /\ blocks' = fence.blocks
    BY <1>1, <1>b, <1>c
  <2>3. \A i \in 1 .. n - 1 : i \in 1 .. n /\ fences'[i] = fences[i]
    BY <1>2, <1>a
  <2>4. \A i \in DOMAIN fences' :
          /\ fences'[i].count <= alloc_count'[1]
          /\ fences'[i].blocks \subseteq blocks'
          /\ \A b \in fences'[i].blocks : b.arena = 1 => b.start + b.size <= fences'[i].count
    BY <2>1, <2>2, <2>3, <1>2, <1>a DEF RegionInv, FencesHold
  <2>5. \A i, j \in DOMAIN fences' :
          i < j => /\ fences'[i].count <= fences'[j].count
                   /\ fences'[i].blocks \subseteq fences'[j].blocks
    BY <2>3, <1>2, <1>a DEF RegionInv, FencesHold
  <2> QED BY <2>4, <2>5 DEF FencesHold
<1> QED BY <1>3, <1>4, <1>5, <1>6, <1>7, <1>c, <1>d DEF RegionInv
-----------------------------------------------------------------------------
LEMMA RecordKeeps ==
  ASSUME RegionInv, record_region
  PROVE  RegionInv'
<1> DEFINE n == Len(fences)
           fence == [count |-> alloc_count[1], blocks |-> blocks]
<1>a. /\ n \in Nat /\ DOMAIN fences = 1 .. n
      /\ fences \in Seq([count : 0 .. RegionSize, blocks : SUBSET Blocks])
  BY LenProperties DEF RegionInv, RegionTypeOK
<1>b. alloc_count[1] \in 0 .. RegionSize /\ blocks \subseteq Blocks
  BY Counts DEF RegionInv, RegionTypeOK
<1>c. fences' = Append(fences, fence) /\ UNCHANGED <<alloc_count, written, blocks>>
  BY DEF record_region
<1>1. fence \in [count : 0 .. RegionSize, blocks : SUBSET Blocks]
  BY <1>b
<1>2. /\ fences' \in Seq([count : 0 .. RegionSize, blocks : SUBSET Blocks])
      /\ DOMAIN fences' = 1 .. n + 1
      /\ \A i \in 1 .. n : fences'[i] = fences[i]
      /\ fences'[n + 1] = fence
  BY <1>1, <1>a, <1>c, Appended
<1>3. RegionTypeOK' /\ BlocksApart' /\ WrittenIsGivenOut' /\ BlocksAreWritten'
  BY <1>2, <1>c DEF RegionInv, RegionTypeOK, BlocksApart, WrittenIsGivenOut, BlocksAreWritten
<1>4. \A b \in blocks : b.arena = 1 => b.start + b.size <= alloc_count[1]
  BY DEF RegionInv, BlocksApart
<1>5. FencesHold'
  <2>1. \A i \in 1 .. n + 1 : i \in 1 .. n \/ i = n + 1
    BY <1>a
  <2>2. \A i \in DOMAIN fences' :
          /\ fences'[i].count <= alloc_count'[1]
          /\ fences'[i].blocks \subseteq blocks'
          /\ \A b \in fences'[i].blocks : b.arena = 1 => b.start + b.size <= fences'[i].count
    BY <2>1, <1>2, <1>4, <1>a, <1>b, <1>c DEF RegionInv, FencesHold
  <2>3. \A i, j \in DOMAIN fences' :
          i < j => /\ fences'[i].count <= fences'[j].count
                   /\ fences'[i].blocks \subseteq fences'[j].blocks
    <3> SUFFICES ASSUME NEW i \in 1 .. n + 1, NEW j \in 1 .. n + 1, i < j
                 PROVE  /\ fences'[i].count <= fences'[j].count
                        /\ fences'[i].blocks \subseteq fences'[j].blocks
      BY <1>2
    <3>1. i \in 1 .. n /\ fences'[i] = fences[i]
      BY <1>2, <1>a
    <3>2. CASE j \in 1 .. n
      BY <3>1, <3>2, <1>2, <1>a DEF RegionInv, FencesHold
    <3>3. CASE j = n + 1
      <4>1. fences[i].count <= alloc_count[1] /\ fences[i].blocks \subseteq blocks
        BY <3>1, <1>a DEF RegionInv, FencesHold
      <4> QED BY <4>1, <3>1, <3>3, <1>2
    <3> QED BY <2>1, <3>2, <3>3
  <2> QED BY <2>2, <2>3 DEF FencesHold
<1> QED BY <1>3, <1>5 DEF RegionInv

LEMMA ClearKeeps ==
  ASSUME RegionInv, clear_region
  PROVE  RegionInv'
<1>a. /\ Len(alloc_count) \in Nat \ {0} /\ DOMAIN alloc_count = 1 .. Len(alloc_count)
  BY Counts DEF RegionInv
<1>b. /\ fences = <<>> /\ fences' = <<>> /\ written' = {} /\ blocks' = {}
      /\ alloc_count' = [r \in 1 .. Len(alloc_count) |-> 0]
  BY <1>a DEF clear_region
<1>1. alloc_count' \in Seq(0 .. RegionSize) /\ Len(alloc_count') = Len(alloc_count)
  BY <1>a, <1>b, RegionAssumption
<1>2. RegionTypeOK'
  BY <1>1, <1>b, EmptySeq DEF RegionInv, RegionTypeOK, Arenas
<1>3. BlocksApart' /\ WrittenIsGivenOut' /\ BlocksAreWritten' /\ FencesHold'
  BY <1>b DEF BlocksApart, WrittenIsGivenOut, BlocksAreWritten, FencesHold
<1> QED BY <1>2, <1>3 DEF RegionInv

\* An allocation that fails for want of memory has only aligned the counts.
LEMMA AllocFailsKeeps ==
  ASSUME RegionInv, region_alloc_fails
  PROVE  RegionInv'
<1>a. PICK size \in AllocSizes : alloc_count' = Passed(Len(alloc_count) + 1, size)
  BY DEF region_alloc_fails
<1>b. UNCHANGED <<written, blocks, fences>>
  BY DEF region_alloc_fails
<1>c. size \in Nat /\ Len(alloc_count) + 1 \in Nat
  BY RegionAssumption, Counts DEF RegionInv
<1>d. /\ DOMAIN alloc_count = 1 .. Len(alloc_count)
      /\ \A q \in DOMAIN alloc_count : alloc_count[q] \in 0 .. RegionSize
      /\ Len(alloc_count) \in Nat \ {0} /\ RegionSize \in Nat
  BY Counts, RegionAssumption DEF RegionInv
<1>e. alloc_count' \in Seq(0 .. RegionSize) /\ Len(alloc_count') = Len(alloc_count)
  BY <1>a, <1>c, PassedCounts DEF RegionInv
<1>1. /\ DOMAIN alloc_count' = DOMAIN alloc_count
      /\ \A q \in DOMAIN alloc_count : alloc_count'[q] \in alloc_count[q] .. RegionSize
  <2>1. DOMAIN alloc_count' = DOMAIN alloc_count
    BY <1>d, <1>e, LenProperties
  <2>2. \A q \in DOMAIN alloc_count : alloc_count'[q] \in 0 .. RegionSize
    BY <1>e, <1>d, ElementOfSeq
  <2>3. \A q \in DOMAIN alloc_count : alloc_count'[q] >= alloc_count[q]
    BY <1>a, <1>c, PassedCounts DEF RegionInv
  <2> QED BY <2>1, <2>2, <2>3, <1>d
<1>2. RegionTypeOK'
  BY <1>e, <1>b DEF RegionInv, RegionTypeOK
<1>3. BlocksApart'
  <2>1. ASSUME NEW b \in blocks
        PROVE  b.start + b.size <= alloc_count'[b.arena] /\ alloc_count'[b.arena] <= RegionSize
    <3>1. /\ b \in Blocks /\ b.arena \in DOMAIN alloc_count
          /\ b.start + b.size <= alloc_count[b.arena]
      BY DEF RegionInv, BlocksApart, RegionTypeOK
    <3> QED BY <3>1, <1>1, <1>d DEF Blocks
  <2> QED BY <2>1, <1>1, <1>b DEF RegionInv, BlocksApart
<1>4. WrittenIsGivenOut'
  <2>1. ASSUME NEW w \in written
        PROVE  w[1] \in DOMAIN alloc_count' /\ w[2] < alloc_count'[w[1]]
    <3>1. w[1] \in DOMAIN alloc_count /\ w[2] < alloc_count[w[1]] /\ w[2] \in Nat
      BY DEF RegionInv, WrittenIsGivenOut, RegionTypeOK
    <3> QED BY <3>1, <1>1, <1>d
  <2> QED BY <2>1, <1>b DEF WrittenIsGivenOut
<1>5. BlocksAreWritten'
  BY <1>b DEF RegionInv, BlocksAreWritten
<1>6. FencesHold'
  <2>1. alloc_count[1] <= alloc_count'[1] /\ alloc_count[1] \in Nat /\ alloc_count'[1] \in Nat
    BY <1>1, <1>d
  <2>2. \A i \in DOMAIN fences : fences[i].count \in Nat
    <3>1. \A i \in DOMAIN fences : fences[i] \in [count : 0 .. RegionSize, blocks : SUBSET Blocks]
      BY LenProperties, ElementOfSeq DEF RegionInv, RegionTypeOK
    <3> QED BY <3>1, <1>d
  <2> QED BY <2>1, <2>2, <1>b DEF RegionInv, FencesHold
<1> QED BY <1>2, <1>3, <1>4, <1>5, <1>6 DEF RegionInv
-----------------------------------------------------------------------------
LEMMA RegionStep ==
  ASSUME RegionInv, [RegionNext]_regionVars
  PROVE  /\ RegionInv'
         /\ \A b \in blocks' \ blocks : Bytes(b) \cap written = {}
<1>1. CASE region_alloc
  <2>1. PICK size \in AllocSizes, r \in Arenas :
          0 < size /\ size <= RegionSize /\ r <= Len(alloc_count) + 1 /\ AllocFrom(r, size)
    BY <1>1 DEF region_alloc
  <2>2. size \in Nat
    BY RegionAssumption
  <2> QED BY <2>1, <2>2, AllocKeeps
<1>2. CASE region_alloc_fails
  BY <1>2, AllocFailsKeeps DEF region_alloc_fails
<1>3. CASE record_region
  BY <1>3, RecordKeeps DEF record_region
<1>4. CASE restore_region
  BY <1>4, RestoreKeeps
<1>5. CASE clear_region
  BY <1>5, ClearKeeps DEF clear_region
<1>6. CASE UNCHANGED regionVars
  BY <1>6 DEF regionVars, RegionInv, RegionTypeOK, BlocksApart, WrittenIsGivenOut,
              BlocksAreWritten, FencesHold
<1> QED BY <1>1, <1>2, <1>3, <1>4, <1>5, <1>6 DEF RegionNext

\* The inductive invariant holds in every reachable state of a chain of arenas.
THEOREM RegionAlways == RegionSpec => []RegionInv
<1>1. RegionInit => RegionInv
  BY RegionInitial
<1>2. RegionInv /\ [RegionNext]_regionVars => RegionInv'
  BY RegionStep
<1> QED BY <1>1, <1>2, PTL DEF RegionSpec

\* No byte belongs to two blocks in use, and every block is inside its arena.
THEOREM BlocksAlwaysApart == RegionSpec => []BlocksApart
<1>1. RegionInv => BlocksApart
  BY DEF RegionInv
<1> QED BY <1>1, RegionAlways, PTL

\* What region_alloc hands out is zero (region.c:93).
THEOREM FreshBlocksAlwaysZero == RegionSpec => FreshBlocksAreZero
<1>1. RegionInv /\ [RegionNext]_regionVars =>
        [\A b \in blocks' \ blocks : Bytes(b) \cap written = {}]_regionVars
  BY RegionStep
<1> QED BY <1>1, RegionAlways, PTL DEF RegionSpec, FreshBlocksAreZero

\* Clearing and restoring take nothing from a block that is used on.
THEOREM UsedBlocksAlwaysKept == RegionSpec => UsedBlocksAreKept
<1>1. RegionInv /\ RegionInv' /\ [RegionNext]_regionVars =>
        [\A b \in blocks \cap blocks' : Bytes(b) \subseteq written']_regionVars
  BY DEF RegionInv, BlocksAreWritten
<1> QED BY <1>1, RegionAlways, PTL DEF RegionSpec, UsedBlocksAreKept
=============================================================================
