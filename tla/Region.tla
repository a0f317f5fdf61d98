------------------------------- MODULE Region -------------------------------
(***************************************************************************)
(* region.c: a chain of arenas of one size.  Memory is given out from the  *)
(* start of an arena, what does not fit goes to the next one, and nothing  *)
(* is given back but by clearing the chain or by restoring the first arena *)
(* to a point recorded earlier.  The clients rely on more than that: what  *)
(* is allocated must be zero (region_calloc), and a fence that is closed   *)
(* (END_TEMP in compiler.c) must leave alone what is older than it.        *)
(***************************************************************************)
EXTENDS Naturals, Sequences, FiniteSets

CONSTANTS
  RegionSize,  \* bytes in each arena
  AllocSizes,  \* the sizes clients ask for
  MaxRegions,  \* bound: arenas in the chain
  MaxBlocks,   \* bound: blocks in use at a time
  MaxFences    \* bound: fences open at a time

\* TEMP_REGION_SIZE and its like are multiples of the largest alignment; in an
\* arena of another size aligning could lead past its end.
ASSUME RegionAssumption ==
  /\ RegionSize \in Nat \ {0}
  /\ RegionSize % 16 = 0
  /\ AllocSizes \subseteq Nat
  /\ MaxRegions \in Nat \ {0} /\ MaxBlocks \in Nat /\ MaxFences \in Nat

VARIABLES
  alloc_count,  \* bytes given out of each arena, by its place in the chain
  written,      \* the bytes that may be other than zero
  blocks,       \* the blocks a client still uses
  fences        \* the points clients will restore to, innermost last

regionVars == <<alloc_count, written, blocks, fences>>

Arenas == 1 .. MaxRegions
Blocks == [arena : Arenas, start : Nat, size : Nat]
Bytes(b) == {b.arena} \X (b.start .. b.start + b.size - 1)
-----------------------------------------------------------------------------
\* ALIGN: the alignment is that of the size, up to 16 bytes.
Alignment(size) ==
  IF size % 16 = 0 THEN 16
  ELSE IF size % 8 = 0 THEN 8
  ELSE IF size % 4 = 0 THEN 4
  ELSE IF size % 2 = 0 THEN 2 ELSE 1

AlignTo(alignment, count) ==
  IF count % alignment = 0 THEN count ELSE count + (alignment - (count % alignment))

\* Where a block would start in an arena, and whether it fits there.
Start(r, size) == AlignTo(Alignment(size), alloc_count[r])
\* Mutant: takes an arena that is one byte short.
Fits_OneShort(r, size) == Start(r, size) + size <= RegionSize + 1
Fits(r, size) == Start(r, size) + size <= RegionSize

\* Every arena that is passed on the way keeps its count aligned.
Passed(r, size) == [q \in DOMAIN alloc_count |->
                      IF q < r THEN Start(q, size) ELSE alloc_count[q]]

\* region_alloc and region_calloc: the first arena with room, or a new one.
\* The client fills what it is given.
AllocFrom(r, size) ==
  LET new == r = Len(alloc_count) + 1
      start == IF new THEN 0 ELSE Start(r, size)
      block == [arena |-> r, start |-> start, size |-> size]
  IN  /\ \A q \in 1 .. r - 1 : ~ Fits(q, size)
      /\ ~ new => Fits(r, size)
      /\ alloc_count' = IF new THEN Append(Passed(r, size), size)
                        ELSE [Passed(r, size) EXCEPT ![r] = start + size]
      /\ blocks' = blocks \cup {block}
      /\ written' = written \cup Bytes(block)
      /\ UNCHANGED fences

\* A size of zero and one above that of an arena are refused: region_alloc
\* returns NULL and nothing changes.
region_alloc ==
  \E size \in AllocSizes, r \in Arenas :
    /\ 0 < size /\ size <= RegionSize
    /\ Cardinality(blocks) < MaxBlocks
    /\ r <= Len(alloc_count) + 1
    /\ AllocFrom(r, size)

\* No memory for another arena: NULL, but the counts have been aligned.
region_alloc_fails ==
  \E size \in AllocSizes :
    /\ 0 < size /\ size <= RegionSize
    /\ \A q \in DOMAIN alloc_count : ~ Fits(q, size)
    /\ alloc_count' = Passed(Len(alloc_count) + 1, size)
    /\ UNCHANGED <<written, blocks, fences>>

\* Mutant: the start of the arena in place of the first free byte.
record_region_AtStart ==
  /\ Len(fences) < MaxFences
  /\ fences' = Append(fences, [count |-> 0, blocks |-> blocks])
  /\ UNCHANGED <<alloc_count, written, blocks>>

\* START_TEMP.
record_region ==
  /\ Len(fences) < MaxFences
  /\ fences' = Append(fences, [count |-> alloc_count[1], blocks |-> blocks])
  /\ UNCHANGED <<alloc_count, written, blocks>>

\* Mutant: without the memset.
restore_region_Dirty ==
  /\ fences # <<>>
  /\ alloc_count' = [alloc_count EXCEPT ![1] = fences[Len(fences)].count]
  /\ blocks' = fences[Len(fences)].blocks
  /\ fences' = SubSeq(fences, 1, Len(fences) - 1)
  /\ UNCHANGED written

\* END_TEMP: only the first arena is set back, and what it loses is zeroed.
\* What has spilled to later arenas since the fence stays allocated there. The
\* client no longer uses anything that is younger than the fence.
restore_region ==
  /\ fences # <<>>
  /\ LET fence == fences[Len(fences)]
     IN  /\ alloc_count' = [alloc_count EXCEPT ![1] = fence.count]
         /\ written' = written \ ({1} \X (fence.count .. alloc_count[1] - 1))
         /\ blocks' = fence.blocks
  /\ fences' = SubSeq(fences, 1, Len(fences) - 1)

\* The type checker clears its regions when it has no use for anything in
\* them, and opens no fences there.
clear_region ==
  /\ fences = <<>>
  /\ alloc_count' = [r \in DOMAIN alloc_count |-> 0]
  /\ written' = {}
  /\ blocks' = {}
  /\ UNCHANGED fences
-----------------------------------------------------------------------------
\* new_region
RegionInit ==
  /\ alloc_count = <<0>>
  /\ written = {}
  /\ blocks = {}
  /\ fences = <<>>

RegionNext ==
  \/ region_alloc
  \/ region_alloc_fails
  \/ record_region
  \/ restore_region
  \/ clear_region

RegionSpec == RegionInit /\ [][RegionNext]_regionVars
-----------------------------------------------------------------------------
(* Properties *)

\* Whatever is allocated, aligned, spilled, restored and cleared, the blocks in
\* use are inside the part of their arena that is given out, and no byte
\* belongs to two of them.
BlocksApart ==
  /\ \A b \in blocks : /\ b.arena \in DOMAIN alloc_count /\ b.size > 0
                       /\ b.start + b.size <= alloc_count[b.arena]
                       /\ alloc_count[b.arena] <= RegionSize
  /\ \A b, c \in blocks : b # c => Bytes(b) \cap Bytes(c) = {}

\* "Region zeroed on initial allocation" (region.c:93): a block that is handed
\* out is zero to its last byte, even where an earlier block was given back.
FreshBlocksAreZero ==
  [][\A b \in blocks' \ blocks : Bytes(b) \cap written = {}]_regionVars

\* Closing a fence, or clearing, zeroes nothing that a client goes on using.
UsedBlocksAreKept ==
  [][\A b \in blocks \cap blocks' : Bytes(b) \subseteq written']_regionVars
=============================================================================
