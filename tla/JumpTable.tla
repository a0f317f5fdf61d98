----------------------------- MODULE JumpTable ------------------------------
(***************************************************************************)
(* The jump table of a block (ir.c) on the dynamic arrays of memory.h: the *)
(* destinations of the block's jumps, sorted, so that the type checker and *)
(* the generator find by halving whether an offset is a destination.       *)
(*                                                                         *)
(* GROW_DARRAY multiplies by the item's size twice and never stores the    *)
(* new capacity: from the first growth on every insertion copies the array *)
(* again, and no more than InitSize * ItemSize items survive the copy.     *)
(***************************************************************************)
EXTENDS Integers

CONSTANTS
  InitSize,  \* JUMP_INFO_TABLE_INIT_SIZE, which stays the capacity
  ItemSize,  \* sizeof items[0]
  Dests,     \* offsets that can be destinations
  MaxJumps,  \* bound: jumps that are added
  Beyond     \* what memory behind the array may hold

ASSUME JumpTableAssumption ==
  /\ InitSize \in Nat \ {0} /\ ItemSize \in Nat \ {0} /\ MaxJumps \in Nat
  /\ Dests \subseteq Nat /\ Beyond \in Int

VARIABLES
  items,        \* the memory of the array
  allocated,    \* how many items it holds
  jump_count,   \* jumps->count
  search,       \* the binary search that is going on
  answer,       \* what the last find_jump returned
  added,        \* every destination add_jump was called with
  jumps_status  \* "ok", or "overflow": an item was written behind the array

jumpTableVars == <<items, allocated, jump_count, search, answer, added, jumps_status>>

NoSearch == [op |-> "none", dest |-> 0, lo |-> 0, hi |-> 0]
SearchFor(op, dest) == [op |-> op, dest |-> dest, lo |-> 0, hi |-> jump_count]
Idle == search.op = "none" /\ jumps_status = "ok"
-----------------------------------------------------------------------------
\* GROW_DARRAY with reallocate_array: what the new memory holds.
NewSize == (InitSize + InitSize \div 2) * ItemSize
\* Mutant: the capacity times the size of an item is forgotten.
Copied_Items == InitSize
Copied == InitSize * ItemSize
Full == jump_count + 1 > InitSize

Grown == [i \in 0 .. NewSize - 1 |->
            IF i >= Copied THEN 0 ELSE IF i < allocated THEN items[i] ELSE Beyond]

Memory == IF Full THEN Grown ELSE items
Size == IF Full THEN NewSize ELSE allocated

\* add_jump, when the destination is above all that are in the table.
add_jump_at_end ==
  \E dest \in Dests :
    /\ Idle /\ jump_count < MaxJumps
    /\ jump_count > 0 => Memory[jump_count - 1] < dest
    /\ added' = added \cup {dest}
    /\ allocated' = Size
    /\ IF jump_count < Size
       THEN /\ items' = [Memory EXCEPT ![jump_count] = dest]
            /\ jump_count' = jump_count + 1
            /\ UNCHANGED jumps_status
       ELSE jumps_status' = "overflow" /\ UNCHANGED <<items, jump_count>>
    /\ UNCHANGED <<search, answer>>

\* add_jump, when it is not: binary_search looks for its place.
add_jump ==
  \E dest \in Dests :
    /\ Idle /\ jump_count < MaxJumps
    /\ jump_count > 0 /\ Memory[jump_count - 1] >= dest
    /\ items' = Memory
    /\ allocated' = Size
    /\ search' = SearchFor("add", dest)
    /\ UNCHANGED <<jump_count, answer, added, jumps_status>>

\* find_jump and is_jump_dest
find_jump ==
  \E dest \in Dests :
    /\ Idle
    /\ search' = SearchFor("find", dest)
    /\ UNCHANGED <<items, allocated, jump_count, answer, added, jumps_status>>
-----------------------------------------------------------------------------
Searching == search.op # "none" /\ search.lo < search.hi
Found == search.op # "none" /\ search.lo >= search.hi
Middle == search.lo + (search.hi - search.lo) \div 2

\* Mutant: passes over an item equal to the one it looks for.
Halve_Past ==
  [search EXCEPT !.lo = IF items[Middle] <= search.dest THEN Middle + 1 ELSE @,
                 !.hi = IF items[Middle] <= search.dest THEN @ ELSE Middle]

\* One round of binary_search.
Halve ==
  [search EXCEPT !.lo = IF items[Middle] < search.dest THEN Middle + 1 ELSE @,
                 !.hi = IF items[Middle] < search.dest THEN @ ELSE Middle]

binary_search ==
  /\ Searching
  /\ search' = Halve
  /\ UNCHANGED <<items, allocated, jump_count, answer, added, jumps_status>>

\* Mutant: the item that was at lo is overwritten.
Inserted_Over == [items EXCEPT ![search.lo] = search.dest]

\* The rest of add_jump: memmove makes room for the destination at lo.  A
\* destination that is there already is inserted once more.
Inserted == [i \in 0 .. allocated - 1 |->
               IF i < search.lo \/ i > jump_count THEN items[i]
               ELSE IF i = search.lo THEN search.dest ELSE items[i - 1]]

add_jump_found ==
  /\ Found /\ search.op = "add"
  /\ added' = added \cup {search.dest}
  /\ search' = NoSearch
  /\ IF jump_count < allocated
     THEN items' = Inserted /\ jump_count' = jump_count + 1 /\ UNCHANGED jumps_status
     ELSE jumps_status' = "overflow" /\ UNCHANGED <<items, jump_count>>
  /\ UNCHANGED <<allocated, answer>>

\* The rest of find_jump: -1 when the search failed.
find_jump_found ==
  /\ Found /\ search.op = "find"
  /\ answer' = IF search.lo < jump_count /\ items[search.lo] = search.dest THEN search.lo ELSE 0 - 1
  /\ search' = NoSearch
  /\ UNCHANGED <<items, allocated, jump_count, added, jumps_status>>

\* recompute_jump_dests begins with an empty table; the memory stays.
clear_jumps ==
  /\ Idle /\ jump_count > 0
  /\ jump_count' = 0
  /\ added' = {}
  /\ UNCHANGED <<items, allocated, search, answer, jumps_status>>
-----------------------------------------------------------------------------
\* init_jump_info_table
JumpTableInit ==
  /\ items = [i \in 0 .. InitSize - 1 |-> 0]
  /\ allocated = InitSize
  /\ jump_count = 0
  /\ search = NoSearch
  /\ answer = 0 - 1
  /\ added = {}
  /\ jumps_status = "ok"

JumpTableNext ==
  \/ add_jump_at_end
  \/ add_jump
  \/ find_jump
  \/ binary_search
  \/ add_jump_found
  \/ find_jump_found
  \/ clear_jumps

JumpTableSpec == JumpTableInit /\ [][JumpTableNext]_jumpTableVars
-----------------------------------------------------------------------------
(* Properties *)

\* As long as no more than InitSize * ItemSize jumps are added: the table holds
\* the destinations that were added and nothing else, in order, inside its
\* array, through every insertion in the middle and every growth.
TableHoldsJumps ==
  /\ jumps_status = "ok" /\ jump_count <= allocated
  /\ {items[i] : i \in 0 .. jump_count - 1} = added
  /\ \A i, j \in 0 .. jump_count - 1 : i < j => items[i] <= items[j]

\* A search that ends has found its destination exactly if that was added; the
\* type checker asserts as much (type_checker.c:625).
FindsWhatWasAdded ==
  [][search.op = "find" /\ search'.op = "none"
       => IF search.dest \in added THEN answer' \in 0 .. jump_count - 1 /\ items[answer'] = search.dest
          ELSE answer' = 0 - 1]_jumpTableVars

\* Every round of the search leaves less to search: its loop ends.
SearchNarrows ==
  [][search.op # "none" /\ search'.op # "none"
       => search'.hi - search'.lo < search.hi - search.lo]_jumpTableVars
=============================================================================
