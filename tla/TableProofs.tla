---------------------------- MODULE TableProofs -----------------------------
(***************************************************************************)
(* The two tables of the compiler.  The symbol dictionary, for tables of   *)
(* any size and any hash function: every name that is in the table is      *)
(* found by its search, and the table implements a map.  The table of jump *)
(* destinations, for arrays of any initial size, items of any size and any *)
(* destinations: as long as no more jumps are added than survive a growth, *)
(* the table is sorted and holds what was added, and a search finds        *)
(* exactly that.                                                           *)
(***************************************************************************)
EXTENDS SymbolDict, JumpTable, TLAPS

-----------------------------------------------------------------------------
(* The symbol dictionary.                                                  *)

DictInv ==
  /\ slots \in [Places -> Symbols \cup {Vacant}]
  /\ NamesAreReachable
-----------------------------------------------------------------------------
LEMMA ProbeInside ==
  ASSUME NEW hash \in Nat, NEW k \in Nat
  PROVE  Probe(hash, k) \in Places
BY SymbolDictAssumption DEF Probe, Places

\* A multiple of a number that is less than the number itself is zero.
LEMMA SmallMultiple ==
  ASSUME NEW c \in Nat \ {0}, NEW a \in Int, c * a < c, 0 - c < c * a
  PROVE  a = 0
<1>1. a < 1
  <2> SUFFICES ASSUME a >= 1 PROVE FALSE
    OBVIOUS
  <2>1. c * a = c + c * (a - 1)
    BY SMT
  <2>2. c * (a - 1) >= 0
    BY SMT
  <2> QED BY <2>1, <2>2
<1>2. a > 0 - 1
  <2> SUFFICES ASSUME a <= 0 - 1 PROVE FALSE
    OBVIOUS
  <2>1. c * a = (0 - c) + c * (a + 1)
    BY SMT
  <2>2. c * (a + 1) <= 0
    BY SMT
  <2> QED BY <2>1, <2>2
<1> QED BY <1>1, <1>2

LEMMA ModOfMultiple ==
  ASSUME NEW c \in Nat \ {0}, NEW q \in Int, NEW i \in 0 .. c - 1
  PROVE  (c * q + i) % c = i
<1> DEFINE x == c * q + i
           d == x \div c
           m == x % c
<1>1. x \in Int /\ d \in Int /\ m \in 0 .. c - 1 /\ x = c * d + m
  OBVIOUS
<1>2. c * (q - d) = m - i
  BY <1>1
<1>3. q - d = 0
  BY <1>1, <1>2, SmallMultiple
<1> QED BY <1>1, <1>2, <1>3

\* The probes for a hash visit every slot.
LEMMA ProbeOnto ==
  ASSUME NEW hash \in Nat, NEW i \in Places
  PROVE  \E k \in Places : Probe(hash, k) = i
<1> DEFINE c == Capacity
           q == hash \div c
           r == hash % c
<1>1. c \in Nat \ {0} /\ i \in 0 .. c - 1
  BY SymbolDictAssumption DEF Places
<1>2. q \in Int /\ r \in 0 .. c - 1 /\ hash = c * q + r
  BY <1>1
<1>3. CASE i >= r
  <2>1. i - r \in Places /\ hash + (i - r) = c * q + i
    BY <1>1, <1>2, <1>3 DEF Places
  <2> QED BY <2>1, <1>1, <1>2, ModOfMultiple DEF Probe
<1>4. CASE i < r
  <2>1. (i - r) + c \in Places
    BY <1>1, <1>2, <1>4 DEF Places
  <2>2. hash + ((i - r) + c) = c * (q + 1) + i
    BY <1>1, <1>2
  <2>3. q + 1 \in Int
    BY <1>2
  <2> QED BY <2>1, <2>2, <2>3, <1>1, ModOfMultiple DEF Probe
<1> QED BY <1>1, <1>2, <1>3, <1>4

\* A search ends at one place only.
LEMMA FindsOnce ==
  ASSUME NEW name, NEW k \in Places, NEW l \in Places, FindsAt(name, k), FindsAt(name, l)
  PROVE  k = l
<1>1. ~ (k < l) /\ ~ (l < k)
  BY DEF FindsAt, Places
<1> QED BY <1>1 DEF Places

\* A name is in one slot only, the one its search ends at.
LEMMA OneSlot ==
  ASSUME DictInv, NEW i \in Places, slots[i] # Vacant,
         NEW k \in Places, FindsAt(slots[i].name, k)
  PROVE  Probe(Hash[slots[i].name], k) = i
BY FindsOnce DEF DictInv, NamesAreReachable
-----------------------------------------------------------------------------
LEMMA insert_symbolKeeps ==
  ASSUME DictInv, insert_symbol
  PROVE  DictInv' /\ Map!MapNext
<1>1. PICK name \in SymbolNames, meaning \in Meanings, k \in Places :
        /\ FindsAt(name, k)
        /\ slots' = [slots EXCEPT ![Probe(Hash[name], k)] = [name |-> name, meaning |-> meaning]]
        /\ UNCHANGED <<found, dict_status>>
  BY DEF insert_symbol
<1> DEFINE index == Probe(Hash[name], k)
           symbol == [name |-> name, meaning |-> meaning]
<1>2. /\ index \in Places /\ Hash[name] \in Nat
      /\ symbol \in Symbols /\ symbol # Vacant /\ symbol.name = name /\ symbol.meaning = meaning
  <2>1. Hash[name] \in Nat /\ k \in Nat
    BY SymbolDictAssumption DEF Places
  <2>2. index \in Places
    BY <2>1, ProbeInside
  <2>3. symbol \in Symbols /\ symbol # Vacant
    BY SymbolDictAssumption DEF Symbols
  <2> QED BY <2>1, <2>2, <2>3
<1>3. /\ slots \in [Places -> Symbols \cup {Vacant}]
      /\ \A i \in Places : slots'[i] = IF i = index THEN symbol ELSE slots[i]
      /\ slots' \in [Places -> Symbols \cup {Vacant}]
  BY <1>1, <1>2 DEF DictInv
<1>4. EndsProbe(slots[index], name)
  BY <1>1 DEF FindsAt
<1>5. ASSUME NEW i \in Places, i # index, slots[i] # Vacant
      PROVE  slots[i].name # name
  BY <1>1, <1>5, OneSlot
<1>6. NamesAreReachable'
  <2> DEFINE FindsNow(n, l) == /\ EndsProbe(slots'[Probe(Hash[n], l)], n)
                               /\ \A j \in 0 .. l - 1 : ~ EndsProbe(slots'[Probe(Hash[n], j)], n)
  <2> SUFFICES ASSUME NEW i \in Places, slots'[i] # Vacant
               PROVE  \E l \in Places : Probe(Hash[slots'[i].name], l) = i /\ FindsNow(slots'[i].name, l)
    BY DEF NamesAreReachable, FindsAt
  <2>1. CASE i = index
    <3>1. slots'[i].name = name /\ EndsProbe(slots'[index], name)
      BY <2>1, <1>2, <1>3 DEF EndsProbe
    <3>2. ASSUME NEW j \in 0 .. k - 1 PROVE ~ EndsProbe(slots'[Probe(Hash[name], j)], name)
      <4>1. Probe(Hash[name], j) \in Places
        BY <1>2, ProbeInside
      <4>2. ~ EndsProbe(slots[Probe(Hash[name], j)], name)
        BY <1>1 DEF FindsAt
      <4> QED BY <4>1, <4>2, <1>3, <1>4
    <3>3. FindsNow(name, k) /\ Probe(Hash[name], k) = i
      BY <3>1, <3>2, <2>1
    <3> QED BY <3>1, <3>3
  <2>2. CASE i # index
    <3>1. slots'[i] = slots[i] /\ slots[i] # Vacant
      BY <2>2, <1>3
    <3> DEFINE other == slots[i].name
    <3>2. other \in SymbolNames /\ other # name /\ Hash[other] \in Nat
      BY <2>2, <3>1, <1>3, <1>5, SymbolDictAssumption DEF Symbols
    <3>3. PICK l \in Places : Probe(Hash[other], l) = i /\ FindsAt(other, l)
      BY <3>1 DEF DictInv, NamesAreReachable
    <3>4. EndsProbe(slots'[Probe(Hash[other], l)], other)
      BY <3>1, <3>3 DEF EndsProbe
    <3>5. ASSUME NEW j \in 0 .. l - 1 PROVE ~ EndsProbe(slots'[Probe(Hash[other], j)], other)
      <4>1. Probe(Hash[other], j) \in Places /\ ~ EndsProbe(slots[Probe(Hash[other], j)], other)
        BY <3>2, <3>3, ProbeInside DEF FindsAt
      <4>2. CASE Probe(Hash[other], j) = index
        BY <4>2, <3>2, <1>2, <1>3 DEF EndsProbe
      <4>3. CASE Probe(Hash[other], j) # index
        BY <4>1, <4>3, <1>3
      <4> QED BY <4>2, <4>3
    <3>6. FindsNow(other, l) /\ Probe(Hash[other], l) = i
      BY <3>3, <3>4, <3>5
    <3> QED BY <3>1, <3>6
  <2> QED BY <2>1, <2>2
<1>7. Meaning' = [Meaning EXCEPT ![name] = {meaning}]
  <2>1. ASSUME NEW n \in SymbolNames
        PROVE  Meaning'[n] = IF n = name THEN {meaning} ELSE Meaning[n]
    <3>1. CASE n = name
      <4>1. \A i \in Places : slots'[i] # Vacant /\ slots'[i].name = name <=> i = index
        BY <1>2, <1>3, <1>5
      <4> QED BY <3>1, <4>1, <1>2, <1>3 DEF Meaning
    <3>2. CASE n # name
      <4>1. \A i \in Places : slots'[i] # Vacant /\ slots'[i].name = n
                                <=> slots[i] # Vacant /\ slots[i].name = n
        BY <3>2, <1>2, <1>3, <1>4 DEF EndsProbe
      <4>2. \A i \in Places : slots[i] # Vacant /\ slots[i].name = n => slots'[i] = slots[i]
        BY <3>2, <1>2, <1>3, <1>4 DEF EndsProbe
      <4> QED BY <3>2, <4>1, <4>2 DEF Meaning
    <3> QED BY <3>1, <3>2
  <2> QED BY <2>1 DEF Meaning
<1>8. Meaning[name] = {} => \E i \in Places : slots[i] = Vacant
  BY <1>2, <1>4 DEF Meaning, EndsProbe
<1>9. Map!Put(name, meaning)
  BY <1>1, <1>7, <1>8 DEF Map!Put
<1> QED BY <1>3, <1>6, <1>9 DEF DictInv, Map!MapNext

LEMMA LookupAnswers ==
  ASSUME DictInv, lookup_symbol
  PROVE  DictInv' /\ Map!MapNext
<1>1. PICK name \in SymbolNames :
        /\ \/ NoSlot(name) /\ found' = {}
           \/ \E k \in Places : /\ FindsAt(name, k)
                                /\ found' = {slots[Probe(Hash[name], k)]} \ {Vacant}
        /\ UNCHANGED <<slots, dict_status>>
  BY DEF lookup_symbol
<1>2. Hash[name] \in Nat
  BY SymbolDictAssumption
<1>3. found' = {[name |-> name, meaning |-> m] : m \in Meaning[name]}
  <2>1. CASE NoSlot(name) /\ found' = {}
    <3>1. \A i \in Places : ~ (slots[i] # Vacant /\ slots[i].name = name)
      BY <2>1 DEF NoSlot, FindsAt, DictInv, NamesAreReachable
    <3> QED BY <2>1, <3>1 DEF Meaning
  <2>2. ASSUME NEW k \in Places, FindsAt(name, k),
               found' = {slots[Probe(Hash[name], k)]} \ {Vacant}
        PROVE  found' = {[name |-> name, meaning |-> m] : m \in Meaning[name]}
    <3> DEFINE index == Probe(Hash[name], k)
    <3>1. index \in Places /\ EndsProbe(slots[index], name)
      <4>1. k \in Nat
        BY SymbolDictAssumption DEF Places
      <4> QED BY <4>1, <2>2, <1>2, ProbeInside DEF FindsAt
    <3>2. \A i \in Places : slots[i] # Vacant /\ slots[i].name = name => i = index
      BY <2>2, OneSlot
    <3>3. CASE slots[index] = Vacant
      <4>1. Meaning[name] = {}
        BY <3>2, <3>3 DEF Meaning
      <4> QED BY <4>1, <2>2, <3>3
    <3>4. CASE slots[index] # Vacant
      <4>1. slots[index] \in Symbols /\ slots[index].name = name
        BY <3>1, <3>4 DEF EndsProbe, DictInv
      <4>2. slots[index] = [name |-> name, meaning |-> slots[index].meaning]
        BY <4>1 DEF Symbols
      <4>3. Meaning[name] = {slots[index].meaning}
        BY <3>1, <3>2, <3>4, <4>1 DEF Meaning
      <4> QED BY <4>2, <4>3, <2>2, <3>4
    <3> QED BY <3>3, <3>4
  <2> QED BY <1>1, <2>1, <2>2
<1>4. DictInv'
  BY <1>1 DEF DictInv, NamesAreReachable, FindsAt
<1>5. Map!Get(name)
  BY <1>1, <1>3 DEF Map!Get, Meaning
<1> QED BY <1>4, <1>5 DEF Map!MapNext

\* The assertion in insert_symbol fails only for a new name in a full table.
LEMMA RefusalIsFullness ==
  ASSUME DictInv, dict_status = "ok", insert_symbol_fails
  PROVE  DictInv' /\ Map!MapNext
<1>1. PICK name \in SymbolNames :
        NoSlot(name) /\ dict_status' = "full" /\ UNCHANGED <<slots, found>>
  BY DEF insert_symbol_fails
<1>2. \A i \in Places : slots[i] # Vacant /\ slots[i].name # name
  BY <1>1, ProbeOnto, SymbolDictAssumption DEF NoSlot, EndsProbe
<1>3. Meaning[name] = {}
  BY <1>2 DEF Meaning
<1>4. DictInv'
  BY <1>1 DEF DictInv, NamesAreReachable, FindsAt
<1>5. Map!Refuse(name)
  BY <1>1, <1>2, <1>3 DEF Map!Refuse, Meaning
<1> QED BY <1>4, <1>5 DEF Map!MapNext

LEMMA DictStep ==
  ASSUME DictInv, [DictNext]_dictVars
  PROVE  /\ DictInv'
         /\ [Map!MapNext]_<<Meaning, found, \E i \in Places : slots[i] = Vacant, dict_status = "full">>
<1>1. CASE DictNext
  BY <1>1, insert_symbolKeeps, LookupAnswers, RefusalIsFullness DEF DictNext
<1>2. CASE UNCHANGED dictVars
  BY <1>2 DEF dictVars, DictInv, NamesAreReachable, FindsAt, Meaning
<1> QED BY <1>1, <1>2

LEMMA DictInitially ==
  ASSUME DictInit
  PROVE  DictInv /\ Map!MapInit
BY DEF DictInit, DictInv, NamesAreReachable, Meaning, Map!MapInit
-----------------------------------------------------------------------------
\* Every name in the table is found by its search, whatever else was inserted.
THEOREM NamesAlwaysReachable == DictSpec => []NamesAreReachable
<1>1. DictInit => DictInv
  BY DictInitially
<1>2. DictInv /\ [DictNext]_dictVars => DictInv'
  BY DictStep
<1>3. DictInv => NamesAreReachable
  BY DEF DictInv
<1> QED BY <1>1, <1>2, <1>3, PTL DEF DictSpec

\* The table is a map from names to their last meanings; only a new name in a
\* full table is refused.
THEOREM TableIsAMap == DictSpec => ImplementsMap
<1>1. DictInit => DictInv /\ Map!MapInit
  BY DictInitially
<1>2. DictInv /\ [DictNext]_dictVars
        => DictInv' /\ [Map!MapNext]_<<Meaning, found, \E i \in Places : slots[i] = Vacant, dict_status = "full">>
  BY DictStep
<1> QED BY <1>1, <1>2, PTL DEF DictSpec, ImplementsMap, Map!MapSpec

-----------------------------------------------------------------------------
(* The table of jump destinations.                                         *)

\* What memory.h can keep: the destinations that fit what a growth copies.
FewJumps == MaxJumps <= InitSize * ItemSize

\* The halves of the array that a search has ruled out.
SearchBounds ==
  search.op # "none" =>
    /\ search.dest \in Dests
    /\ 0 <= search.lo /\ search.lo <= search.hi /\ search.hi <= jump_count
    /\ \A i \in 0 .. search.lo - 1 : items[i] < search.dest
    /\ \A i \in search.hi .. jump_count - 1 : items[i] >= search.dest

JumpTypeOK ==
  /\ allocated \in Nat /\ allocated >= InitSize
  /\ items \in [0 .. allocated - 1 -> Int]
  /\ jump_count \in 0 .. MaxJumps
  /\ added \subseteq Dests
  /\ search \in [op : {"none", "add", "find"}, dest : Nat, lo : Int, hi : Int]

JumpInv ==
  /\ JumpTypeOK
  /\ TableHoldsJumps
  /\ SearchBounds
  /\ search.op = "add" => jump_count < MaxJumps /\ jump_count < allocated
-----------------------------------------------------------------------------
LEMMA GrowthCopiesAll ==
  ASSUME FewJumps
  PROVE  /\ Copied \in Nat /\ NewSize \in Nat
         /\ MaxJumps <= Copied /\ Copied <= NewSize /\ InitSize <= NewSize
<1> DEFINE half == InitSize \div 2
<1>1. half \in Nat /\ InitSize \in Nat /\ ItemSize \in Nat /\ ItemSize >= 1
  BY JumpTableAssumption
<1>2. NewSize = InitSize * ItemSize + half * ItemSize
  BY <1>1 DEF NewSize
<1>3. half * ItemSize \in Nat /\ InitSize * ItemSize \in Nat
  BY <1>1
<1>4. InitSize * ItemSize = InitSize + InitSize * (ItemSize - 1) /\ InitSize * (ItemSize - 1) \in Nat
  BY <1>1
<1> QED BY <1>2, <1>3, <1>4, <1>1, JumpTableAssumption DEF FewJumps, Copied

\* Growing keeps every item of the table and leaves room for one more.
LEMMA MemoryKept ==
  ASSUME FewJumps, JumpInv, jump_count < MaxJumps
  PROVE  /\ Size \in Nat /\ Size >= InitSize /\ jump_count < Size
         /\ Memory \in [0 .. Size - 1 -> Int]
         /\ \A i \in 0 .. jump_count - 1 : Memory[i] = items[i]
<1>1. CASE Full
  <2>1. Size = NewSize /\ Memory = Grown
    BY <1>1 DEF Size, Memory
  <2>2. Grown \in [0 .. NewSize - 1 -> Int]
    BY JumpTableAssumption DEF Grown, JumpInv, JumpTypeOK
  <2>3. \A i \in 0 .. jump_count - 1 : Grown[i] = items[i]
    BY GrowthCopiesAll, JumpTableAssumption DEF Grown, JumpInv, JumpTypeOK, TableHoldsJumps
  <2> QED BY <2>1, <2>2, <2>3, GrowthCopiesAll, JumpTableAssumption DEF JumpInv, JumpTypeOK
<1>2. CASE ~ Full
  BY <1>2, JumpTableAssumption DEF Size, Memory, Full, JumpInv, JumpTypeOK
<1> QED BY <1>1, <1>2
-----------------------------------------------------------------------------
LEMMA AddAtEndKeeps ==
  ASSUME FewJumps, JumpInv, add_jump_at_end
  PROVE  JumpInv'
<1>1. PICK dest \in Dests :
        /\ Idle /\ jump_count < MaxJumps
        /\ jump_count > 0 => Memory[jump_count - 1] < dest
        /\ added' = added \cup {dest}
        /\ allocated' = Size
        /\ IF jump_count < Size
           THEN /\ items' = [Memory EXCEPT ![jump_count] = dest]
                /\ jump_count' = jump_count + 1
                /\ UNCHANGED jumps_status
           ELSE jumps_status' = "overflow" /\ UNCHANGED <<items, jump_count>>
        /\ UNCHANGED <<search, answer>>
  BY DEF add_jump_at_end
<1>2. /\ dest \in Nat /\ jump_count \in Nat /\ MaxJumps \in Nat
      /\ \A i \in 0 .. jump_count - 1 : i \in 0 .. allocated - 1 /\ items[i] \in Int
  BY JumpTableAssumption DEF JumpInv, JumpTypeOK, TableHoldsJumps
<1>3. /\ Size \in Nat /\ Size >= InitSize /\ jump_count < Size
      /\ Memory \in [0 .. Size - 1 -> Int]
      /\ \A i \in 0 .. jump_count - 1 : Memory[i] = items[i]
  BY <1>1, MemoryKept
<1>4. /\ items' = [Memory EXCEPT ![jump_count] = dest]
      /\ jump_count' = jump_count + 1
      /\ jumps_status' = jumps_status
      /\ search' = search
  BY <1>1, <1>3
<1>5. /\ items' \in [0 .. Size - 1 -> Int]
      /\ items'[jump_count] = dest
      /\ \A i \in 0 .. jump_count - 1 : items'[i] = items[i]
  BY <1>2, <1>3, <1>4
<1>6. JumpTypeOK'
  BY <1>1, <1>2, <1>3, <1>4, <1>5 DEF JumpInv, JumpTypeOK
<1>7. \A i \in 0 .. jump_count - 1 : items[i] < dest
  <2>1. \A i \in 0 .. jump_count - 1 : items[i] <= items[jump_count - 1]
    BY <1>2 DEF JumpInv, TableHoldsJumps
  <2>2. jump_count > 0 => items[jump_count - 1] < dest
    BY <1>1, <1>2, <1>3
  <2> QED BY <2>1, <2>2, <1>2
<1>8. TableHoldsJumps'
  <2>1. jumps_status' = "ok" /\ jump_count' <= allocated'
    BY <1>1, <1>2, <1>3, <1>4 DEF JumpInv, TableHoldsJumps
  <2>2. {items'[i] : i \in 0 .. jump_count' - 1} = added'
    <3>1. 0 .. jump_count' - 1 = (0 .. jump_count - 1) \cup {jump_count}
      BY <1>2, <1>4
    <3>2. {items[i] : i \in 0 .. jump_count - 1} = added
      BY DEF JumpInv, TableHoldsJumps
    <3> QED BY <3>1, <3>2, <1>1, <1>5
  <2>3. \A i, j \in 0 .. jump_count' - 1 : i < j => items'[i] <= items'[j]
    <3> SUFFICES ASSUME NEW i \in 0 .. jump_count, NEW j \in 0 .. jump_count, i < j
                 PROVE  items'[i] <= items'[j]
      BY <1>2, <1>4
    <3>1. i \in 0 .. jump_count - 1 /\ items'[i] = items[i]
      BY <1>2, <1>5
    <3>2. CASE j = jump_count
      BY <3>1, <3>2, <1>2, <1>5, <1>7
    <3>3. CASE j \in 0 .. jump_count - 1
      BY <3>1, <3>3, <1>5 DEF JumpInv, TableHoldsJumps
    <3> QED BY <3>2, <3>3, <1>2
  <2> QED BY <2>1, <2>2, <2>3 DEF TableHoldsJumps
<1>9. search'.op = "none"
  BY <1>1, <1>4 DEF Idle
<1> QED BY <1>6, <1>8, <1>9 DEF JumpInv, SearchBounds

LEMMA BeginKeeps ==
  ASSUME FewJumps, JumpInv, add_jump \/ find_jump
  PROVE  JumpInv'
<1>1. PICK dest \in Dests, op \in {"add", "find"} :
        /\ Idle
        /\ search' = SearchFor(op, dest)
        /\ \/ items' = items /\ allocated' = allocated /\ op = "find"
           \/ items' = Memory /\ allocated' = Size /\ jump_count < MaxJumps
        /\ UNCHANGED <<jump_count, added, jumps_status>>
  BY DEF add_jump, find_jump
<1>2. /\ dest \in Nat /\ jump_count \in Nat /\ MaxJumps \in Nat
  BY JumpTableAssumption DEF JumpInv, JumpTypeOK
<1>3. /\ allocated' \in Nat /\ allocated' >= InitSize /\ jump_count <= allocated'
      /\ items' \in [0 .. allocated' - 1 -> Int]
      /\ \A i \in 0 .. jump_count - 1 : items'[i] = items[i]
  <2>1. CASE items' = items /\ allocated' = allocated
    BY <2>1, <1>2 DEF JumpInv, JumpTypeOK, TableHoldsJumps
  <2>2. CASE items' = Memory /\ allocated' = Size /\ jump_count < MaxJumps
    BY <2>2, <1>2, MemoryKept
  <2> QED BY <1>1, <2>1, <2>2
<1>4. search' = [op |-> op, dest |-> dest, lo |-> 0, hi |-> jump_count]
  BY <1>1 DEF SearchFor
<1>5. JumpTypeOK'
  <2>1. search' \in [op : {"none", "add", "find"}, dest : Nat, lo : Int, hi : Int]
    BY <1>2, <1>4
  <2> QED BY <2>1, <1>1, <1>3 DEF JumpInv, JumpTypeOK
<1>6. TableHoldsJumps'
  BY <1>1, <1>2, <1>3 DEF JumpInv, TableHoldsJumps
<1>7. SearchBounds'
  BY <1>1, <1>2, <1>4 DEF SearchBounds
<1>8. op = "add" => jump_count < MaxJumps /\ jump_count < allocated'
  BY <1>1, MemoryKept
<1> QED BY <1>1, <1>4, <1>5, <1>6, <1>7, <1>8 DEF JumpInv

\* The middle lies between the bounds, so that both halves are smaller, and
\* what is ruled out is ruled out by the order of the table.
LEMMA HalveKeeps ==
  ASSUME JumpInv, binary_search
  PROVE  /\ JumpInv'
         /\ search'.hi - search'.lo < search.hi - search.lo
<1>1. /\ search.op # "none" /\ search.lo < search.hi
      /\ search' = Halve
      /\ UNCHANGED <<items, allocated, jump_count, added, jumps_status>>
  BY DEF binary_search, Searching
<1>2. /\ search.lo \in Int /\ search.hi \in Int /\ search.dest \in Nat
      /\ search.op \in {"add", "find"} /\ jump_count \in Nat
      /\ 0 <= search.lo /\ search.hi <= jump_count /\ search.dest \in Dests
  BY <1>1, JumpTableAssumption DEF JumpInv, JumpTypeOK, SearchBounds
<1> DEFINE mid == Middle
<1>3. mid \in Int /\ search.lo <= mid /\ mid < search.hi
  BY <1>1, <1>2 DEF Middle
<1>4. \A i \in 0 .. jump_count - 1 : items[i] \in Int
  BY <1>2 DEF JumpInv, JumpTypeOK, TableHoldsJumps
<1>5. \A i, j \in 0 .. jump_count - 1 : i < j => items[i] <= items[j]
  BY DEF JumpInv, TableHoldsJumps
<1>6. /\ search'.op = search.op /\ search'.dest = search.dest
      /\ search'.lo = IF items[mid] < search.dest THEN mid + 1 ELSE search.lo
      /\ search'.hi = IF items[mid] < search.dest THEN search.hi ELSE mid
      /\ search' \in [op : {"none", "add", "find"}, dest : Nat, lo : Int, hi : Int]
  <2>1. search = [op |-> search.op, dest |-> search.dest, lo |-> search.lo, hi |-> search.hi]
    BY DEF JumpInv, JumpTypeOK
  <2>2. search' = [op |-> search.op, dest |-> search.dest,
                   lo |-> IF items[mid] < search.dest THEN mid + 1 ELSE search.lo,
                   hi |-> IF items[mid] < search.dest THEN search.hi ELSE mid]
    BY <2>1, <1>1 DEF Halve
  <2> HIDE DEF mid
  <2> QED BY <2>2, <1>2, <1>3
<1> HIDE DEF mid
<1>7. CASE items[mid] < search.dest
  <2>1. \A i \in 0 .. mid : items[i] < search.dest
    BY <1>2, <1>3, <1>4, <1>5, <1>7
  <2>2. SearchBounds'
    BY <2>1, <1>1, <1>2, <1>3, <1>6, <1>7 DEF JumpInv, SearchBounds
  <2>3. JumpTypeOK' /\ TableHoldsJumps'
    BY <1>1, <1>6 DEF JumpInv, JumpTypeOK, TableHoldsJumps
  <2>4. search'.op = "add" => jump_count' < MaxJumps /\ jump_count' < allocated'
    BY <1>1, <1>6 DEF JumpInv
  <2>5. search'.hi - search'.lo < search.hi - search.lo
    BY <1>1, <1>2, <1>3, <1>6, <1>7
  <2> QED BY <2>2, <2>3, <2>4, <2>5 DEF JumpInv
<1>8. CASE ~ (items[mid] < search.dest)
  <2>1. \A i \in mid .. jump_count - 1 : items[i] >= search.dest
    BY <1>2, <1>3, <1>4, <1>5, <1>8
  <2>2. SearchBounds'
    BY <2>1, <1>1, <1>2, <1>3, <1>6, <1>8 DEF JumpInv, SearchBounds
  <2>3. JumpTypeOK' /\ TableHoldsJumps'
    BY <1>1, <1>6 DEF JumpInv, JumpTypeOK, TableHoldsJumps
  <2>4. search'.op = "add" => jump_count' < MaxJumps /\ jump_count' < allocated'
    BY <1>1, <1>6 DEF JumpInv
  <2>5. search'.hi - search'.lo < search.hi - search.lo
    BY <1>1, <1>2, <1>3, <1>6, <1>8
  <2> QED BY <2>2, <2>3, <2>4, <2>5 DEF JumpInv
<1> QED BY <1>7, <1>8

LEMMA InsertedKeeps ==
  ASSUME FewJumps, JumpInv, add_jump_found
  PROVE  JumpInv'
<1> DEFINE lo == search.lo
           dest == search.dest
           n == jump_count
<1>1. /\ search.op = "add" /\ search.lo >= search.hi
      /\ added' = added \cup {dest} /\ search' = NoSearch /\ allocated' = allocated
  BY DEF add_jump_found, Found
<1>2. /\ lo \in 0 .. n /\ dest \in Dests /\ dest \in Nat /\ n \in Nat /\ MaxJumps \in Nat
      /\ n < MaxJumps /\ n < allocated /\ allocated \in Nat
      /\ items \in [0 .. allocated - 1 -> Int]
  BY <1>1, JumpTableAssumption DEF JumpInv, JumpTypeOK, SearchBounds
<1>3. /\ \A i \in 0 .. lo - 1 : items[i] < dest
      /\ \A i \in lo .. n - 1 : items[i] >= dest
  <2>1. search.lo = search.hi
    BY <1>1 DEF JumpInv, JumpTypeOK, SearchBounds
  <2> QED BY <2>1, <1>1 DEF JumpInv, SearchBounds
<1>4. items' = Inserted /\ jump_count' = n + 1 /\ jumps_status' = jumps_status
  BY <1>2 DEF add_jump_found
<1> HIDE DEF lo, dest, n
<1>5. \A i \in 0 .. allocated - 1 :
        items'[i] = IF i < lo \/ i > n THEN items[i] ELSE IF i = lo THEN dest ELSE items[i - 1]
  BY <1>4 DEF Inserted, lo, dest, n
<1>6. items' \in [0 .. allocated - 1 -> Int]
  BY <1>2, <1>4 DEF Inserted, lo, dest, n
<1>7. JumpTypeOK'
  <2>1. search' \in [op : {"none", "add", "find"}, dest : Nat, lo : Int, hi : Int]
    BY <1>1 DEF NoSearch
  <2> QED BY <2>1, <1>1, <1>2, <1>4, <1>6 DEF JumpInv, JumpTypeOK
<1>8. TableHoldsJumps'
  <2>1. jumps_status' = "ok" /\ jump_count' <= allocated'
    BY <1>1, <1>2, <1>4 DEF JumpInv, TableHoldsJumps
  <2>2. {items'[i] : i \in 0 .. n} = added'
    <3>1. {items[i] : i \in 0 .. n - 1} = added
      BY DEF JumpInv, TableHoldsJumps, n
    <3>2. ASSUME NEW i \in 0 .. n PROVE items'[i] \in added'
      <4>1. CASE i < lo
        BY <4>1, <3>1, <1>1, <1>2, <1>5
      <4>2. CASE i = lo
        BY <4>2, <1>1, <1>2, <1>5
      <4>3. CASE i > lo
        <5>1. i - 1 \in 0 .. n - 1 /\ items'[i] = items[i - 1]
          BY <4>3, <1>2, <1>5
        <5> QED BY <5>1, <3>1, <1>1
      <4> QED BY <4>1, <4>2, <4>3, <1>2
    <3>3. ASSUME NEW d \in added' PROVE \E i \in 0 .. n : items'[i] = d
      <4>1. CASE d = dest
        <5>1. lo \in 0 .. n /\ lo \in 0 .. allocated - 1 /\ ~ (lo > n) /\ ~ (lo < lo)
          BY <1>2 DEF lo, n
        <5>2. items'[lo] = dest
          BY <5>1, <1>5
        <5> QED BY <4>1, <5>1, <5>2
      <4>2. CASE d \in added
        <5>1. PICK j \in 0 .. n - 1 : items[j] = d
          BY <4>2, <3>1
        <5>2. CASE j < lo
          BY <5>1, <5>2, <1>2, <1>5
        <5>3. CASE j >= lo
          <6>1. j + 1 \in 0 .. n /\ items'[j + 1] = items[(j + 1) - 1] /\ (j + 1) - 1 = j
            BY <5>3, <1>2, <1>5
          <6> QED BY <6>1, <5>1
        <5> QED BY <5>2, <5>3, <1>2
      <4> QED BY <4>1, <4>2, <1>1
    <3> QED BY <3>2, <3>3
  <2>3. \A i, j \in 0 .. n : i < j => items'[i] <= items'[j]
    <3> SUFFICES ASSUME NEW i \in 0 .. n, NEW j \in 0 .. n, i < j PROVE items'[i] <= items'[j]
      OBVIOUS
    <3>1. \A k, l \in 0 .. n - 1 : k < l => items[k] <= items[l]
      BY DEF JumpInv, TableHoldsJumps, n
    <3>2. \A k \in 0 .. n - 1 : items[k] \in Int
      BY <1>2
    <3>3. CASE j < lo
      BY <3>1, <3>3, <1>2, <1>5
    <3>4. CASE j = lo
      BY <3>4, <3>2, <1>2, <1>3, <1>5
    <3>5. CASE j > lo
      <4>1. j - 1 \in lo .. n - 1 /\ items'[j] = items[j - 1] /\ items[j - 1] \in Int
        BY <3>5, <1>2, <1>5
      <4>2. CASE i < lo
        <5>1. i \in 0 .. n - 1 /\ items'[i] = items[i] /\ items[i] < dest /\ items[j - 1] >= dest
          BY <4>1, <4>2, <1>2, <1>3, <1>5
        <5> QED BY <5>1, <4>1, <3>2, <1>2
      <4>3. CASE i = lo
        BY <4>1, <4>3, <1>2, <1>3, <1>5
      <4>4. CASE i > lo
        <5>1. i - 1 \in 0 .. n - 1 /\ items'[i] = items[i - 1] /\ i - 1 < j - 1
          BY <4>4, <1>2, <1>5
        <5> QED BY <5>1, <4>1, <3>1, <1>2
      <4> QED BY <4>2, <4>3, <4>4, <1>2
    <3> QED BY <3>3, <3>4, <3>5, <1>2
  <2>4. jump_count' - 1 = n
    BY <1>2, <1>4
  <2> QED BY <2>1, <2>2, <2>3, <2>4 DEF TableHoldsJumps
<1> QED BY <1>1, <1>7, <1>8 DEF JumpInv, SearchBounds, NoSearch

LEMMA ClearOrAnswerKeeps ==
  ASSUME JumpInv, find_jump_found \/ clear_jumps
  PROVE  JumpInv'
<1>1. CASE find_jump_found
  <2>1. search' \in [op : {"none", "add", "find"}, dest : Nat, lo : Int, hi : Int] /\ search'.op = "none"
    BY <1>1 DEF find_jump_found, NoSearch
  <2> QED BY <2>1, <1>1 DEF find_jump_found, JumpInv, JumpTypeOK, TableHoldsJumps, SearchBounds
<1>2. CASE clear_jumps
  <2>1. jump_count' = 0 /\ added' = {} /\ search.op = "none"
        /\ UNCHANGED <<items, allocated, search, jumps_status>>
    BY <1>2 DEF clear_jumps, Idle
  <2>2. JumpTypeOK'
    BY <2>1, JumpTableAssumption DEF JumpInv, JumpTypeOK
  <2>3. TableHoldsJumps'
    BY <2>1 DEF JumpInv, JumpTypeOK, TableHoldsJumps
  <2> QED BY <2>1, <2>2, <2>3 DEF JumpInv, SearchBounds
<1> QED BY <1>1, <1>2

\* At the end of a search the place it is left with decides.
LEMMA AnswerIsRight ==
  ASSUME JumpInv, find_jump_found
  PROVE  IF search.dest \in added THEN answer' \in 0 .. jump_count - 1 /\ items[answer'] = search.dest
         ELSE answer' = 0 - 1
<1> DEFINE lo == search.lo
           dest == search.dest
<1>1. /\ answer' = IF lo < jump_count /\ items[lo] = dest THEN lo ELSE 0 - 1
      /\ search.op # "none" /\ search.lo >= search.hi
  BY DEF find_jump_found, Found
<1>2. /\ lo \in 0 .. jump_count /\ jump_count \in Nat /\ dest \in Nat
      /\ \A i \in 0 .. lo - 1 : items[i] < dest
      /\ \A i \in 0 .. jump_count - 1 : items[i] \in Int
  BY <1>1 DEF JumpInv, JumpTypeOK, SearchBounds, TableHoldsJumps
<1>3. {items[i] : i \in 0 .. jump_count - 1} = added
  BY DEF JumpInv, TableHoldsJumps
<1>4. CASE lo < jump_count /\ items[lo] = dest
  BY <1>1, <1>2, <1>3, <1>4
<1>5. CASE ~ (lo < jump_count /\ items[lo] = dest)
  <2>1. ASSUME NEW i \in 0 .. jump_count - 1, items[i] = dest PROVE FALSE
    <3>1. ~ (i < lo)
      BY <2>1, <1>2
    <3>2. i > lo /\ lo < jump_count
      BY <2>1, <3>1, <1>2, <1>5
    <3>3. items[lo] <= items[i] /\ items[lo] \in Int
      BY <3>2, <1>2 DEF JumpInv, TableHoldsJumps
    <3>4. items[lo] >= dest
      <4>1. search.lo = search.hi
        BY <1>1 DEF JumpInv, JumpTypeOK, SearchBounds
      <4> QED BY <4>1, <3>2, <1>1, <1>2 DEF JumpInv, SearchBounds
    <3> QED BY <2>1, <3>2, <3>3, <3>4, <1>2, <1>5
  <2> QED BY <2>1, <1>1, <1>3, <1>5
<1> QED BY <1>4, <1>5
-----------------------------------------------------------------------------
LEMMA JumpTableInitially ==
  ASSUME JumpTableInit
  PROVE  JumpInv
<1>1. search \in [op : {"none", "add", "find"}, dest : Nat, lo : Int, hi : Int] /\ search.op = "none"
  BY DEF JumpTableInit, NoSearch
<1>2. JumpTypeOK
  BY <1>1, JumpTableAssumption DEF JumpTableInit, JumpTypeOK
<1>3. TableHoldsJumps
  BY JumpTableAssumption DEF JumpTableInit, TableHoldsJumps
<1> QED BY <1>1, <1>2, <1>3 DEF JumpInv, SearchBounds

LEMMA JumpTableStep ==
  ASSUME FewJumps, JumpInv, [JumpTableNext]_jumpTableVars
  PROVE  /\ JumpInv'
         /\ search.op = "find" /\ search'.op = "none"
              => IF search.dest \in added
                 THEN answer' \in 0 .. jump_count - 1 /\ items[answer'] = search.dest
                 ELSE answer' = 0 - 1
         /\ UNCHANGED jumpTableVars
              \/ (search.op # "none" /\ search'.op # "none"
                    => search'.hi - search'.lo < search.hi - search.lo)
<1>1. CASE add_jump_at_end
  BY <1>1, AddAtEndKeeps DEF add_jump_at_end, Idle
<1>2. CASE add_jump \/ find_jump
  BY <1>2, BeginKeeps DEF add_jump, find_jump, Idle
<1>3. CASE binary_search
  <2>1. search'.op = search.op
    BY <1>3 DEF binary_search, Halve, JumpInv, JumpTypeOK
  <2> QED BY <2>1, <1>3, HalveKeeps DEF binary_search, Searching
<1>4. CASE add_jump_found
  BY <1>4, InsertedKeeps DEF add_jump_found, NoSearch
<1>5. CASE find_jump_found
  BY <1>5, ClearOrAnswerKeeps, AnswerIsRight DEF find_jump_found, NoSearch
<1>6. CASE clear_jumps
  BY <1>6, ClearOrAnswerKeeps DEF clear_jumps, Idle
<1>7. CASE UNCHANGED jumpTableVars
  BY <1>7 DEF jumpTableVars, JumpInv, JumpTypeOK, TableHoldsJumps, SearchBounds
<1> QED BY <1>1, <1>2, <1>3, <1>4, <1>5, <1>6, <1>7 DEF JumpTableNext
-----------------------------------------------------------------------------
\* The table is sorted, inside its array and holds exactly what was added, if
\* no more jumps are added than a growth copies.
THEOREM TableAlwaysHoldsJumps == ASSUME FewJumps PROVE JumpTableSpec => []TableHoldsJumps
<1>1. JumpTableInit => JumpInv
  BY JumpTableInitially
<1>2. JumpInv /\ [JumpTableNext]_jumpTableVars => JumpInv'
  BY JumpTableStep
<1>3. JumpInv => TableHoldsJumps
  BY DEF JumpInv
<1> QED BY <1>1, <1>2, <1>3, PTL DEF JumpTableSpec

\* find_jump answers with the place of its destination, or -1 if it was not added.
THEOREM AlwaysFindsWhatWasAdded == ASSUME FewJumps PROVE JumpTableSpec => FindsWhatWasAdded
<1>1. JumpTableInit => JumpInv
  BY JumpTableInitially
<1>2. JumpInv /\ [JumpTableNext]_jumpTableVars => JumpInv'
  BY JumpTableStep
<1>3. JumpInv /\ [JumpTableNext]_jumpTableVars =>
        [search.op = "find" /\ search'.op = "none"
           => IF search.dest \in added THEN answer' \in 0 .. jump_count - 1 /\ items[answer'] = search.dest
              ELSE answer' = 0 - 1]_jumpTableVars
  BY JumpTableStep
<1> QED BY <1>1, <1>2, <1>3, PTL DEF JumpTableSpec, FindsWhatWasAdded

\* Every round of binary_search leaves less to search, so its loop ends.
THEOREM SearchAlwaysNarrows == ASSUME FewJumps PROVE JumpTableSpec => SearchNarrows
<1>1. JumpTableInit => JumpInv
  BY JumpTableInitially
<1>2. JumpInv /\ [JumpTableNext]_jumpTableVars => JumpInv'
  BY JumpTableStep
<1>3. JumpInv /\ [JumpTableNext]_jumpTableVars =>
        [search.op # "none" /\ search'.op # "none"
           => search'.hi - search'.lo < search.hi - search.lo]_jumpTableVars
  BY JumpTableStep
<1> QED BY <1>1, <1>2, <1>3, PTL DEF JumpTableSpec, SearchNarrows
=============================================================================
