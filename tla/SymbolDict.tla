----------------------------- MODULE SymbolDict -----------------------------
(***************************************************************************)
(* symbol.c: the compiler's one table of names, an array of slots with     *)
(* open addressing.  Nothing is ever removed and the table never grows; a  *)
(* name that is inserted again takes the place of its older meaning.       *)
(***************************************************************************)
EXTENDS Integers

CONSTANTS
  SymbolNames,  \* names a program may define
  Meanings,     \* what a symbol stands for
  Hash,         \* hash_sv, a number for each name
  Capacity,     \* SYMDICT_INIT_SIZE: slots in the table
  Vacant        \* the content of a slot with is_occupied = false

ASSUME SymbolDictAssumption ==
  /\ Capacity \in Nat \ {0}
  /\ Hash \in [SymbolNames -> Nat]
  /\ Vacant \notin [name : SymbolNames, meaning : Meanings]

VARIABLES
  slots,        \* the table
  count,        \* dict->count
  found,        \* what the last lookup answered: a set of at most one symbol
  dict_status   \* "ok", or "full": the assertion of insert_symbol failed

dictVars == <<slots, count, found, dict_status>>

Symbols == [name : SymbolNames, meaning : Meanings]
Places == 0 .. Capacity - 1
-----------------------------------------------------------------------------
\* Mutant: steps that depend on the name and do not reach every slot.
Probe_DoubleHash(hash, k) == (hash + k * (1 + (hash % Capacity))) % Capacity
\* The k-th slot that is visited for a hash: hash2 is 1 for every hash.
Probe(hash, k) == (hash + k) % Capacity

\* Mutant: stops at the first slot of the same hash.
EndsProbe_SameHash(slot, name) == slot # Vacant => Hash[slot.name] = Hash[name]
\* The loop in find_slot goes on past a slot that holds another name.
EndsProbe(slot, name) == slot # Vacant => slot.name = name

\* find_slot: where the search for a name ends after k steps, if it does.
FindsAt(name, k) ==
  /\ EndsProbe(slots[Probe(Hash[name], k)], name)
  /\ \A j \in 0 .. k - 1 : ~ EndsProbe(slots[Probe(Hash[name], j)], name)

\* find_slot returns NULL: every slot holds another name.
NoSlot(name) == \A k \in Places : ~ EndsProbe(slots[Probe(Hash[name], k)], name)

\* Mutant: the search of an insertion starts one slot later than that of a lookup.
insert_symbol_StartsLate ==
  \E name \in SymbolNames, meaning \in Meanings, k \in Places :
    LET index == Probe(Hash[name] + 1, k)
    IN  /\ EndsProbe(slots[index], name)
        /\ slots' = [slots EXCEPT ![index] = [name |-> name, meaning |-> meaning]]
        /\ count' = IF slots[index] = Vacant THEN count + 1 ELSE count
        /\ UNCHANGED <<found, dict_status>>

insert_symbol ==
  \E name \in SymbolNames, meaning \in Meanings, k \in Places :
    LET index == Probe(Hash[name], k)
    IN  /\ FindsAt(name, k)
        /\ slots' = [slots EXCEPT ![index] = [name |-> name, meaning |-> meaning]]
        /\ count' = IF slots[index] = Vacant THEN count + 1 ELSE count
        /\ UNCHANGED <<found, dict_status>>

insert_symbol_fails ==
  \E name \in SymbolNames :
    /\ NoSlot(name)
    /\ dict_status' = "full"
    /\ UNCHANGED <<slots, count, found>>

\* lookup_symbol: the slot the search ends at, NULL if that is vacant or there
\* is none.
lookup_symbol ==
  \E name \in SymbolNames :
    /\ \/ NoSlot(name) /\ found' = {}
       \/ \E k \in Places : /\ FindsAt(name, k)
                            /\ found' = {slots[Probe(Hash[name], k)]} \ {Vacant}
    /\ UNCHANGED <<slots, count, dict_status>>
-----------------------------------------------------------------------------
\* init_symbol_dictionary
DictInit ==
  /\ slots = [i \in Places |-> Vacant]
  /\ count = 0
  /\ found = {}
  /\ dict_status = "ok"

DictNext ==
  /\ dict_status = "ok"
  /\ insert_symbol \/ insert_symbol_fails \/ lookup_symbol

DictSpec == DictInit /\ [][DictNext]_dictVars
-----------------------------------------------------------------------------
(* Properties *)

\* The search for a name that is in the table ends at that name: no vacant slot
\* and no other name in the way stops it, after any sequence of insertions.
NamesAreReachable ==
  \A i \in Places : slots[i] # Vacant =>
    \E k \in Places : Probe(Hash[slots[i].name], k) = i /\ FindsAt(slots[i].name, k)

\* What the table means: at most one meaning for each name.
Meaning == [name \in SymbolNames |->
              {slots[i].meaning : i \in {j \in Places : slots[j] # Vacant /\ slots[j].name = name}}]

\* An insertion changes the meaning of no name but its own, gives that exactly
\* one, and a lookup answers with the meaning of the last insertion, or with
\* nothing if there was none: the table is a map.
Map == INSTANCE SymbolMap WITH map <- Meaning, answer <- found, failed <- dict_status = "full",
                               room <- \E i \in Places : slots[i] = Vacant
ImplementsMap == Map!MapSpec
=============================================================================
