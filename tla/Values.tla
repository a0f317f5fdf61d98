-------------------------------- MODULE Values ---------------------------------
(***************************************************************************)
(* What packs, comps and arrays are to a Bude program (src/README.md,      *)
(* "Field access operations", "Constructors", "Destructors" and "Stack     *)
(* operations"): values with parts, each one item on the stack, whatever   *)
(* number of words it has.                                                 *)
(***************************************************************************)
EXTENDS TypeTable

CONSTANT Numbers   \* The values of each simple type.

VARIABLES
  stack,  \* of values with their types
  done    \* The instruction that was executed last.

Of(type, value) == [type |-> type, value |-> value]
Done(op, t, i) == done' = [op |-> op, t |-> t, i |-> i]

N == Len(stack)
Item(k) == stack[N - k]   \* the k-th item from the top, which is Item(0)

Replace(n, items) == stack' = SubSeq(stack, 1, N - n) \o items

Push == \E t \in Simple : \E v \in Numbers[t] :
  Done("push", t, 0) /\ Replace(0, <<Of(t, v)>>)

\* The topmost values become the parts of one, and the other way about.
Construct ==
  \E t \in Compounds :
    LET n == Len(Parts[t])
    IN /\ n <= N
       /\ \A i \in 1..n : stack[N - n + i].type = Parts[t][i]
       /\ Replace(n, <<Of(t, [i \in 1..n |-> stack[N - n + i].value])>>)
       /\ Done("construct", t, 0)
Destruct ==
  /\ N > 0 /\ Item(0).type \in Compounds
  /\ Replace(1, [i \in DOMAIN Parts[Item(0).type] |->
                   Of(Parts[Item(0).type][i], Item(0).value[i])])
  /\ Done(IF Item(0).type \in Packs THEN "unpack" ELSE "decomp", "", 0)

\* A field is got from the topmost value, which stays, and set in the value under
\* the topmost.
GetField ==
  /\ N > 0 /\ Item(0).type \in Packs \cup Comps
  /\ \E i \in DOMAIN Parts[Item(0).type] :
       /\ Replace(0, <<Of(Parts[Item(0).type][i], Item(0).value[i])>>)
       /\ Done("field-get", Item(0).type, i)
SetField ==
  /\ N > 1 /\ Item(1).type \in Packs \cup Comps
  /\ \E i \in DOMAIN Parts[Item(1).type] :
       /\ Parts[Item(1).type][i] = Item(0).type
       /\ Replace(2, <<[Item(1) EXCEPT !.value[i] = Item(0).value]>>)
       /\ Done("field-set", Item(1).type, i)

\* The index of an element is on the stack.
GetElement ==
  /\ N > 1 /\ Item(1).type \in Arrays /\ Item(0).type \in Simple
  /\ LET i == Item(0).value + 1
     IN /\ i \in DOMAIN Parts[Item(1).type]
        /\ Replace(1, <<Of(Parts[Item(1).type][i], Item(1).value[i])>>)
  /\ Done("array-get", "", 0)
SetElement ==
  /\ N > 2 /\ Item(2).type \in Arrays /\ Item(0).type \in Simple
  /\ LET i == Item(0).value + 1
     IN /\ i \in DOMAIN Parts[Item(2).type]
        /\ Parts[Item(2).type][i] = Item(1).type
        /\ Replace(3, <<[Item(2) EXCEPT !.value[i] = Item(1).value]>>)
  /\ Done("array-set", "", 0)

Pop ==
  /\ N > 0 /\ Replace(1, <<>>)
  /\ Done("pop", "", 0) \/ Done("print", "", 0)
Dupe == N > 0 /\ Replace(0, <<Item(0)>>) /\ Done("dupe", "", 0)
Swap == N > 1 /\ Replace(2, <<Item(0), Item(1)>>) /\ Done("swap", "", 0)
Over == N > 1 /\ Replace(0, <<Item(1)>>) /\ Done("over", "", 0)
Rot  == N > 2 /\ Replace(3, <<Item(1), Item(0), Item(2)>>) /\ Done("rot", "", 0)

Init == stack = <<>> /\ done = [op |-> "none", t |-> "", i |-> 0]
Next ==
  \/ Push \/ Construct \/ Destruct
  \/ GetField \/ SetField \/ GetElement \/ SetElement
  \/ Pop \/ Dupe \/ Swap \/ Over \/ Rot
Spec == Init /\ [][Next]_<<stack, done>>
=============================================================================
