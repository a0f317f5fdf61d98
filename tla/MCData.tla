-------------------------------- MODULE MCData ---------------------------------
(* The data structures of the compiler and its files, for TLC.  They do not    *)
(* share state: a behaviour is one of any of them, while the others rest.       *)
EXTENDS Region, SymbolDict, JumpTable, MCBytecode

VARIABLE subject   \* the one that a behaviour is about

vars == <<subject, regionVars, dictVars, jumpTableVars, bytecodeVars>>

Init ==
  /\ subject \in {"region", "symbols", "jumps", "bytecode"}
  /\ RegionInit /\ DictInit /\ JumpTableInit
  /\ IF subject = "bytecode" THEN BytecodeInit
     ELSE BytecodeInit /\ module = NoTables /\ version = ReaderVersion

Next ==
  /\ UNCHANGED subject
  /\ \/ /\ subject = "region" /\ RegionNext
        /\ UNCHANGED <<dictVars, jumpTableVars, bytecodeVars>>
     \/ /\ subject = "symbols" /\ DictNext
        /\ UNCHANGED <<regionVars, jumpTableVars, bytecodeVars>>
     \/ /\ subject = "jumps" /\ JumpTableNext
        /\ UNCHANGED <<regionVars, dictVars, bytecodeVars>>
     \/ /\ subject = "bytecode" /\ BytecodeNext
        /\ UNCHANGED <<regionVars, dictVars, jumpTableVars>>

\* As in BytecodeSpec.
ReadOn ==
  /\ subject = "bytecode" /\ ReadData
  /\ UNCHANGED <<subject, regionVars, dictVars, jumpTableVars>>

Spec == Init /\ [][Next]_vars /\ WF_vars(ReadOn)

\* Two names with one hash, one with another hash that begins at the same slot,
\* and one at the last slot, from which the search goes on at the first.
SymbolHashes == [a |-> 0, d |-> 0, b |-> 5, c |-> 8, e |-> 3]
=============================================================================
