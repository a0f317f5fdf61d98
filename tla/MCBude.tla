-------------------------------- MODULE MCBude --------------------------------
(* Instances of Bude for TLC: the values its constants get in the runs.      *)
EXTENDS Bude

PushWord == 1
PushInt  == 5
Pop      == 17
Dupe     == 25
Exit     == 27
Ret      == 117

NoArguments == [params |-> <<>>, rets |-> <<>>]
IntToInt    == [params |-> <<"int">>, rets |-> <<"int">>]

OnlyInts     == {PushInt}
IntsAndWords == {PushInt, PushWord}
NoSignature  == {NoArguments}
Signatures2  == {NoArguments, IntToInt}
JustPop      == {Pop}
StackOps     == {Pop, Dupe}
Leaving      == {Exit, Ret}
PopAndLeaving   == JustPop \cup Leaving
StackAndLeaving == StackOps \cup Leaving

AllConstructs == {"if", "elif", "else", "while", "for", "func"}
===============================================================================
