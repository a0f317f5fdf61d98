------------------------------ MODULE MCCompiler ------------------------------
(* Instances of Compiler for TLC: the values its constants get in the runs.  *)
EXTENDS Compiler

IntLiterals == {T_OP_PUSH_INT8}

NoArguments == [params |-> <<>>, rets |-> <<>>]
OneSignature == {NoArguments}

AllConstructs == {"if", "elif", "else", "while", "for", "func"}
===============================================================================
