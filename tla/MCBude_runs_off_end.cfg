SPECIFICATION Spec
CONSTANTS
  ByteBase = 256
  Literals = {117}
  LiteralOps <- OnlyInts
  SimpleOps <- JustPop
  LoopNames = {}
  VarNames = {}
  FuncNames = {"f"}
  Signatures <- NoSignature
  Constructs = {"func"}
  Oddities = {"no_final_ret"}
  MaxPhrases = 6
  BlockInitSize = 128
  HeapBytes = {0}
  StackSize = 12
  WordBase = 65536
  Junk = {0}
INVARIANT EndsClean
