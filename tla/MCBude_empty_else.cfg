SPECIFICATION Spec
CONSTANTS
  ByteBase = 256
  Literals = {1}
  LiteralOps <- OnlyInts
  SimpleOps = {}
  LoopNames = {}
  VarNames = {}
  FuncNames = {}
  Signatures <- NoSignature
  Constructs = {"if", "else"}
  Oddities = {"empty_else"}
  MaxPhrases = 6
  BlockInitSize = 128
  HeapBytes = {0}
  StackSize = 12
  WordBase = 65536
  Junk = {0}
INVARIANT NoAssertionFails
