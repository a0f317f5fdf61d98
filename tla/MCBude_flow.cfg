SPECIFICATION FairSpec
CONSTANTS
  ByteBase = 256
  Literals = {0, 1}
  LiteralOps <- OnlyInts
  SimpleOps <- PopAndLeaving
  LoopNames = {}
  VarNames = {}
  FuncNames = {}
  Signatures <- NoSignature
  Constructs = {"if", "else", "while"}
  Oddities = {}
  MaxPhrases = 6
  BlockInitSize = 6
  HeapBytes = {0, 117}
  StackSize = 12
  WordBase = 65536
  Junk = {0}
INVARIANTS PatchesOwed WordJumpsResolved JumpsMirrored NeverUnderflows NoAssertionFails
PROPERTY CheckingEnds
