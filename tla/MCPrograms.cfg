SPECIFICATION ProgramSpec
CONSTANTS
  ByteBase = 256
  Literals = {0, 1, 2, 3, 200}
  LiteralOps <- OnlyInts
  SimpleOps <- StackAndLeaving
  LoopNames = {"i", "j"}
  VarNames = {"x"}
  FuncNames = {"f", "g"}
  Signatures <- Signatures3
  Constructs <- AllConstructs
  Oddities = {}
  MaxPhrases = 40
  BlockInitSize = 128
  HeapBytes = {0}
  StackSize = 12
  WordBase = 65536
  Junk = {0, 7}
INVARIANTS EndsClean ReturnsItsResults ReadsOwnLoops LoopSlotsReserved CheckerTypeOK RunTypeOK
PROPERTIES ProgramEnds RunningEnds KeepsActivationsApart
