SPECIFICATION Spec
CONSTANTS
  RegionSize = 16
  AllocSizes = {0, 2, 5, 8, 17}
  MaxRegions = 2
  MaxBlocks = 3
  MaxFences = 2
  SymbolNames = {"a", "d", "b", "c", "e"}
  Meanings = {"var", "func"}
  Hash <- SymbolHashes
  Capacity = 4
  Vacant = Vacant
  InitSize = 2
  ItemSize = 2
  Dests = {1, 2, 3, 4}
  MaxJumps = 4
  Beyond = 7
  Modules <- AllModules
  Versions = {1, 2, 3, 4, 5}
  ReaderVersion = 5
  InstructionSize <- MCSizes
  JumpOps = {3}
  TableSizes <- MCTables
  LocalSize = 12
  MaxString = 4
INVARIANTS BlocksApart TableHoldsJumps RoundTrips CutFilesAreRejected
PROPERTIES FreshBlocksAreZero UsedBlocksAreKept ImplementsMap FindsWhatWasAdded WholeFilesLoad
CHECK_DEADLOCK FALSE
