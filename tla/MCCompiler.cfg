SPECIFICATION Spec
CONSTANTS
  ByteBase = 4
  Literals = {1}
  LiteralOps <- IntLiterals
  SimpleOps = {}
  LoopNames = {"i"}
  VarNames = {}
  FuncNames = {"f"}
  Signatures <- OneSignature
  Constructs <- AllConstructs
  Oddities = {"func_in_loop"}
  MaxPhrases = 6
INVARIANTS TypeOK LevelsNest FunctionsNest PlaceholdersOwed JumpsResolved LoopBodiesClosed
