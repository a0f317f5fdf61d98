SPECIFICATION Spec
CONSTANTS
  ByteBase = 4
  Literals = {1}
  LiteralOps <- IntLiterals
  SimpleOps = {}
  LoopNames = {}
  VarNames = {}
  FuncNames = {}
  Signatures <- OneSignature
  Constructs = {"while"}
  Oddities = {"long_while"}
  MaxPhrases = 8
INVARIANT JumpsResolved
