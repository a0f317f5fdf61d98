SPECIFICATION Spec
CONSTANTS
  Bits <- Scaled
  Utf8 <- Encoding
  Utf16 <- Encoding
  UnicodeMax = 1
  Outcomes <- SomeOutcomes
  One32 = 4
  One64 = 10
  Table <- SomeTable
  Index = {"u16"}
  MaxWords = 7
  MaxDepth = 4
  MaxMoves = 2
INVARIANT SetsAllWords
CHECK_DEADLOCK FALSE
