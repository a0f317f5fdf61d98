SPECIFICATION Spec
CONSTANTS
  Bits <- Scaled
  Utf8 <- Utf8Scaled
  Utf16 <- Utf16Scaled
  UnicodeMax = 3
  Outcomes <- SomeOutcomes
  One32 = 4
  One64 = 10
  Literals = {0, 1, 2, 16, 31}
  Codepoints = {0, 2}
  MaxDepth = 3
  DeepTypes = {"string", "bool"}
INVARIANTS RingExact ComparisonsExact DivisionsExact ResultsFit ConversionsExact CharactersKept FormatsAgree GeneratedAgrees
CHECK_DEADLOCK FALSE
