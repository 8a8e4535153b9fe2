CONSTANTS
  Retries = 2
  SizeMod = 16
  Stride = 2
  MaxLen = 4
  EntropyLen = 4
  NonceLen = 2
  ReseedLen = 2
  SeedBlocks = 2
  MaxBlocks = 1
  MaxCalls = 3
SPECIFICATION Spec
INVARIANTS
  TypeOK
  SourceHonest
  SeedIsFresh
  PastIsSafe
PROPERTIES
  ReseedReaches
  CallsReturn
CHECK_DEADLOCK FALSE
