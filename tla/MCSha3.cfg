CONSTANTS
  Handles = {h1, h2}
  Block = 3
  DigestLen = 1
  Data <- MCData
  Sizes <- MCSizes
  MaxMsg = 4
  MaxOut = 4
SPECIFICATION Spec
INVARIANTS
  TypeOK
  MessageAccounted
  StreamIsXof
PROPERTIES
  OthersUntouched
