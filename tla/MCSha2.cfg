CONSTANTS
  Chunk = 3
  LenBytes = 1
  BitCountLimit = 128
  Byte <- MCByte
  NoData = NoData
  NoDigest = NoDigest
  MaxMsg = 7
  BlockLen = 2
  MaxBuffers = 3
  VectorMin = 2
  LenLimit = 6
  Beyond = Beyond
  x = x
  y = y
  Batches <- MCBatches
  MaxLen = 6

SYMMETRY MCSymmetry

SPECIFICATION MCSpec

INVARIANTS
  TypeOK
  MessageAccounted
  BatchTypeOK
  BatchDigested

PROPERTY ImplementsDigestSession

CHECK_DEADLOCK FALSE
