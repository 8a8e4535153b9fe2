CONSTANTS
  h1 = h1
  h2 = h2
  shortKey = shortKey
  longKey = longKey
  sha256 = sha256
  sha512 = sha512
  md5sha1 = md5sha1
  a = a
  b = b
  Handles <- MCHandles
  Keys <- MCKeys
  LongKeys <- MCLongKeys
  Modes <- MCModes
  Clonable <- MCClonable
  Eager <- MCEager
  Byte <- MCByte
  NoData = NoData
  Null = Null
  Dangling = Dangling
  MaxMsg = 2
  BlockLen = 2
  MaxBuffers = 3
  VectorMin = 2
  LenLimit = 6
  Beyond = Beyond
  DigestLen = 1
  x = x
  y = y
  k1 = k1
  k2 = k2
  Batches <- MCBatches
  KeyTexts <- MCKeyTexts
  MaxLen = 5

SYMMETRY MCSymmetry

SPECIFICATION MCSpec

INVARIANTS
  TypeOK
  DigestHoldsMessage
  CleanMac
  BatchTypeOK
  BatchAuthenticated

PROPERTY OthersUntouched
