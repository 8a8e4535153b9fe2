CONSTANTS
  k1 = k1
  k2 = k2
  v1 = v1
  v2 = v2
  shortKey = shortKey
  NoKey = NoKey
  BadKey = BadKey
  NoIv = NoIv
  BadIv = BadIv
  NoData = NoData
  NoTag = NoTag
  Keys <- MCKeys
  BadKeys <- MCBadKeys
  Byte <- MCByte
  Ivs <- MCIvs
  Kinds <- MCKinds
  Texts <- MCTexts
  Batches <- MCBatches
  Block = 2
  BlockCountLimit = 4
  MaxMsg = 7
  Builds <- MCBuilds
  XtsMaxLen = 6
  MaxBuffers = 3
  MaxStart = 3
  MaxText = 5
  MaxTurns <- MCTurns

SYMMETRY MCSymmetry

SPECIFICATION MCSpec

INVARIANTS
  TypeOK
  LastBlockHeldBack
  NoByteLost
  StreamIsMode
  SegmentInPlace
  DequeueIsMode

PROPERTY ImplementsMacSession

CHECK_DEADLOCK FALSE
