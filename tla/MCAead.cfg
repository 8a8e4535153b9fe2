CONSTANTS
  k1 = k1
  k2 = k2
  v1 = v1
  v2 = v2
  NoKey = NoKey
  BadKey = BadKey
  NoIv = NoIv
  BadIv = BadIv
  OtherIv = OtherIv
  Keys <- MCKeys
  Ivs <- MCIvs
  CcmRoom <- MCRoom
  CcmTagLens <- MCTagLens
  TagSizes <- MCTagSizes
  Aads <- MCAads
  Texts <- MCTexts
  SivTagLen = 4
  Block = 4
  ChaBlock = 2
  MaxAads = 2
  MaxBlocks = 4
  MaxTurns <- MCTurns

SYMMETRY MCSymmetry

SPECIFICATION Spec

INVARIANTS
  TagOfSession
  RoundTrip
  BurntStaysSilent
CHECK_DEADLOCK FALSE
