CONSTANTS
  k1 = k1
  k2 = k2
  short = short
  v1 = v1
  v2 = v2
  long = long
  NoKey = NoKey
  NoIv = NoIv
  NoStart = NoStart
  NoTag = NoTag
  Keys <- MCKeys
  BadKeys <- MCBadKeys
  Ivs <- MCIvs
  BadIvs <- MCBadIvs
  TagSizes <- MCTagSizes
  Block = 2
  MaxText = 5
  MaxAad = 3
  MaxBreaks = 2

SYMMETRY MCSymmetry

SPECIFICATION Spec

INVARIANTS
  TypeOK
  ReadyMeansKeyed
  TextIsCtr
  TagIsGcm
  OnlyGenuineAccepted
