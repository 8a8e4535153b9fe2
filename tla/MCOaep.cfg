CONSTANTS
  HashLen <- MCHashLen
  Half = 8
  PsMin = 2
  KeySize <- MCKeySize
  DefaultSize = 16
  InfoOf <- MCInfoOf
  DefaultDigest = "sha"
  Labels = {"", "l"}
  Texts <- MCTexts
  Salts <- MCSalts
  Messages = {"m", "n"}

SPECIFICATION Spec

INVARIANTS
  OaepGivesTheText

CHECK_DEADLOCK FALSE
