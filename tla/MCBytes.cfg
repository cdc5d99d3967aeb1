SPECIFICATION MCSpec
CONSTANTS
  Headers <- SomeHeaders
  Infos <- SomeInfos
  Byte <- Bytes
  BlockLen = 6
  LenLen = 2
  Base = 256
  Word = 65536
  Updates <- Strings
  U16 = 8
  U32 = 28
  BlockSizes = {1, 2, 3, 4, 5, 6, 7}
  Lengths = {0, 1, 2, 6, 7, 8, 14, 15, 21}
  HashLen = 1
  ZeroCell = ZeroCell
  MaxLeaves = 9
  MaxEdited = 6
  MaxEdits = 2
INVARIANTS
  FrameIsHeard
  DigestIsOfPadded
  LeavesAreTheManifests
  RootIsTreeHash
  ProofIsAuditPath
  VerifyIsExact
CHECK_DEADLOCK FALSE
