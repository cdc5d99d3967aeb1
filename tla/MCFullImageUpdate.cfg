CONSTANTS
  HashLen = 1
  ZeroCell = ZeroCell
  Session = 7
  Frames <- MCFrames
  Genuine <- MCGenuine
  Manifests <- MCManifests
  Signed <- MCManifests
  Payload <- MCPayload
  BlockCells <- MCBlockCells
  ProofCells <- MCProofCells
  FragmentSize = 2
  MaxUnit = 2
  Persistent = FALSE
  MayRefuse = TRUE
  TheManifest <- MCManifest
  Block <- MCBlock
  Word = 8
  MaxFaults = 1
SPECIFICATION FairUpdateSpec
INVARIANTS
  UpdateInv
  FlashIsPrefix
  DoneIsFlashed
PROPERTIES
  ImplementsBlockStore
  EventuallyActive
