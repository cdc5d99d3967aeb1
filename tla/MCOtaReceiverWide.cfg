CONSTANTS
  HashLen = 1
  ZeroCell = ZeroCell
  Session = 7
  Frames <- MCFrames
  Manifests <- MCManifests
  Signed <- MCManifests
  Payload <- MCPayload
  BlockCells <- MCBlockCells
  ProofCells <- MCProofCells
  FragmentSize = 1
  MaxUnit = 2
  Persistent = FALSE
  MayRefuse = TRUE
SPECIFICATION Spec
INVARIANTS
  DoneMeansAll
CHECK_DEADLOCK FALSE
