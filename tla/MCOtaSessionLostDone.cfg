CONSTANTS
  HashLen = 2
  ZeroCell = ZeroCell
  Session = 7
  Package <- MCPackage
  FragmentSize = 1
  Frames <- MCFrames
  Manifests <- MCManifests
  Signed <- MCManifests
  Payload <- MCPayload
  BlockCells <- MCBlockCells
  ProofCells <- MCProofCells
  MaxUnit = 2
  Persistent = FALSE
  MayRefuse = FALSE
  MaxFaults = 1
  MaxNudges = 0
  MaxReboots = 0
  Losable = {"Done"}
  Repeatable = {}
  Damageable = {}
SPECIFICATION FairSessionSpec
PROPERTIES
  SeederLearnsDone
CHECK_DEADLOCK FALSE
