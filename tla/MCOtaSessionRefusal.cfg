CONSTANTS
  HashLen = 2
  ZeroCell = ZeroCell
  Session = 7
  Package <- MCPackage
  FragmentSize = 1
  Frames <- MCFrames
  Manifests <- MCManifests
  Signed <- MCManifests
  Payload <- MCPayload
  BlockCells <- MCBlockCells
  ProofCells <- MCProofCells
  MaxUnit = 2
  Persistent = FALSE
  MayRefuse = FALSE
  MaxFaults = 1
  MaxNudges = 0
  MaxReboots = 0
  Losable = {}
  Repeatable = {}
  Damageable = {"Manifest"}
SPECIFICATION FairSessionSpec
PROPERTIES
  SeederLearnsAbort
CHECK_DEADLOCK FALSE
