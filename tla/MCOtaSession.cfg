CONSTANTS
  HashLen = 2
  ZeroCell = ZeroCell
  Session = 7
  Package <- MCPackage
  FragmentSize = 1
  Frames <- MCFrames
  Manifests <- MCManifests
  Signed <- MCManifests
  Payload <- MCPayload
  BlockCells <- MCBlockCells
  ProofCells <- MCProofCells
  MaxUnit = 2
  Persistent = FALSE
  MayRefuse = FALSE
  MaxFaults = 2
  MaxNudges = 1
  MaxReboots = 1
  Losable = {"Start", "Manifest", "Block", "Proof", "Request", "Ack"}
  Repeatable = {"Start", "Manifest", "Block", "Proof", "Request", "Done"}
  Damageable = {"Block", "Proof"}
SPECIFICATION FairSessionSpec
INVARIANTS
  SessionInv
  BuffersHoldOneUnit
  HalvesAreOfMissing
  RequestsDoNotMultiply
  DoneIsTrue
PROPERTIES
  Delivered
  SeederLearnsDone
CHECK_DEADLOCK FALSE
