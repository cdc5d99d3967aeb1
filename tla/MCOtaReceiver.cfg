CONSTANTS
  HashLen = 2
  ZeroCell = ZeroCell
  Session = 7
  Frames <- MCFrames
  Manifests <- MCManifests
  Signed <- MCSigned
  Payload <- MCPayload
  BlockCells <- MCBlockCells
  ProofCells <- MCProofCells
  FragmentSize = 1
  MaxUnit = 2
  Persistent = FALSE
  MayRefuse = TRUE
SPECIFICATION ReleaseSpec
INVARIANTS
  GeometryIsSigned
  JournalIsSigned
  DoneMeansAll
PROPERTIES
  OnlyAbortEndsIt
  ImplementsTransfer
