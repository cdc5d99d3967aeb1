SPECIFICATION MCSpec
CONSTANTS
  c1 = c1
  c2 = c2
  c3 = c3
  Zero = Zero
  Cell <- Cells
  TheManifest <- SmallManifest
  Block <- SmallBlocks
  Word = 12
  k1 = k1
  k2 = k2
  k3 = k3
  Keys <- AllKeys
  Offers <- AllOffers
  Images <- MCImages
  PartitionLen = 300
  FieldLen = 3
  Given <- NamesGiven
  ChunkLen = 7
  PieceLen = 4
  Base <- Old
  Updates <- AllUpdates
INVARIANTS
  ParseIsExact
  VerdictIsExact
  IdentityIsOfImage
  GateIsExact
  SinkIsPrefix
  ResultIsTrue
PROPERTIES
  ImplementsBlockStore
  Returns
CHECK_DEADLOCK FALSE
