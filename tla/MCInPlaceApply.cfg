CONSTANTS
  memory_size = 12
  segment_size = 2
  shift_size = 2
  from_size = 7
  to_size = 9
  Patches <- MCPatches
  MaxCuts = 2
SPECIFICATION FairSpec
INVARIANTS
  IInv
  SourcesIntact
  JournaledIsWritten
  DoneIsTarget
PROPERTIES
  JournalForward
  EventuallyApplied
CHECK_DEADLOCK FALSE
