CONSTANTS
  memory_size = 12
  segment_size = 2
  shift_size = 2
  from_size = 7
  to_size = 9
  Patches <- MCPatches
  MaxCuts = 0
SPECIFICATION RerunSpec
PROPERTIES
  ImageKept
CHECK_DEADLOCK FALSE
