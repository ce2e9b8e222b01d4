SPECIFICATION Spec
CONSTANTS
  Areas = {"FLASH"}
  NBlocks = 2
  BlockSize = 1
  Byte <- MCByte
  Empty = 0
  Guarded = {}
  ProgTime <- SlowTimes
  HasNCR2 = TRUE
  MaxRuns = 1
CHECK_DEADLOCK FALSE
INVARIANTS TimeoutIsReported
