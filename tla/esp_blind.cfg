SPECIFICATION Spec
CONSTANTS
  Areas = {"FLASH"}
  NBlocks = 2
  BlockSize = 1
  Byte <- MCByte
  Empty = 0
  Guarded = {}
  ProgTime <- PromptTimes
  HasNCR2 = TRUE
  MaxFaults = 1
CHECK_DEADLOCK FALSE
INVARIANTS FailedReadIsNoEop
