SPECIFICATION Spec
CONSTANTS
  Areas = {"FLASH", "RAM"}
  NBlocks = 2
  BlockSize = 2
  Byte <- MCByte
  Empty = 0
  Guarded = {}
  ProgTime <- PromptTimes
  HasNCR2 = TRUE
  MaxRuns = 2
CHECK_DEADLOCK FALSE
INVARIANTS WrittenOK FastOnlyOnEmpty ReadyToSend
PROPERTIES KeepsPromise OwnEop
