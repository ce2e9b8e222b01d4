SPECIFICATION FairSpec
CONSTANTS
  Areas = {"RAM", "EEPROM", "FLASH", "OPT"}
  NBlocks = 2
  BlockSize = 1
  Byte <- MCByte
  Empty = 0
  Guarded = {}
  ProgTime <- PromptTimes
  HasNCR2 = TRUE
  MaxFaults = 2
CHECK_DEADLOCK FALSE
INVARIANTS TypeOK CleanWritten InStep ReadyToSend FastOnlyIfVerified
PROPERTIES Termination
