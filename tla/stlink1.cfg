SPECIFICATION FairSpec
CONSTANTS
  Areas = {"FLASH", "EEPROM", "RAM"}
  NBlocks = 2
  BlockSize = 2
  Byte <- MCByte
  Empty = 0
  Guarded = {}
  ProgTime <- MCProgTime
  HasNCR2 = TRUE
  Olds <- MCOlds
  Spaces = {1, 2}
  ReadChunk = 1
CHECK_DEADLOCK FALSE
INVARIANTS TypeOK CleanWritten EepromRefused OthersUntouched KeysInOrder ReadBack
PROPERTIES Termination
