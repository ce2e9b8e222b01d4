SPECIFICATION FairSpec
CONSTANTS
  Areas = {"EEPROM", "OPT", "FLASH"}
  NBlocks = 3
  BlockSize = 1
  Byte <- MCByte
  Empty = 0
  Guarded = {2}
  ProgTime <- SlowTimes
  HasNCR2 = FALSE
  MaxRuns = 2
CHECK_DEADLOCK FALSE
INVARIANTS TypeOK WrittenOK PrefixDone Prepared
PROPERTIES Termination OnlyDiffs
