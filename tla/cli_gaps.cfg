SPECIFICATION Spec
CONSTANTS
  Start <- MCStart
  Size <- MCSize
  OptWindow = 4
  OptionBytes = 3
  Rops = {"ROP_UNKNOWN", "ROP_STM8S", "ROP_STM8L"}
  Files <- MCFiles
  Old = 7
  Addresses <- MCAddresses
  Counts <- MCCounts
  MaxAddr = 18
  MaxOptions = 3
  MaxRuns = 2
CHECK_DEADLOCK FALSE
INVARIANTS WrittenVerifies
