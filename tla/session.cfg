SPECIFICATION FairSpec
CONSTANTS
  NDevices = 2
  Kinds = {"stlinkv2", "stlinkv21"}
  Serials <- MCSerials
  V2 = {"stlinkv2"}
  FirstModes = {"debug"}
  BufSizes = {0, 2}
  Length = 3
  HsitTries = 1
  MaxRuns = 2
CHECK_DEADLOCK FALSE
INVARIANTS TypeOK RightAmongEquals LinkUp GivenUpForGood ReadComplete
PROPERTIES Termination
