SPECIFICATION Spec
CONSTANTS
  NDevices = 2
  Kinds = {"stlinkv2", "stlinkv21"}
  Serials <- MCUnequals
  V2 = {"stlinkv2"}
  FirstModes = {"debug"}
  BufSizes = {0, 2}
  Length = 3
  HsitTries = 1
  MaxRuns = 1
CHECK_DEADLOCK FALSE
INVARIANTS RightProgrammer
