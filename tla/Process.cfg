SPECIFICATION FairSpec
CONSTANTS
  Requests = {"r1", "r2"}
  BufSize = 3
  MaxFiles = 3
  MaxFaults = 1
INVARIANTS TypeOK Prefix WholeLines RotationFollowed CleanExit
PROPERTIES LinesReachDisk Stops
CHECK_DEADLOCK FALSE
