SPECIFICATION Spec
CONSTANTS
  Files <- Files2
  Part <- Part2
  Parts <- Parts2
  Temps <- OneTemp
  Dirs <- TwoDirs
  Size <- Size2
  Capacity <- Capacity2
  Layouts <- TierRemoved
  VoteCounts = {0, 1}
  SizeFloor = 1
  FilesizeLimit = 2
  Retry = 2
  ErrorThreshold = 2
  Faults = {}
  MaxFaults = 1
  MaxRuns = 2
INVARIANT TierHasPath
CHECK_DEADLOCK FALSE
