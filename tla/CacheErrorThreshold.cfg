SPECIFICATION Spec
CONSTANTS
  Files <- Files4
  Part <- Part4
  Parts <- Parts4
  Temps <- OneTemp
  Dirs <- TwoDirs
  Size <- Size4
  Capacity <- Roomy
  Layouts <- TwoTiers
  VoteCounts = {0, 1}
  SizeFloor = 1
  FilesizeLimit = 1
  Retry = 1
  ErrorThreshold = 2
  Faults = {}
  MaxFaults = 0
  MaxRuns = 1
INVARIANT StopsOnConsecutiveErrors
CHECK_DEADLOCK FALSE
