SPECIFICATION Spec
CONSTANTS
  Files <- Files3
  Part <- Part3
  Parts <- Parts3
  Temps <- OneTemp
  Dirs <- TwoDirs
  Size <- Size3
  Capacity <- Capacity3
  Layouts <- TwoTiers
  VoteCounts = {0, 1, 2}
  SizeFloor = 1
  FilesizeLimit = 2
  Retry = 1
  ErrorThreshold = 2
  Faults = {"crash"}
  MaxFaults = 1
  MaxRuns = 2
INVARIANTS TypeOK NoInversion FetchedWithinLimit Reconciled CrashHeals CapacityKept PlanRealised
CHECK_DEADLOCK FALSE
