SPECIFICATION FairSpec
CONSTANTS
  Packages <- Projects
  Norms <- Projects
  Norm <- Same
  Keys <- Projects
  Key <- Same
  Artifacts = 2
  Concurrency = 2
  Faults = {"fetch", "write", "remove", "db", "crash", "cancel"}
  MaxFaults = 2
  MaxSerial = 3
INVARIANTS TypeOK Repairable ListedHavePages NoOrphans
PROPERTY Converges
CHECK_DEADLOCK FALSE
