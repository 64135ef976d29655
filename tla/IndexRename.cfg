SPECIFICATION Spec
CONSTANTS
  Packages <- Spellings
  Norms = {"foo-bar"}
  Norm <- Dashed
  Keys <- Spellings
  Key <- Verbatim
  Artifacts = 2
  Concurrency = 2
  Faults = {}
  MaxFaults = 0
  MaxSerial = 3
PROPERTY RemovesOnlyAbsent
CHECK_DEADLOCK FALSE
