CONSTANTS
  N = 2
  NV = 1
  Cycle = 4
  QuietFrom = 2
  FaultKinds = {"lost", "race"}
  MaxFaults = 2
SPECIFICATION FairSpec
PROPERTIES DocumentedRerun
CHECK_DEADLOCK FALSE
