SPECIFICATION FairSpec
CONSTANTS
  NV = 1
  Releases <- MCHelper
  Counters = {1}
  FaultKinds = {"crash"}
  MaxFaults = 1
PROPERTIES DocumentedRerun
CHECK_DEADLOCK FALSE
