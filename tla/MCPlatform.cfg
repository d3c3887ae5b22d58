SPECIFICATION FairSpec
CONSTANTS
  NV = 2
  Releases <- MCReleases
  Counters = {0, 1}
  FaultKinds = {"lost", "crash", "broken", "save", "restart"}
  MaxFaults = 2
INVARIANTS TypeOK GracefulDrain OneWithdrawal
PROPERTIES RerunCompletes
CHECK_DEADLOCK FALSE
