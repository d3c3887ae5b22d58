CONSTANTS
  N = 4
  NV = 3
  Cycle = 4
  QuietFrom = 2
  FaultKinds = {"lost", "crash", "broken", "save", "race"}
  MaxFaults = 3
SPECIFICATION FairSpec
INVARIANTS TypeOK OneJournaledWithdrawal NoSessionWhileAway
PROPERTIES RerunCompletes
CHECK_DEADLOCK FALSE
