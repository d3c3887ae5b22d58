CONSTANTS
  NV = 2
  Miner = 3
  FaultKinds = {"lost", "crash", "broken", "save", "restart"}
  MaxFaults = 1
  MaxOther = 1
SPECIFICATION FairSpec
INVARIANTS TypeOK MadeOnce DKGOverValidators
PROPERTIES RedeployCompletes
CHECK_DEADLOCK FALSE
