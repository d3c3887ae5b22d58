SPECIFICATION FairSpec
CONSTANTS
  Targets = {1, 2}
  Plans = {"p", "q"}
  MaxFaults = 2
  FaultKinds = {"lost", "save", "crash", "scope", "core", "container", "mistake"}
INVARIANTS TypeOK OneEngine
PROPERTIES JoinedIsObserved JoinCompletes
CHECK_DEADLOCK FALSE
