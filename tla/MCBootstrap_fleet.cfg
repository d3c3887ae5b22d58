CONSTANTS
  r1 = r1
  r2 = r2
  r3 = r3
  NoOwner = NoOwner
  Runners = {r1}
  N = 3
  Parallel = 2
  FaultKinds = {"save", "ssh", "host", "drift", "scope", "cancel", "crash", "unlock"}
  MaxFaults = 2
SPECIFICATION FairSpec
INVARIANTS TypeOK SafeMutation HostsReadyIsFresh
PROPERTIES SessionEnds
CHECK_DEADLOCK FALSE
