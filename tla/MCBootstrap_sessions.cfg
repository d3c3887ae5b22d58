CONSTANTS
  r1 = r1
  r2 = r2
  r3 = r3
  NoOwner = NoOwner
  Runners = {r1, r2, r3}
  N = 1
  Parallel = 1
  FaultKinds = {"save", "ssh", "host", "drift", "scope", "cancel", "crash", "unlock"}
  MaxFaults = 2
SPECIFICATION Spec
SYMMETRY Exchangeable
INVARIANTS RecordIsEvidence
CHECK_DEADLOCK FALSE
