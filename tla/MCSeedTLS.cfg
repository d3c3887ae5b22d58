SPECIFICATION FairSpec
CONSTANTS
  MaxIssued = 3
  MaxFaults = 2
  FaultKinds = {"reload", "acme", "drift", "kill", "crash"}
INVARIANTS TypeOK MixedIsJournalled ReportIsTrue
PROPERTIES Reconciles
