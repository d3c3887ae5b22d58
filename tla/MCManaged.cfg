SPECIFICATION FairSpec
CONSTANTS
  Targets <- MCTargets
  Operated <- MCOperated
  Power <- MCPower
  Components <- MCComponents
  Strays <- MCStrays
  Menu <- MCMenu
  IdleExtensions = 1
  MaxImports = 2
  MaxEvents = 3
  FaultKinds = {"lost", "save", "crash", "kill", "stop", "drift", "fail", "ban"}
INVARIANTS TypeOK Resumable QuorumGate CompleteIsReal
PROPERTIES ForeignKept RerunCompletes
