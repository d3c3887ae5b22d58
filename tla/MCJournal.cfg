CONSTANTS
  r1 = r1
  r2 = r2
  p1 = p1
  NoPlan = NoPlan
  NoOwner = NoOwner
  Runners = {r1, r2}
  Cleaners = {r2}
  PlanOf <- MCPlanOf
  MaxRev = 2
SPECIFICATION FairSpec
INVARIANTS JournalInvariant
PROPERTIES RecordKept ImplementsRecord ClaimGivenBack
CHECK_DEADLOCK FALSE
