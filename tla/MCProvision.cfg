CONSTANTS
  N = 3
  MaxAlloc = 2
SPECIFICATION ProvisionSpec
INVARIANTS ProvisionTypeOK LaunchesKnown AddressesKept ReadyIsReal
PROPERTIES ReleaseIsFinal
CHECK_DEADLOCK FALSE
