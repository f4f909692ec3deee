SPECIFICATION FairSpec
CONSTANTS
  MAX_PROCESS = 2
  SleepSuffices = TRUE
  NULL = NULL
INVARIANT AddressAssigned
