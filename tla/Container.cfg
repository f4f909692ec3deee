SPECIFICATION FairSpec
CONSTANTS
  MAX_PROCESS = 3
  SleepSuffices = FALSE
  NULL = NULL
INVARIANT TypeOK
INVARIANT FirstHasAddress
INVARIANT CleanExit
INVARIANT RootIsOwn
PROPERTY NotUnderfoot
PROPERTY InterruptEnds
