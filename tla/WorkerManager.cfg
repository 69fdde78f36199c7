SPECIFICATION FairSpec
CONSTANTS
  MaxCalls = 2
  MaxSecurity = 2
  MaxFailures = 1
INVARIANTS
  SemaphoreBalanced
  SentIsWholeAndFresh
  OverlapNeedsTimeout
PROPERTIES
  EveryCallEnds
CHECK_DEADLOCK FALSE
