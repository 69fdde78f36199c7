CONSTANTS
  Contents = {"x", "y"}
  AtStart = "x"
  Missing = "missing"
  MaxEdits = 2
  MaxCollections = 3
  Periods = {"short", "long"}
  Default = "short"
  Invalid = "invalid"
  Unreadable = "unreadable"
  MaxSignals = 1
SPECIFICATION FairSpec
INVARIANTS
  BeliefNeedsReason
  IntervalsAccounted
PROPERTIES
  ShutdownExits
CHECK_DEADLOCK FALSE
