CONSTANTS
  Kinds = {"critical event", "alert again", "resolved here"}
  Pages = {"Overview", "AlertsPage"}
  Keys = {"dashboard-summary", "alerts"}
  MaxWrites = 2
  MaxLosses = 1
  MaxRenders = 1
  MaxVisits = 2
  MaxSockets = 3
SPECIFICATION FairSpec
INVARIANTS
  StaleNeedsReason
  HeardOnce
PROPERTIES
  Reconnects
CHECK_DEADLOCK FALSE
