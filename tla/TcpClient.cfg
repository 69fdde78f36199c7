SPECIFICATION FairSpec
CONSTANTS
  Cap = 2
  MaxConns = 3
  MaxFrames = 5
INVARIANTS
  PendingIsNewest
  NeverOvertakes
  HandshakeFirst
  EveryFrameAccounted
  OneLifeline
PROPERTIES
  StopIsFinal
  EveryFrameLeaves
  ImplementsLink
CHECK_DEADLOCK FALSE
