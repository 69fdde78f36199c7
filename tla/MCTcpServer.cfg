SPECIFICATION MCSpec
CONSTANTS
  a1 = a1
  a2 = a2
  s1 = s1
  s2 = s2
  s3 = s3
  NoAgent = NoAgent
  Agents = {a1, a2}
  Sockets = {s1, s2, s3}
  Owner <- MCOwner
  MaxFrames = 3
  MaxChunk = 2
  MaxRestarts = 1
INVARIANTS
  AnnouncedIsSaved
  NeverUnknown
  FailsOnlyBehindHandshake
  GoneIsOffline
  HeardIsOnline
PROPERTIES
  EveryFrameAcked
CHECK_DEADLOCK FALSE
