SPECIFICATION MCSpec
CONSTANTS
  a1 = a1
  a2 = a2
  ip = ip
  Agents = {a1, a2}
  Addresses = {ip}
  NoAddress = none
  Lines <- MCLines
  Metrics <- MCMetrics
  Threshold = 2
  Window = 2
  MaxTime = 2
  MaxMessages = 4
  MaxQueued = 1
  Types = {1, 3}
  Payloads <- MCPayloads
  MaxFrames = 3
  MaxBreaks = 1
INVARIANTS
  BruteForceExact
  AnomalyOfLastValues
  CrossServerExact
  DecodedIsWhole
SYMMETRY MCSymmetry
CHECK_DEADLOCK FALSE
