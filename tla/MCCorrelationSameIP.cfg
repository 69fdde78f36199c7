CONSTANTS
  a1 = a1  a2 = a2  ip = ip
  Agents = {a1, a2}
  Addresses = {ip}
  NoAddress = none
  Lines <- MCLines
  Metrics <- MCMetrics
  Threshold = 2
  Window = 2
  MaxTime = 2
  MaxMessages = 4
  MaxQueued = 1
SPECIFICATION CorrelationSpec
INVARIANT
  FailuresFromSameIP
CHECK_DEADLOCK FALSE
