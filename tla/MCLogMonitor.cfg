SPECIFICATION LogSpec
CONSTANTS
  c1 = c1
  c2 = c2
  c3 = c3
  Collections = {c1, c2, c3}
  MaxLines = 3
  Matching = {1, 3}
  MaxRotations = 1
  MaxRestarts = 1
  HasJournal = TRUE
INVARIANTS
  RepeatNeedsReason
  LossNeedsReason
SYMMETRY CollectionSymmetry
CHECK_DEADLOCK FALSE
