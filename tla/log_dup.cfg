SPECIFICATION Spec
CONSTANTS
  w1 = w1
  w2 = w2
  c1 = c1
  Workers <- TwoWorkers
  Writers <- NoWriters
  MaxSeq = 1
  MaxCrashes = 0
  ServeRanges = FALSE
INVARIANT AppliedOnce
