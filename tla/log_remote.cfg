SPECIFICATION Spec
CONSTANTS
  w1 = w1
  w2 = w2
  c1 = c1
  Workers <- TwoWorkers
  Writers <- NoWriters
  MaxSeq = 2
  MaxCrashes = 0
  ServeRanges = FALSE
SYMMETRY Symmetry
INVARIANTS DigestCoversHead Recoverable AppliedIsTracked HeadIsMaximal NoBufferLeak
