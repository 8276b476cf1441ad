SPECIFICATION FairSpec
CONSTANTS
  w1 = w1
  w2 = w2
  c1 = c1
  Workers <- OneWorker
  Writers <- OneWriter
  MaxSeq = 2
  MaxCrashes = 1
  ServeRanges = TRUE
CHECK_DEADLOCK FALSE
INVARIANTS  RangeComplete
PROPERTIES HeadAdvances DrainsToDatabase
