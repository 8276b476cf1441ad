SPECIFICATION FairSpec
CONSTANTS
  t1 = t1
  t2 = t2
  Tasks <- TwoTasks
  RacedFirstUse = FALSE
  MaxEpoch = 3
  MaxSeq = 2
INVARIANTS UniqueKeys GaplessWithinEpoch
PROPERTIES EpochsAdvance CallsEnd
