SPECIFICATION Spec
CONSTANTS
  t1 = t1
  t2 = t2
  Tasks <- TwoTasks
  RacedFirstUse = TRUE
  MaxEpoch = 2
  MaxSeq = 2
INVARIANT UniqueKeys
