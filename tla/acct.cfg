SPECIFICATION LiveSpec
CONSTANTS
  n1 = n1
  n2 = n2
  a1 = a1
  a2 = a2
  none = none
  NoAccount = none
  FirstAccount = a1
  Nodes = {n1, n2}
  Accounts = {a1, a2}
  Plans <- BothPlans
  Seed = 3
  Overdraft = 0
  Multiplier = 2
  HoldDuration = 11
CHECK_DEADLOCK FALSE
INVARIANTS Solvent CapturedOnce ImplicitHoldFits  TransferConserves
PROPERTY RequestsEnd
