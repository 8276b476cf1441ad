SPECIFICATION Spec
CONSTANTS
  n1 = n1
  n2 = n2
  w1 = w1
  Nodes = {n1, n2}
  Workers = {w1}
  Ranks = {1, 2}
  Plans <- AllPlans
SYMMETRY Symmetry
CHECK_DEADLOCK FALSE
INVARIANTS  OldestStands 
