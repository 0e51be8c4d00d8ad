CONSTANTS
  t1 = t1
  t2 = t2
  Targets <- MCTargets
  MaxAborts = 1
  MaxDuplicates = 0
  MaxOther = 0
SPECIFICATION Spec
CHECK_DEADLOCK FALSE
INVARIANTS
  IoThreadLives
