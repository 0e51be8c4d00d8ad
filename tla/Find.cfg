CONSTANTS
  t1 = t1
  t2 = t2
  Targets <- MCTargets
  MaxAborts = 2
  MaxDuplicates = 1
  MaxOther = 1
SPECIFICATION FairSpec
CHECK_DEADLOCK FALSE
INVARIANTS
  TypeOK
  QuietAfterCompletion
  CompletePageHasAnswers
PROPERTIES
  QueryEnds
