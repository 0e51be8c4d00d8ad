CONSTANTS
  StatusCodes <- MCStatusCodes
  MaxStatusFiles = 2
  MaxListFiles = 2
  MaxTerminations = 0
SPECIFICATION Spec
CHECK_DEADLOCK FALSE
INVARIANTS
  FinishedOnce
