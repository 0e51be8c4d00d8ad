CONSTANTS
  StatusCodes <- MCStatusCodes
  MaxStatusFiles = 2
  MaxListFiles = 2
  MaxTerminations = 1
SPECIFICATION FairSpec
CHECK_DEADLOCK FALSE
INVARIANTS
  TypeOK
  WatchdogCoversOperation
  NoFalseSuccess
  AbortAccounted
PROPERTIES
  FinalStatusDecides
  FinishedTakesNoRequests
  OperationEnds
CONSTRAINT
  ReportedAtMostTwice
