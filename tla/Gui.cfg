CONSTANTS
  f1 = f1
  Files <- MCFiles
  MaxStatuses = 2
  MaxLists = 2
  MaxRequests = 2
  MaxReports = 1
  MaxBacks = 1
SPECIFICATION FairSpec
CHECK_DEADLOCK FALSE
INVARIANTS
  TypeOK
  AbortUntilFinished
  ListFollowsAcceptance
  RecordsAreClosed
PROPERTIES
  AnswerNamesFiles
  WizardEnds
