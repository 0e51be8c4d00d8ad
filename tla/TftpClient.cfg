SPECIFICATION FairSpec
CONSTANTS
  DlpRetries <- MCDlpRetries
  CounterModulus <- MCCounterModulus
  MaxWaits <- MCMaxWaits
  HandleAbort = TRUE
INVARIANTS
  TypeOK
  SingleActivity
  RetryBudget
PROPERTIES
  AbortedTransferNotReissued
  TransferImplemented
\* A completed or destroyed operation does nothing more.
CHECK_DEADLOCK FALSE
