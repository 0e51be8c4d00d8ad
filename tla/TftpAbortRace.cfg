SPECIFICATION Spec
CONSTANTS
  DlpRetries <- MCDlpRetries
  CounterModulus <- MCCounterModulus
  MaxWaits <- MCMaxWaits
  HandleAbort = TRUE
PROPERTY NoAttemptAfterAbort
\* A completed or destroyed operation does nothing more.
CHECK_DEADLOCK FALSE
