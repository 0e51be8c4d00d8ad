CONSTANTS
  Decisions <- MCDecisions
  Texts = {"Fits"}
  MaxExpiries = 1
  MaxAborts = 1
  MaxRequestFiles = 1
SPECIFICATION FairSpec
CHECK_DEADLOCK FALSE
PROPERTIES
  FinishedCompletes
