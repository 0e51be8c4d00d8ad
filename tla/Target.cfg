CONSTANTS
  Decisions <- MCDecisions
  Texts <- MCTexts
  MaxExpiries = 1
  MaxAborts = 1
  MaxRequestFiles = 2
SPECIFICATION FairSpec
CHECK_DEADLOCK FALSE
INVARIANTS
  TypeOK
  StatusReportingGoesOn
  NoFalseSuccess
  DecisionStands
PROPERTIES
  EndReported
CONSTRAINT
  EncoderHasNotThrown
