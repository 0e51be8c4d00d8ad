CONSTANTS
  LoadKinds <- MCLoadKinds
  Decisions <- MCDecisions
  Texts <- MCTexts
  MaxStatusFiles = 2
  MaxListFiles = 0
  MaxTerminations = 0
  MaxExpiries = 1
  MaxRequestFiles = 1
  MaxAborts = 1
  MaxFaults = 1
SPECIFICATION Spec
CHECK_DEADLOCK FALSE
INVARIANTS
  TypeOK
PROPERTIES
  AgreementImplemented
CONSTRAINTS
  OperatorNotTold
  OneDisturbance
