CONSTANTS
  Contents <- MCContents
  DamageBytes <- MCDamageBytes
  MaxFiles = 2
  MaxDamages = 1
SPECIFICATION Spec
CHECK_DEADLOCK FALSE
INVARIANTS
  AcceptedIsPreserved
  ReadAsWritten
  AcceptedIsWellFormed
  LengthsAreGuarded
