SPECIFICATION Spec
CONSTANTS
  Contracts = 2
  Secret = {s1, s2}
INVARIANTS
  TypeOK
  AcknowledgedIsListed
  PaidIsRevealed
CHECK_DEADLOCK FALSE
