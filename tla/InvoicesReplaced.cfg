SPECIFICATION Spec
CONSTANTS
  Contracts = 2
  Secret = {s1, s2}
PROPERTY ExistingIsKept
CHECK_DEADLOCK FALSE
