SPECIFICATION Spec
CONSTANTS
  Largest = 2
  Nestable = TRUE
INVARIANTS
  TypeOK
  FreshIndex
  GivenIsUsed
PROPERTY
  BookIsStored
CHECK_DEADLOCK FALSE
