SPECIFICATION Spec
CONSTANT
  Entry = {a, b, c}
INVARIANTS
  TypeOK
  AcknowledgedIsKept
  FileIsCurrent
PROPERTY
  ImplementsDurableStore
