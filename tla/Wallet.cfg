SPECIFICATION Spec
CONSTANTS
  Largest = 2
  Nestable = FALSE
  Funds <- MCFunds
  MaxTx = 2
  MaxUsed = 2
  MaxFaults = 1
INVARIANTS
  TypeOK
  NoCoinIsSpentTwice
PROPERTIES
  ClientsCoinsAreFound
  ImplementsAddressBook
  SyncsAsPromised
CHECK_DEADLOCK FALSE
