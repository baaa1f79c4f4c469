SPECIFICATION Spec
CONSTANTS
  Bound = FALSE
  MaxEvents = 4
INVARIANTS
  ConnectedHasCore
  StoppingIsOwned
CHECK_DEADLOCK FALSE
