SPECIFICATION Spec
CONSTANTS
  Bound = TRUE
  MaxEvents = 6
INVARIANTS
  StoppedIsClean
PROPERTIES
  EndedStartIsStopped
  TransitionsSettle
  RevokeHonoured
  LeaseRefined
CHECK_DEADLOCK FALSE
