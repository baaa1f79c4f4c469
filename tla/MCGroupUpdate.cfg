SPECIFICATION Spec
CONSTANTS
  Lists <- SmallLists
  IPs = {"ip"}
  MaxRuns = 2
  MaxEdits = 1
INVARIANTS
  Exclusive
  ListStored
PROPERTIES
  StoredIsKept
  
CHECK_DEADLOCK FALSE
