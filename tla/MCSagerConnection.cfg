SPECIFICATION Spec
CONSTANTS
  MaxChanges = 2
  MaxDeaths = 2
  MaxCalls = 4
INVARIANTS
  ChecksHold
  ShownWhenQuiet
PROPERTIES
  SelfHeals
CHECK_DEADLOCK FALSE
