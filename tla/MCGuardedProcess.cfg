SPECIFICATION Spec
CONSTANTS
  Guards = {g1, g2}
  MaxRestarts = 2
PROPERTIES
  CloseKills
  ExitIsHandled
CHECK_DEADLOCK FALSE
