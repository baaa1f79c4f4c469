SPECIFICATION Spec
CONSTANTS
  Clients = {c1, c2}
  TestedModes <- AllModes
  MaxBytes = 2
INVARIANTS
  BoxServesRun
  CompleteIsMeasured
PROPERTIES
  MeasurementsKept
  ReleasedIsFinal
  StartedIsDone
  CloseReturns
  ContractKept
CHECK_DEADLOCK FALSE
