SPECIFICATION Spec
CONSTANT Racers = {"tls", "h3"}
INVARIANTS
  AttemptsReleased
PROPERTY ExecuteReturns
CHECK_DEADLOCK FALSE
