CONSTANTS
  Workers = {w1, w2, w3}
  MaxPhaseBytes = 1
SPECIFICATION PhaseSpec
INVARIANTS ReturnsAfterWorkers CountIsFinal FailureIsReported EndingIsNoError
PROPERTY PhaseEnds
CHECK_DEADLOCK FALSE
