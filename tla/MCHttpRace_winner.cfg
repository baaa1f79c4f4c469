SPECIFICATION Spec
CONSTANT Racers = {"tls", "h3"}
INVARIANT WinnerKeptOpen
CHECK_DEADLOCK FALSE
