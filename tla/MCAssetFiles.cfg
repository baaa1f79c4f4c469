SPECIFICATION Spec
CONSTANTS
  Procs = {"app", "bg"}
  Main = "app"
  Updates = {"u1", "u2"}
  MaxFaults = 2
INVARIANTS
  VersionVouches
PROPERTIES
  StartedWhole
  UpdateAtomic
CHECK_DEADLOCK FALSE
