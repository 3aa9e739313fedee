SPECIFICATION Spec

CONSTANTS
  Jobs = {j1, j2}
  Pollers = {p1, p2}
  Forcers = {}
  Patchers = {}
  Periods = {1, 2}
  Minute = 2
  Croniter = TRUE
  FallbackMinutes = 5
  RetryLimits = {2}
  BackoffUnit = 1
  MaxBackoff = 3
  Faults = {"error", "rollback"}
  MaxCrashes = 1
  MaxTime = 4
  None = None

SYMMETRY Symmetry

INVARIANTS
  TypeOK
  OwnedSlots
  NextSlotFresh
  CatchUpComplete

PROPERTIES
  LedgerSpec

CHECK_DEADLOCK FALSE
