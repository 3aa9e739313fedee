SPECIFICATION FairSpec

CONSTANTS
  Jobs = {j1}
  Pollers = {p1}
  Forcers = {f1}
  Patchers = {u1}
  Periods = {1, 2}
  Minute = 1
  Croniter = FALSE
  FallbackMinutes = 1
  RetryLimits = {1, 2}
  BackoffUnit = 1
  MaxBackoff = 1
  Faults = {"error"}
  MaxCrashes = 0
  MaxTime = 2
  None = None

INVARIANTS
  RetryBudget
  RunningIsOwned

PROPERTIES
  ConfigOnlyPatched
  DueSlotRuns

CHECK_DEADLOCK FALSE
