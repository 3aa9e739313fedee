SPECIFICATION Spec

CONSTANTS
  Jobs = {j1}
  Pollers = {p1, p2}
  Forcers = {}
  Patchers = {}
  Periods = {2}
  Minute = 1
  Croniter = TRUE
  FallbackMinutes = 5
  RetryLimits = {2}
  BackoffUnit = 1
  MaxBackoff = 3
  Faults = {}
  MaxCrashes = 0
  MaxTime = 4
  None = None

INVARIANTS
  OneRunnerPerJob

CHECK_DEADLOCK FALSE
