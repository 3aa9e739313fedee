SPECIFICATION Spec
CONSTANTS
  N = 1
  KeyOf <- OneMessage
  Engines = {e1, e2}
  Backoffs <- TwoAttempts
  Faults = {}
  MaxSent = 2
  None = None
INVARIANTS
  SentOnce
CHECK_DEADLOCK FALSE
