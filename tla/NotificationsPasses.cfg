SPECIFICATION Spec
CONSTANTS
  N = 3
  KeyOf <- TwoOfThree
  Engines = {e1, e2}
  Backoffs <- TwoAttempts
  Faults = {"error", "lost", "missing", "refuse", "crash"}
  MaxSent = 1
  None = None
SYMMETRY Symmetry
INVARIANTS
  TypeOK
  OneMessagePerKey
  TimelinesOrdered
  StatusMatchesTimeline
PROPERTIES
  BookSpec
