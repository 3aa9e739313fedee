SPECIFICATION FairSpec
CONSTANTS
  N = 1
  KeyOf <- OneMessage
  Engines = {e1}
  Backoffs <- ShortBackoffs
  Faults = {"error", "missing"}
  MaxSent = 1
  None = None
PROPERTIES
  EventuallySettled
