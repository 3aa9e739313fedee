SPECIFICATION Spec
CONSTANTS
  Leads = {l1}
  Clients = {c1}
  Runners = {}
  Definition <- TwoNotes
  Created = {}
  Runnable = {}
  Publishable = {"CONTACTED", "LOST"}
  MayFail = {}
  PoolSize = 15
  MaxCrashes = 0
  None = None
PROPERTIES
  EveryMatchingRuleRuns
CHECK_DEADLOCK FALSE
