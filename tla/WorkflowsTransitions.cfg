SPECIFICATION Spec
CONSTANTS
  Leads = {l1}
  Clients = {c1, c2}
  Runners = {}
  Definition <- TwoStepRules
  Created = {}
  Runnable = {}
  Publishable = {"CONTACTED", "LOST"}
  MayFail = {}
  PoolSize = 15
  MaxCrashes = 0
  None = None
PROPERTIES
  LeadTransitionsValid
CHECK_DEADLOCK FALSE
