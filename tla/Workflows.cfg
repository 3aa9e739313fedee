SPECIFICATION FairSpec
CONSTANTS
  Leads = {l1}
  Clients = {c1}
  Runners = {m1}
  Definition <- FourRules
  Created = {1}
  Runnable = {3, 4}
  Publishable = {"CONTACTED", "LOST"}
  MayFail = {"raise", "broken", "crash"}
  PoolSize = 3
  MaxCrashes = 1
  None = None
INVARIANTS
  TypeOK
  AuditTrail
  OneClaimPerEvent
PROPERTIES
  LogSpec
  LeadTransitionsValidAtFirst
  PublishReturns
CHECK_DEADLOCK FALSE
