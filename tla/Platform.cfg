SPECIFICATION Spec
CONSTANTS
  Job = {j1, j2}
  Session = {s1, s2}
  Subscription = {u1, u2}
  None = None
  RejectDepth = 2
  MaxRetries = 1
  MaxRuns = 2
  MaxItems = 1
  Client = {c1, c2}
  Action = {a1}
  CacheTTL = 2
  MaxDelay = 1
  MaxClock = 3
  MaxPolicies = 3
  Agent = {n1, n2, n3}
  MaxDeps = 2
  Absent = Absent
SYMMETRY Symmetry
INVARIANTS
  JobsTypeOK
  SequenceFollowsCommits
  OutboxTellsRuns
  GovernanceTypeOK
  DecisionsFresh
  PlansInstall
PROPERTY
  LedgerSpec
CHECK_DEADLOCK FALSE
