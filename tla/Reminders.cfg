SPECIFICATION FairSpec
CONSTANTS
  Generators = {g1, g2}
  Sweeps = {p1}
  Targets <- TwoLeads
  Copies = 2
  MaxCrashes = 1
INVARIANTS
  TypeOK
  OnePendingPerTarget
  Uncommitted
PROPERTIES
  BookSpec
  DueIsReminded
  PendingIsPublished
