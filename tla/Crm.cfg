SPECIFICATION Spec
CONSTANTS
  Lead = {l1, l2, l3}
  Task = {t1}
  Tag = {g1}
  Contact = {c1, c2}
  TagName = {n1}
  Request = {r1, r2}
  None = None
  MaxCalls = 7
SYMMETRY Identities
INVARIANTS TypeOK NumbersSequential TimelineTellsTask TagTimeline
PROPERTY BookSpec
CHECK_DEADLOCK FALSE
