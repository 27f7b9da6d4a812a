SPECIFICATION FairSpec
CONSTANTS
  ra = ra
  oa = oa
  s1 = s1
  s2 = s2
  s3 = s3
  Agents = {ra, oa}
  Reserve <- Floors
  Cap = 2
  SoftAt = 1
  HardAt = 2
  Costs = {0, 2}
  MaxWindow = 1
  MaxCalls = 2
  None = None
  Schedules = {s1, s2, s3}
  Entry <- Entries
  Scripts <- All
INVARIANTS
  AlertOrder
  CapHolds
PROPERTIES
  FloorNotDenied
  SkippedFires
