SPECIFICATION FairSpec
CONSTANTS
  Dbs = {d1, d2}
  Paths = {p1}
  Memory = Memory
  Limit = 2
  Cursors = 1
  None = None
INVARIANTS
  PathExclusive
  RefsExact
  QueuedOnce
  ClosedIsReleased
PROPERTY RetirementEnds
CHECK_DEADLOCK FALSE
