SPECIFICATION Spec
CONSTANTS
  Dbs = {d1, d2}
  Paths = {p1}
  Memory = Memory
  Limit = 2
  Cursors = 0
  None = None
PROPERTY RestartWaits
CHECK_DEADLOCK FALSE
