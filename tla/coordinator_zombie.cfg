SPECIFICATION Spec
CONSTANTS
  Jobs = {j1, j2}
  Latecomer = None
  Closers = {}
  Sessions = {s1}
  Capacity = 1
  Kinds = {"query"}
  None = None
INVARIANT HealthySlotAccepts
CHECK_DEADLOCK FALSE
