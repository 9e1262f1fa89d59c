SPECIFICATION Spec
CONSTANTS
  Jobs = {j1, j2, j3, j4}
  Latecomer = j4
  Closers = {c1}
  Sessions = {s1}
  Capacity = 2
  Kinds = {"query", "stream"}
  None = None
SYMMETRY Symmetry
CONSTRAINT TwoOrQueueing
INVARIANTS
  OneRunnerPerSession
  JobsArePlaced
  ReplyOwed
  ClosedIsDrained
PROPERTY StartInOrder
CHECK_DEADLOCK FALSE
