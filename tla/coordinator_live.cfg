SPECIFICATION FairSpec
CONSTANTS
  Jobs = {j1, j2}
  Latecomer = j2
  Closers = {c1}
  Sessions = {s1}
  Capacity = 1
  Kinds = {"query", "stream"}
  None = None
CONSTRAINT WithQuery
PROPERTIES
  CallsAreAnswered
  JobsEnd
  ClosingCompletes
CHECK_DEADLOCK FALSE
