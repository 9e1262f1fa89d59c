SPECIFICATION FairSpec
CONSTANTS
  MaxOps = 2
  MaxRows = 3
  Costs = {1, 2}
  Headers = {1}
  RowLimits = {1, 2}
  ByteLimits = {2, 3, 4}
INVARIANTS
  PositionIsAbsolute
  TooLargeIsTooLarge
  RowsHaveTheirResult
PROPERTIES
  ImplementsRowStream
  StreamEnds
CHECK_DEADLOCK FALSE
