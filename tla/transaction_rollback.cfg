SPECIFICATION FairSpec
CONSTANTS
  MaxQueries = 1
  Deadlines = FALSE
PROPERTY RollbackReturns
CHECK_DEADLOCK FALSE
