SPECIFICATION FairSpec
CONSTANTS
  MaxQueries = 2
  Deadlines = TRUE
INVARIANTS
  ReplyIsTrue
  IgnoredErrorNeverCommits
PROPERTIES
  CallerIsAnswered
  LeaseEnds
CHECK_DEADLOCK FALSE
