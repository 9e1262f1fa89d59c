SPECIFICATION FairSpec
CONSTANTS
  Ops = {o1}
  Leases = {l1}
  None = None
PROPERTIES
  ReleasedLeaseEnds
  CancelledIsAnswered
  OrphanIsDropped
  RetiredWorkerExits
CHECK_DEADLOCK FALSE
