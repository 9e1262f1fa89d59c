SPECIFICATION Spec
CONSTANTS
  Ops = {o1, o2, o3}
  Leases = {l1}
  None = None
SYMMETRY Symmetry
CONSTRAINT TwoOrTransaction
INVARIANTS
  AnsweredExactlyOnce
  IdleIsClean
  FetchedResultStays
  NoStrayCancellation
  LeaseOwnsTransaction
PROPERTY ImplementsStore
CHECK_DEADLOCK FALSE
