SPECIFICATION Spec
CONSTANTS
  Half = 4
  MaxDepth = 3
  Inputs <- AllInputs
  Budgets <- AllBudgets
INVARIANTS
  NumbersSurvive
  FreedExactlyOnce
  LimitIsRight
  PathNamesFailure
CHECK_DEADLOCK FALSE
