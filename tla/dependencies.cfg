SPECIFICATION Spec
CONSTANTS
  Models <- FlatModels
  Expressions <- ModelExpressions
  Depth <- Nesting
  MaxCalls = 1
INVARIANTS
  NothingLeftOut
  OrderKept
  NothingElseOrdered
  CycleCheck
CHECK_DEADLOCK FALSE
