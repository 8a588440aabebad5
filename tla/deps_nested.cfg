SPECIFICATION Spec
CONSTANTS
  Models <- NestedModels
  Expressions <- ModelExpressions
  Depth <- Nesting
  MaxCalls = 1
INVARIANTS
  NothingLeftOut
CHECK_DEADLOCK FALSE
