SPECIFICATION Spec
CONSTANTS
  Workers = {w1, w2}
  Tasks <- TwoTasks
  Roles <- ThreeRoles
  Servers <- OneServer
  Models <- Configs
  MaxRuns = 2
  None = None
SYMMETRY Symmetry
INVARIANTS
  TypeOK
  RightPlace
  JudgedByTheResult
  AbortsHaveCauses
PROPERTY
  GivingUpIsReported
CHECK_DEADLOCK FALSE
