SPECIFICATION Spec
CONSTANTS
  Workers = {w1}
  Tasks <- TwoTasks
  Roles <- ThreeRoles
  Servers <- OneServer
  Models <- Placings
  MaxRuns = 1
  None = None
INVARIANT
  RunFromSucceeds
CHECK_DEADLOCK FALSE
