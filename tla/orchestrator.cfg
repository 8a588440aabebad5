SPECIFICATION Spec
CONSTANTS
  Resources <- TwoResources
  ResourceGraphs <- TwoResourceGraphs
  ConfigTasks <- TwoConfigTasks
  ConfigGraphs <- TwoConfigGraphs
  MaxCalls = 2
INVARIANTS
  TypeOK
  ConfigNeedsInfrastructure
  TrueMeansStoodUp
  ProvisionedOnce
CHECK_DEADLOCK FALSE
