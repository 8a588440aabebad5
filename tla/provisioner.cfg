SPECIFICATION FairSpec
CONSTANTS
  Resources <- FourResources
  InfraModels <- Models
  MaxRuns = 2
  None = None
  Nobody = Nobody
INVARIANTS
  TypeOK
  IdsAreThere
  FloatingIpsAssociated
  RecordIsComplete
  SecGroupsOneAtATime
PROPERTIES
  TasksEnd
CHECK_DEADLOCK FALSE
