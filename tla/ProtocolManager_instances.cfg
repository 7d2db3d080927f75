SPECIFICATION FairSpec
CONSTANTS
  own = own
  other = other
  IDCount = 2
  ModuleIDs <- MCModules
  OwnModule = own
  Relocks = FALSE
  Throws = TRUE
  MaxInstances = 3
  MaxReads = 1
  MaxChanges = 2
  None = None
CHECK_DEADLOCK FALSE
INVARIANTS
  ReachesLiveQueues
  OwnConnection
  StartsComplete
  StopsDrained
PROPERTIES
  InstancesStart
