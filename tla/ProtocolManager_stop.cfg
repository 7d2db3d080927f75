SPECIFICATION FairSpec
CONSTANTS
  own = own
  other = other
  IDCount = 2
  ModuleIDs <- MCModules
  OwnModule = own
  Relocks = TRUE
  Throws = FALSE
  MaxInstances = 1
  MaxReads = 1
  MaxChanges = 0
  None = None
CHECK_DEADLOCK FALSE
PROPERTIES
  StopReturns
