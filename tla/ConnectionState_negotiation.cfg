SPECIFICATION FairNegotiationSpec
CONSTANTS
  Disturbances <- RestartsOrEnd
CHECK_DEADLOCK FALSE
INVARIANTS
  AgreeAtRest
  NothingImpossible
PROPERTIES
  NegotiationCompletes
  EndReached
