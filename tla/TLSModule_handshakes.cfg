SPECIFICATION FairSpec
CONSTANTS
  MaxAttempts = 2
  StopAtStart = FALSE
  StateAtStart = "PERFORM"
  MaxRecords = 2
  MaxInputs = 1
  MaxRestarts = 1
CHECK_DEADLOCK FALSE
INVARIANTS
  StreamsIntact
  WrittenIsAnnounced
  HandshakesCounted
PROPERTIES
  DestructorReturns
