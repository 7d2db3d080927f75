SPECIFICATION ConsoleSpec
CONSTANTS
  Lines <- MCLines
  Applicants <- MCApplicants
  Askers <- MCAskers
  MaxReads = 3
  MaxAsks = 1
\* The owner may destroy the thread, the lines are bounded.
CHECK_DEADLOCK FALSE
INVARIANTS
  EchoesInOrder
  AtMostOneMoreLine
PROPERTIES
  EchoesArrive
  DestructorReturns
