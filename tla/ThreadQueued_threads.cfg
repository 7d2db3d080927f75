SPECIFICATION FairSpec
CONSTANTS
  m1 = m1
  m2 = m2
  m3 = m3
  p1 = p1
  p2 = p2
  Msgs = {m1, m2, m3}
  Urgent = {m3}
  Producers = {p1, p2}
  MaxStarts = 2
  Throws = TRUE
  None = None
INVARIANTS
  AtMostOneLatePop
PROPERTIES
  IsMailbox
  EventuallyHandled
  DestructorReturns
