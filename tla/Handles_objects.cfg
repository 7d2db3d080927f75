SPECIFICATION Spec
CONSTANTS
  o1 = o1
  o2 = o2
  o3 = o3
  Objects <- MCObjects
  Numbers <- MCNumbers
  Zero = 0
  Contents <- MCContents
  Blank = "blank"
  Raw = Raw
  Null = Null
  Kinds <- MCKinds
SYMMETRY MCSymmetry
\* Handles that were lost or given away are not opened again: once all are,
\* no object can be made any more.
CHECK_DEADLOCK FALSE
INVARIANTS
  OneOwner
  NothingLost
PROPERTIES
  OthersUntouched
  CopiesAgree
