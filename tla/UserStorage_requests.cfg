SPECIFICATION Spec
CONSTANTS
  a = a
  b = b
  c = c
  a1 = a1
  a2 = a2
  b1 = b1
  c1 = c1
  Users = {a, b, c}
  Certs = {a1, a2, b1, c1}
  Owner <- MCOwner
  Issuer <- MCIssuer
  ComparisonHangs = TRUE
  EqualIDsNeverDiffer = TRUE
  NoCert = NoCert
  NoAnswer = NoAnswer
CHECK_DEADLOCK FALSE
INVARIANTS
  OneRecordPerUser
  AdminsHaveKeys
PROPERTIES
  ImplementsDirectory
