SPECIFICATION CallsSpec
CONSTANTS
  Bytes = {"a", "b"}
  End = "0"
  Writes <- MCWrites
  Reads <- MCReads
  MaxWrites = 2
  MaxReads = 3
\* The calls are bounded.
CHECK_DEADLOCK FALSE
INVARIANTS
  BytesArrive
PROPERTIES
  StringsReturn
