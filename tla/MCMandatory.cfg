CONSTANTS
  Size = 5
  Bytes <- MCBytes
  Ints <- MCInts
SPECIFICATION FairSpec
INVARIANTS
  TypeOK
  MovesOldBytes
  SetsBytes
  ComparesFirstDifference
PROPERTIES
  Returns
CHECK_DEADLOCK FALSE
