CONSTANTS
  Width = 12
  Height = 11
  Pitch = 13
  Calls <- MCCalls
SPECIFICATION Spec
CHECK_DEADLOCK FALSE
INVARIANTS
  TypeOK
  NoGaps
  Round
