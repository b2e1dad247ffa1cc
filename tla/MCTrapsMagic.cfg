CONSTANTS
  Vectors <- MCVectors
  ErrorCoded <- MCErrorCoded
  MaxTraps = 1
  MaxNest = 1
SPECIFICATION Spec
INVARIANT MissingErrorIsMarked
