CONSTANTS
  Vectors <- MCVectors
  ErrorCoded <- MCErrorCoded
  MaxTraps = 3
  MaxNest = 2
SPECIFICATION FairSpec
INVARIANTS
  TypeOK
  FrameIsTrue
  PointerIsFrame
  CallAligned
PROPERTIES
  IretqResumes
  BreakpointResumes
