CONSTANTS
  Breakpoint = Breakpoint
  PageFault = PageFault
  NMI = NMI
  Vectors <- MCVectors
  MaxContexts = 4
  MaxNest = 3
  Radix = 2
  Times <- MCTimes
SPECIFICATION Spec
INVARIANTS
  TypeOK
  ReadsWhatItSelected
  StampIsTheTime
  OwnFaultAddress
CHECK_DEADLOCK FALSE
