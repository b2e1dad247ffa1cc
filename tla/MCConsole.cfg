CONSTANTS
  Breakpoint = Breakpoint
  NMI = NMI
  Kmain = Kmain
  Vectors <- MCVectors
  MsgLen <- MCMsgLen
  MaxContexts = 4
  MaxNest = 3
  FifoDepth = 3
SPECIFICATION FairSpec
INVARIANTS
  TypeOK
  NoOverrun
  Bracketed
  ExactlyOnceInOrder
PROPERTIES
  Lossless
  PanicIsFinal
  BreakpointReturns
  OutputReachesTheLine
