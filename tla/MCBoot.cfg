CONSTANTS
  MaxEntries = 2
  U32 = 65536
  Stub <- MCStub
  Processors <- MCProcessors
SPECIFICATION FairSpec
INVARIANTS
  TypeOK
  SegmentsValidWhenInterruptible
  ReportedWidthIsUsed
PROPERTIES
  SpeaksOnlyWhenProgrammed
  TableFinishedBeforeLoad
  ServedBootCompletes
