CONSTANTS
  MaxEntries = 1
  U32 = 65536
  Stub <- MCStub
  Processors <- MCProcessors
SPECIFICATION Spec
INVARIANT IdtrDesignatesTable
