CONSTANTS
  BufferSize = 6
  FtoaBufferSize = 32
  DoubleBits = 6
  SizeMax = 15
  MemSize = 17
  Bits <- MCBits
  Calls <- MCCalls
  Chars <- MCChars
SPECIFICATION Spec
CHECK_DEADLOCK FALSE
PROPERTY RolloverHandled
