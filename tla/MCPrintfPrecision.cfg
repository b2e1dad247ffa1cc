CONSTANTS
  BufferSize = 6
  FtoaBufferSize = 32
  DoubleBits = 24
  SizeMax = 15
  MemSize = 17
  Bits <- MCBits
  Calls <- MCCalls
  Chars <- MCChars
SPECIFICATION Spec
CHECK_DEADLOCK FALSE
PROPERTY PrecisionLimited
