CONSTANTS
  Usize = 1048576
  Sizes = {0, 1, 4096, 4097, 16384, 16385, 20480, 20481, 32768}
SPECIFICATION Spec
INVARIANT MarkingStaysInOrders
CHECK_DEADLOCK FALSE
