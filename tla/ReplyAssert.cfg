SPECIFICATION Spec
CONSTANTS
  BufSize = 10240
  HeaderLen = 32
  Sizes = {60}
  MaxEntries = 90
INVARIANTS AssertionHolds
CHECK_DEADLOCK FALSE
