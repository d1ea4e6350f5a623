SPECIFICATION FairSpec
CONSTANTS
  Cores = {c0}
  IrqCore = c0
  None = None
  Ops <- TimedOps
  Overlap = FALSE
  Asserts = FALSE
  PioIndex = 0
  IrqIndex = 1
  Gains = {0}
  DefaultGain = 0
  Bits = 2
  Depth = 1
PROPERTY MutexReturned
CHECK_DEADLOCK FALSE
