SPECIFICATION FairSpec
CONSTANTS
  Cores = {c0, c1}
  IrqCore = c0
  None = None
  Ops <- ReadOps
  Overlap = TRUE
  Asserts = TRUE
  PioIndex = 0
  IrqIndex = 1
  Gains = {0}
  DefaultGain = 0
  Bits = 3
  Depth = 2
PROPERTY ReadCompletes
CHECK_DEADLOCK FALSE
