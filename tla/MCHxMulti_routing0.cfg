SPECIFICATION Spec
CONSTANTS
  Cores = {c0}
  IrqCore = c0
  None = None
  Ops <- ReadOps
  Overlap = FALSE
  Asserts = TRUE
  PioIndex = 0
  IrqIndex = 0
  Gains = {0}
  DefaultGain = 0
  Bits = 3
  Depth = 2
INVARIANT NoFault

