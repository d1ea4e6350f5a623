SPECIFICATION Spec
CONSTANTS
  Cores = {c0, c1}
  IrqCore = c0
  None = None
  Ops <- UntimedOps
  Overlap = FALSE
  Asserts = TRUE
  PioIndex = 0
  IrqIndex = 1
  Gains = {0, 1}
  DefaultGain = 0
  Bits = 2
  Depth = 1
INVARIANTS TypeOK NoFault FreeIsQuiet ReadInv CleanReadIsWhole GainApplied GainInv
