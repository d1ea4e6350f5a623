SPECIFICATION FairSpec
CONSTANTS
  Cores = {c1}
  PowerCores = {c1}
  None = None
  Gains = {0, 1}
  DefaultGain = 0
  Depth = 4
  Threshold = 3
  Ops <- AllOps
INVARIANTS
  IInv
PROPERTY ReadsIfClockLow
CHECK_DEADLOCK FALSE
