SPECIFICATION FairSpec
CONSTANTS
  Cores = {c1, c2}
  PowerCores = {c1}
  None = None
  Gains = {0, 1}
  DefaultGain = 0
  Depth = 4
  Threshold = 3
  Ops <- SteadyOps
INVARIANTS
  TypeOK
  GainOrder
PROPERTIES
  SetGainPrompt
  MutexReleased
