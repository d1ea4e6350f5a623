SPECIFICATION Spec
CONSTANTS
  Gains = {0, 1, 2}
  DefaultGain = 0
  Depth = 2
  Bits = 3
  WordMod = 8

PROPERTY ClockPulses
