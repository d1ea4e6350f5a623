SPECIFICATION Spec
CONSTANTS
  Chips = {h0, h1}
  Seen = h0
  Gains = {0, 1, 2}
  DefaultGain = 0
  Bits = 3
  Depth = 2
  WordMod = 8
  Div = 1
PROPERTY ClockPulses
