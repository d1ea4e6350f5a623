SPECIFICATION Spec
CONSTANTS
  Chips = {h0, h1}
  Seen = h0
  Gains = {0, 1}
  DefaultGain = 0
  Bits = 2
  Depth = 1
  WordMod = 4
  Div = 1
INVARIANTS PioTypeOK PioInv
PROPERTIES ImplementsMultiSm BeginsTogether
