SPECIFICATION Spec
CONSTANTS
  ChipsLen = 3
  Bits = 3
  IntBits = 5
  Depth = 1
INVARIANTS TypeOK ValuesAreConversions SyncdOnlyIfAlike
