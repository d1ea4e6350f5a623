SPECIFICATION FairSpec
CONSTANTS
  a = a
  b = b
  c = c
  Instances <- Three
  NoOne = NoOne
  Pio <- PioOf
  PioIndex <- PioIndexOf
  DmaIndex <- DmaIndexOf
  ReadCount = 2
  Used <- OnePio
  InitWhileReading = FALSE
INVARIANTS TypeOK NoFault KeepsItsOwn ClosedIsGone InstancesInv
 
