SPECIFICATION Spec
CONSTANTS
  HeaderSize = 1
  DefaultSize = 4
  StackFull = 6
  Modulus = 1024
  BlockSizes = {1, 2, 4}
  ResizeSizes = {0, 3, 7}
  MaxPushed = 6
INVARIANTS
  TypeOK
  LayoutInv
PROPERTIES
  ImplementsFifo
  PushTerminates
CHECK_DEADLOCK FALSE
