SPECIFICATION Spec
CONSTANTS
  Addr = {"a1"}
  NbThreads = 1
  NbConnections = 1
  NbMessages <- TwoMessages
  Strategies = {"FillThreads"}
  MaxThreads = 2
  MaxSocketsPerThread = 1
  PipeCapacity = 1
  Signals = FALSE
PROPERTIES
  UpdateReturns
CHECK_DEADLOCK FALSE
