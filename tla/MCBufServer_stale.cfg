SPECIFICATION Spec
CONSTANTS
  Addr = {"a1"}
  NbThreads = 1
  NbConnections = 2
  NbMessages <- OneEach
  Strategies = {"FillThreads"}
  MaxThreads = 2
  MaxSocketsPerThread = 1
  PipeCapacity = 8
  Signals = FALSE
INVARIANTS
  MessageFromItsConnection
CHECK_DEADLOCK FALSE
