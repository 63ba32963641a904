SPECIFICATION Spec
CONSTANTS
  Addr = {"a1", "a2"}
  NbThreads = 2
  NbConnections = 2
  NbMessages <- Silence
  Strategies = {"FillThreads", "SpreadSockets"}
  MaxThreads = 1
  MaxSocketsPerThread = 1
  PipeCapacity = 8
  Signals = TRUE
INVARIANTS
  NoDangling
  PoolLimits
CHECK_DEADLOCK FALSE
