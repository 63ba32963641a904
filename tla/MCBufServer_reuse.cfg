SPECIFICATION Spec
CONSTANTS
  Addr = {"a1"}
  NbThreads = 1
  NbConnections = 2
  NbMessages <- FirstSpeaks
  Strategies = {"FillThreads"}
  MaxThreads = 2
  MaxSocketsPerThread = 1
  PipeCapacity = 8
  Signals = FALSE
INVARIANTS
  TypeOK
  EventsAlive
  CallbackProtocol
  ClientsMatchCallbacks
  PipeAccounting
PROPERTIES
  GoneIsReported
  GoneIsDeleted
  MessagesAreDelivered
  DestroyReturns
CHECK_DEADLOCK FALSE
