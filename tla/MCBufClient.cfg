SPECIFICATION Spec
CONSTANTS
  NbConnections = 3
  Loads <- AnyLoad
  MaxPacket = 4
  BigBuffer = 3
INVARIANTS
  TypeOK
  UserView
  PipeSuffices
  DisconnectIsSilent
  StreamIsWhole
PROPERTIES
  GoneIsReported
  DestroyReturns
CHECK_DEADLOCK FALSE
