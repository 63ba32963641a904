SPECIFICATION Spec
CONSTANTS
  NbConnections = 2
  Loads <- OneReceived
  MaxPacket = 4
  BigBuffer = 3
INVARIANTS
  MessageIsWhole
CHECK_DEADLOCK FALSE
