SPECIFICATION Spec
CONSTANTS
  Service = {"a", "b", "c"}
  NameOf <- Names
  UniqueNames = {{}, {"B"}}
  MaxSId = 2
  MaxFaults <- TwoFaults
INVARIANTS
  TypeOK
  NoStaleIdentity
  TablesAgree
  QuietMeansConnected
PROPERTIES
  UnregistrationEnds
CHECK_DEADLOCK FALSE
