SPECIFICATION Spec
CONSTANTS
  Service = {"a", "b", "c"}
  NameOf <- Names
  UniqueNames = {{"B"}}
  MaxSId = 2
  MaxFaults <- OneDeath
INVARIANTS
  EachClientIsGreeted
CHECK_DEADLOCK FALSE
