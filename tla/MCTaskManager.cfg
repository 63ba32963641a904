SPECIFICATION Spec
CONSTANTS
  User = {"main", "other"}
  Owner = "main"
  Canceller = {"main"}
  Dumper = {"main"}
  Name = {"mesh", "texture"}
  Priority <- Urgencies
  NbJobs = 3
INVARIANTS
  TypeOK
  ReleasedIsIdle
  RunsOnceOrIsDeleted
  SignalMeansLoaded
PROPERTIES
  WaitsEnd
  JobsAreRun
CHECK_DEADLOCK FALSE
