SPECIFICATION FairSpec
CONSTANTS
  MaxTasks = 3
  MaxOperands = 2
  MaxFailures = 1
  FunctorKept = FALSE
INVARIANTS
  RequestsNameLiveValues
  DisposedOnce
  ServerValuesAccounted
  NobodyWaitsInVain
PROPERTIES
  HandlesReleaseServerValues
  ImplementsExecutor
