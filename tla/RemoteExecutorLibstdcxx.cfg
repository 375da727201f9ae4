SPECIFICATION FairSpec
CONSTANTS
  MaxTasks = 2
  MaxOperands = 2
  MaxFailures = 0
  FunctorKept = TRUE
PROPERTIES
  HandlesReleaseServerValues
