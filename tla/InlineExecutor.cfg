SPECIFICATION FairSpec
CONSTANTS
  MaxTasks = 3
  MaxMembers = 1
INVARIANTS
  ResultsDetermined
  MaterializedIsQuiescent
  NobodyWaitsInVain
PROPERTIES
  ImplementsExecutor
