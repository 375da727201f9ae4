SPECIFICATION FairSpec
CONSTANTS
  MaxCalls = 3
  Waiters = {w1}
  Dtor = dtor
INVARIANTS
  WaitOkMeansDone
  DestroyedQuiescent
  BookkeepingExact
PROPERTIES
  FailedOnlyWhileScheduling
  WaitTerminates
