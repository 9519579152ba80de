SPECIFICATION FairSpec
CONSTANTS
  Requests = {r1, r2}
  MaxThreads = 2
INVARIANTS
  TypeOK
  FutureHasOneOwner
  CancelWaitsForNoQueuedTask
PROPERTIES
  NeverStartedAgain
  AllComesToAnEnd
CHECK_DEADLOCK FALSE
