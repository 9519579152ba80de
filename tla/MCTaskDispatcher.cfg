SPECIFICATION FairSpec
CONSTANTS
  PoolOrder <- MCPoolOrder
  UnknownPool = "unknown"
  Workers <- MCWorkers
  PoolOf <- MCPoolOf
  Main = "main"
  Clients = {k1}
  Tasks = {t1, t2}
  None = None
  MaxOwnIds = 1
CHECK_DEADLOCK FALSE
INVARIANTS
  TypeOK
  DrainedPoolsStayDrained
  StoppedMayBeDestroyed
  RecognisedOnceStarted
  OnlyOwnIdsCancelled
PROPERTIES
  StopReachesStarted
  ImplementsServices
  StopReturns
