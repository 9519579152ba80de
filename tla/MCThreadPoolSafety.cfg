SPECIFICATION PoolSpec
CONSTANTS
  Tasks = {t1, t2}
  Consumers = {w1, w2, w3}
  Clients = {k1}
  ThreadsCount = 2
  NoTask = NoTask
  NoThread = NoThread
  RequestIds = {1}
  Delays <- MCDelays
  Res = 1
  MaxTime = 1
SYMMETRY Symmetry
CHECK_DEADLOCK FALSE
INVARIANTS
  PoolTypeOK
  NoTaskLost
  StopExecutesAll
PROPERTIES
  ImplementsQueue
  ImplementsService
