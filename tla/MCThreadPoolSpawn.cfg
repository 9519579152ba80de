SPECIFICATION PoolSpec
CONSTANTS
  Tasks = {t1}
  Consumers = {w1, w2}
  Clients = {k1}
  ThreadsCount = 1
  NoTask = NoTask
  NoThread = NoThread
  RequestIds = {1}
  Delays <- MCDelays
  Res = 1
  MaxTime = 1
CHECK_DEADLOCK FALSE
INVARIANT
  WorkersRecognised
