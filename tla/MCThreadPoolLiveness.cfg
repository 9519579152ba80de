SPECIFICATION FairPoolSpec
CONSTANTS
  Tasks = {t1, t2}
  Consumers = {w1, w2}
  Clients = {k1}
  ThreadsCount = 2
  NoTask = NoTask
  NoThread = NoThread
  RequestIds = {}
  Delays <- MCDelays
  Res = 1
  MaxTime = 1
CHECK_DEADLOCK FALSE
PROPERTIES
  StopTerminates
  AcceptedSettles
