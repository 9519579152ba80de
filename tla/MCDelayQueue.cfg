SPECIFICATION Spec
CONSTANTS
  Tasks = {t1, t2}
  Consumers = {c1, c2, c3}
  NoTask = NoTask
  RequestIds = {1}
  Delays <- MCDelays
  Res = 2
  MaxTime = 4
SYMMETRY Symmetry
CHECK_DEADLOCK FALSE
INVARIANTS
  TypeOK
  KeysDistinct
  OneOwner
  CloseReachesAll
  ReturnedMeansDrained
PROPERTIES
  PopsInDueOrder
  IdleOnlyByMisdirection
