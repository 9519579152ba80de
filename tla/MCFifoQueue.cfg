SPECIFICATION FairSpec
CONSTANTS
  Consumers = {c1, c2, c3}
  MaxPushed = 3
INVARIANTS
  TypeOK
  WakeupNotLost
PROPERTIES
  ImplementsChannel
  CloseEndsConsumers
CHECK_DEADLOCK FALSE
