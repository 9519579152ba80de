SPECIFICATION FairSpec
CONSTANTS
  Owner = owner
  Workers = {w1, w2}
  MaxId = 6
  MaxStarts = 2
INVARIANTS
  TypeOK
  OneChainPerStart
  QueuedPollIsCancellable
  FewCallbacksAfterStop
  RunningMeansPolling
PROPERTIES
  PollsGoOn
CHECK_DEADLOCK FALSE
