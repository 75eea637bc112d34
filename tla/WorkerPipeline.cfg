SPECIFICATION FairSpec
CONSTANTS
  Executor = {x1, x2}
  ClaimCount = 2
  IdleMax = 2
  ClaimBound = 5
  None = None
CHECK_DEADLOCK FALSE
INVARIANTS
  ExecutedOnce
  NothingLost
  ChannelDrained
PROPERTIES
  KeepsPromise
  ShutdownEnds
  QueuedIsExecuted
