SPECIFICATION FairSpec
CONSTANTS
  Concurrency = 2
  IdleMax = 2
  ClaimBound = 3
CHECK_DEADLOCK FALSE
INVARIANTS
  AppliedOnce
  NothingLost
PROPERTIES
  ReadyIsTaken
  ShutdownReturns
