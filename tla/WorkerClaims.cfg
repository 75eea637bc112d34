SPECIFICATION FairSpec
CONSTANTS
  Executor = {x1, x2}
  ClaimCount = 2
  IdleMax = 2
  ClaimBound = 3
  None = None
CHECK_DEADLOCK FALSE
PROPERTIES
  KeepsClaiming
