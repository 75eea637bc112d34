SPECIFICATION FairSpec
CONSTANTS
  Concurrency = 2
  ClaimBound = 7
CHECK_DEADLOCK FALSE
INVARIANTS
  EachClaimOnce
  InFlightBound
  ReturnsSettled
PROPERTIES
  KeepsPromise
  ShutdownEnds
  KeepsClaiming
