SPECIFICATION Spec
CONSTANTS
  often = often
  cron = cron
  broken = broken
  Entry = {often, cron, broken}
  Cron = {cron, broken}
  Invalid = {broken}
  Every <- EveryMC
  Delta <- DeltaMC
  Cycle = 3
  AgeBound = 10
  LagBound = 2
  None = None
CHECK_DEADLOCK FALSE
INVARIANTS
  StoredWasSpawned
  SpawnedInTime
PROPERTIES
  NoIntervalTwice
