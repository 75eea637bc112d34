SPECIFICATION ASpec
CONSTANTS
  Task = {t1}
  Run = {r1, r2, r3}
  Worker = {w1, w2, w3}
  Upkeeper = {u1}
  e1 = e1
  Event = {e1}
  MaxAttempts = 4
  ClaimQty = 1
  AttemptBound = 5
  PromptWorkers = TRUE
  PromptEvents = TRUE
  PromptCancels = TRUE
  v1 = v1
  v2 = v2
  Value = {v1, v2}
  Falsy = {v2}
  Python = {w2, w3}
  Asyncio = {w3}
  LoadFails = FALSE
  Program <- Program4
  Length = 4
  Suffixed <- SuffixedMC
  Slept = Slept
  Empty = Empty
  None = None
SYMMETRY RunSymmetry
CHECK_DEADLOCK FALSE
INVARIANTS
  CacheCurrent
  EveryStepRan
  ShownComplete
PROPERTIES
  CommittedStepNotRepeated
  ResultsStable
  SleptOnce
