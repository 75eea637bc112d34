SPECIFICATION FairSpec
CONSTANTS
  Task = {t1}
  Run = {r1, r2, r3}
  Worker = {w1, w2}
  Upkeeper = {u1, u2}
  Event = {}
  MaxAttempts = 2
  ClaimQty = 2
  AttemptBound = 3
  PromptWorkers = FALSE
  PromptEvents = FALSE
  PromptCancels = FALSE
  None = None
CHECK_DEADLOCK FALSE
INVARIANTS
  TypeOK
  RetryBound
PROPERTIES
  AbandonedRunRecovered
