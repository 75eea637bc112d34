SPECIFICATION TxFairSpec
CONSTANTS
  Task = {t1}
  Run = {r1, r2}
  Worker = {w1, w2}
  Upkeeper = {u1}
  Event = {e1, e2}
  Emitter = {m1}
  MaxAttempts = 1
  ClaimQty = 1
  AttemptBound = 3
  PromptWorkers = FALSE
  PromptEvents = FALSE
  PromptCancels = TRUE
  CleanupRaces = FALSE
  None = None
CHECK_DEADLOCK FALSE
INVARIANTS
  NoMissedEvent
  RetryBound
PROPERTIES
  TransactionsEnd
