SPECIFICATION TxSpec
CONSTANTS
  Task = {t1, t2}
  Run = {r1, r2, r3}
  Worker = {w1, w2}
  Upkeeper = {u1}
  Event = {e1}
  Emitter = {m1}
  MaxAttempts = 2
  ClaimQty = 1
  AttemptBound = 2
  PromptWorkers = TRUE
  PromptEvents = TRUE
  PromptCancels = TRUE
  CleanupRaces = FALSE
  None = None
SYMMETRY Symmetry
CHECK_DEADLOCK FALSE
PROPERTIES
  AtomicEvents
