SPECIFICATION Spec
CONSTANTS
  Task = {t1}
  Run = {r1, r2, r3}
  Worker = {w1, w2}
  Upkeeper = {u1}
  Event = {e1}
  MaxAttempts = 2
  ClaimQty = 2
  AttemptBound = 3
  PromptWorkers = TRUE
  PromptEvents = TRUE
  PromptCancels = TRUE
  None = None
SYMMETRY Symmetry
CHECK_DEADLOCK FALSE
PROPERTIES
  CancelledStaysCancelled
