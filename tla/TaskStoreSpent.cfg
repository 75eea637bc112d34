SPECIFICATION Spec
CONSTANTS
  Task = {t1}
  Run = {r1, r2, r3}
  Worker = {w1}
  Upkeeper = {u1}
  Event = {}
  MaxAttempts = 2
  ClaimQty = 2
  AttemptBound = 3
  PromptWorkers = FALSE
  PromptEvents = FALSE
  PromptCancels = FALSE
  None = None
SYMMETRY Symmetry
CHECK_DEADLOCK FALSE
INVARIANTS
  SpentTaskSettles
