SPECIFICATION USpec
CONSTANTS
  Task = {t1, t2}
  Run = {r1, r2, r3, r4}
  w1 = w1
  w2 = w2
  w3 = w3
  Worker = {w1, w2, w3}
  u1 = u1
  Upkeeper = {u1}
  go = go
  EventName = {go}
  A = A
  B = B
  Usecase = {A, B}
  Event <- UsecaseEvents
  c1 = c1
  c2 = c2
  Channel = {c1, c2}
  n1 = n1
  n2 = n2
  Name = {n1, n2}
  k1 = k1
  Key = {k1}
  a1 = a1
  a2 = a2
  a3 = a3
  a4 = a4
  App = {a1, a2, a3, a4}
  Kind <- KindOf
  UsecaseOf <- UsecaseOfApp
  DefaultChannel <- DefaultOf
  AddedChannels <- AddedBy
  Registered <- RegisteredBy
  AppOf <- Config
  Consumes <- ChannelsOf
  Offered <- Homes
  MaxAttempts = 2
  ClaimQty = 2
  AttemptBound = 3
  PromptWorkers = TRUE
  PromptEvents = TRUE
  PromptCancels = TRUE
  None = None
SYMMETRY IdSymmetry
CHECK_DEADLOCK FALSE
INVARIANTS
  OneActiveRun
  ExclusiveExecution
  HeldIsRunning
  WaitingTaskHasRun
  KeyExecutedOnce
PROPERTIES
  UsecasesApart
  ImplementsLifecycle
  OverStaysOver
