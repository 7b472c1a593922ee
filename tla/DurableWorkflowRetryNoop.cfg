\* A retry of a failed task enqueues nothing: the failed job is kept.
SPECIFICATION Spec
CONSTANTS
  w1 = w1
  w2 = w2
  t1 = t1
  t2 = t2
  t3 = t3
  s1 = s1
  s2 = s2
  h1 = h1
  h2 = h2
  NoWf = NoWf
  Nobody = Nobody
  Actors <- MCActors
  Sources <- MCSources
  Workflows = {w1}
  NumTasks = 1
  TaskIds = {t1}
  IdOf <- OneTask
  Slots = {s1, s2}
  MaxAttempts = 1
  MaxStalled = 0
  KeepCompleted = 2
  Handlers = {h1}
  Operations = {"create", "start", "retry"}
  Agentless = {}
  Unnamed = {}
  AdHoc = {}
  Processes <- NoProcesses
  MaxRequests = 2
  MaxFaults = 0
CHECK_DEADLOCK FALSE
INVARIANTS RetryRequeues
