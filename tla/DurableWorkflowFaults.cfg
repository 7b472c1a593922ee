\* Failed calls, crashes and lost locks around one task that is tried twice.
SPECIFICATION Spec
CONSTANTS
  w1 = w1
  w2 = w2
  t1 = t1
  t2 = t2
  t3 = t3
  s1 = s1
  s2 = s2
  h1 = h1
  h2 = h2
  NoWf = NoWf
  Nobody = Nobody
  Actors <- MCActors
  Sources <- MCSources
  Workflows = {w1}
  NumTasks = 1
  TaskIds = {t1}
  IdOf <- OneTask
  Slots = {s1, s2}
  MaxAttempts = 2
  MaxStalled = 1
  KeepCompleted = 2
  Handlers = {h1}
  Operations = {"create", "start", "retry", "recover"}
  Agentless = {}
  Unnamed = {}
  AdHoc = {}
  Processes <- ApiAndWorker
  MaxRequests = 2
  MaxFaults = 2
SYMMETRY SlotsOnly
CHECK_DEADLOCK FALSE
INVARIANTS SuccessWasEarned RunsBounded JobsAccounted
PROPERTIES ImplementsLifecycle
