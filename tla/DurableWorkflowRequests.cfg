\* Two handlers overlap all operations of the engine on one task; one slot works.
SPECIFICATION Spec
CONSTANTS
  w1 = w1
  w2 = w2
  t1 = t1
  t2 = t2
  t3 = t3
  s1 = s1
  s2 = s2
  h1 = h1
  h2 = h2
  NoWf = NoWf
  Nobody = Nobody
  Actors <- MCActors
  Sources <- MCSources
  Workflows = {w1}
  NumTasks = 1
  TaskIds = {t1}
  IdOf <- OneTask
  Slots = {s1}
  MaxAttempts = 1
  MaxStalled = 0
  KeepCompleted = 2
  Handlers = {h1, h2}
  Operations = {"create", "start", "retry", "cancel", "finalize", "recover"}
  Agentless = {}
  Unnamed = {}
  AdHoc = {}
  Processes <- NoProcesses
  MaxRequests = 4
  MaxFaults = 0
SYMMETRY HandlersOnly
CHECK_DEADLOCK FALSE
INVARIANTS NoTaskLeftBehind
