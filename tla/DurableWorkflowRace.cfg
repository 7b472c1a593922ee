\* Two slots report on the two tasks of one workflow while a request races them and a call fails.
SPECIFICATION Spec
CONSTANTS
  w1 = w1
  w2 = w2
  t1 = t1
  t2 = t2
  t3 = t3
  s1 = s1
  s2 = s2
  h1 = h1
  h2 = h2
  NoWf = NoWf
  Nobody = Nobody
  Actors <- MCActors
  Sources <- MCSources
  Workflows = {w1}
  NumTasks = 2
  TaskIds = {t1, t2}
  IdOf <- OneWorkflow
  Slots = {s1, s2}
  MaxAttempts = 1
  MaxStalled = 0
  KeepCompleted = 2
  Handlers = {h1}
  Operations = {"create", "start", "retry", "cancel"}
  Agentless = {}
  Unnamed = {}
  AdHoc = {}
  Processes <- NoProcesses
  MaxRequests = 2
  MaxFaults = 1
SYMMETRY SlotsOnly
CHECK_DEADLOCK FALSE
INVARIANTS TypeOK CopiesTrackDocument
PROPERTIES WritesStayLocal
