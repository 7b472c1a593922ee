\* Two workflows use the same task ids, one of an unknown agent, next to ad-hoc jobs of that agent and of none; completed jobs are removed at once.
SPECIFICATION Spec
CONSTANTS
  w1 = w1
  w2 = w2
  t1 = t1
  t2 = t2
  t3 = t3
  s1 = s1
  s2 = s2
  h1 = h1
  h2 = h2
  NoWf = NoWf
  Nobody = Nobody
  Actors <- MCActors
  Sources <- MCSources
  Workflows = {w1, w2}
  NumTasks = 2
  TaskIds = {t1, t2, t3}
  IdOf <- SharedId
  Slots = {s1, s2}
  MaxAttempts = 1
  MaxStalled = 0
  KeepCompleted = 0
  Handlers = {h1}
  Operations = {"create", "start", "adhoc"}
  Agentless = {t2}
  Unnamed = {t3}
  AdHoc = {t2, t3}
  Processes <- NoProcesses
  MaxRequests = 4
  MaxFaults = 0
SYMMETRY SlotsOnly
CHECK_DEADLOCK FALSE
INVARIANTS ExclusiveJobs
