\* Three calls of start() with four tasks over two places.
SPECIFICATION EngineFairSpec
CONSTANTS
  r1 = r1
  r2 = r2
  r3 = r3
  w1 = w1
  w2 = w2
  t1 = t1
  t2 = t2
  Starts = {r1, r2, r3}
  WorkflowOf <- MCWorkflowOf
  TasksOf <- MCTasksOf
  Jobs <- MCJobs
  Concurrency = 2
  Retries = 1
CHECK_DEADLOCK FALSE
INVARIANTS LimitKept NoLostWakeup StatesTellOutcomes TasksInOrder
PROPERTIES StartsEnd
