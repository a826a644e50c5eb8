CONSTANTS
  t1 = t1
  t2 = t2
  t3 = t3
  n1 = n1
  n2 = n2
  TaskId = {t1, t2, t3}
  NoTask = NoTask
  Priority <- LastIsUrgent
  TestTasks = {}
  Node = {n1}
  NoWorker = NoWorker
  WORKER_CONCURRENCY = 1
  STABLE_NODE_ID = TRUE
  DeleteGranted = TRUE
  MaxCrashes = 0
  MaxFaults = 0
  MaxEdits = 1
SPECIFICATION Spec
SYMMETRY TwoTasks
INVARIANTS
  ActiveCount
  SlotBound
  DependencyComplete
