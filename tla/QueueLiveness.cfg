CONSTANTS
  t1 = t1
  t2 = t2
  t3 = t3
  n1 = n1
  n2 = n2
  TaskId = {t1, t2}
  NoTask = NoTask
  Priority <- SamePriority
  TestTasks = {}
  Node = {n1}
  NoWorker = NoWorker
  WORKER_CONCURRENCY = 1
  STABLE_NODE_ID = FALSE
  DeleteGranted = FALSE
  MaxCrashes = 1
  MaxFaults = 1
  MaxEdits = 0
SPECIFICATION FairSpec
PROPERTIES
  ClaimableIsTaken
  RunningEnds
  DependentFollows
