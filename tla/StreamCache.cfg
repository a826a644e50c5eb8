CONSTANTS
  t1 = t1
  t2 = t2
  n1 = n1
  n2 = n2
  c1 = c1
  c2 = c2
  c3 = c3
  u1 = u1
  u2 = u2
  TaskId = {t1, t2}
  NoTask = NoTask
  Priority <- SamePriority
  TestTasks = {}
  Node = {n1}
  NoWorker = NoWorker
  WORKER_CONCURRENCY = 1
  STABLE_NODE_ID = TRUE
  DeleteGranted = TRUE
  MaxCrashes = 0
  MaxFaults = 0
  MaxEdits = 0
  Client = {c1}
  User = {u1}
  UserOf <- OneUser
  max_sse_streams_per_user = 0
  TERMINAL_CACHE_MAXSIZE = 1
  MaxProgress = 1
SPECIFICATION StreamSpec
INVARIANTS
  StreamTypeOK
  NoMissedOutcome
