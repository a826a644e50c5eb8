SPECIFICATION DeliveryFairSpec
CONSTANTS
\* EventStream
    t1 = t1
    n1 = n1
    c1 = c1
    u1 = u1
    TaskId = {t1}
    NoTask = NoTask
    Priority <- SamePriority
    TestTasks = {}
    Node = {n1}
    NoWorker = NoWorker
    WORKER_CONCURRENCY = 1
    STABLE_NODE_ID = TRUE
    DeleteGranted = TRUE
    MaxCrashes = 0
    MaxFaults = 0
    MaxEdits = 0
    Client = {c1}
    User = {u1}
    UserOf <- OneUser
    max_sse_streams_per_user = 1
    TERMINAL_CACHE_MAXSIZE = 1
    MaxProgress = 1
\* Pipelines
    Steps = 2
    RefersTo <- MCRefersTo
    Clients = {f1, f2}
    MaxDbFailures = 1
\* Scheduler
    Schedules = {s1, s2}
    Gateways = {g1, g2}
    Intervals = {1}
    MaxNow = 1
    MaxMishaps = 1
\* OllamaCluster
    Labels = {l1, l2}
    Urls = {u1, u2}
    Fallback = fallback
    PrimaryFirst = FALSE
    MaxChanges = 3
\* Connector
    Inbound = {q1}
    Deltas = 2
\* WebhookSender
    Hooks = {h1, h2}
    Finished = {w1}
    MaxRetries = 3
    MaxStops = 1
INVARIANTS
    
    SchedulerInvariant
    ClusterInvariant
    ConnectorInvariant
    WebhookInvariant
PROPERTIES
    
    PipelineProgress
    
    CacheSettles
    
    NoneAfterAnswer
CHECK_DEADLOCK FALSE
