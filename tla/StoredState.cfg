SPECIFICATION StoredStateSpec
CONSTANTS
    q1 = q1
    q2 = q2
    x = x
    y = y
\* AuditLog
    Appenders = {q1, q2}
    Payloads = {x, y}
    Genesis = Genesis
    Pending = Pending
    AdminDictRows = TRUE
    RetentionDays = 0
    MaxSeq = 3
    MaxDays = 1
    MaxFailures = 1
    MaxEdits = 1
\* DbRoles
    Hosted = {q1, q2}
    RoleOrder <- MCRoleOrder
    Mandatory = {"worker"}
    Attempts = 2
    MaxInits = 4
    MaxWriteErrors = 1
\* DbGrants
    Starters = {q1, q2}
    OldRights <- MCOldRights
    MaxAborts = 1
\* Submission
    Requests = {q1, q2}
    BatchSize = 2
    RateLimit = 1
    Window = 2
    DailyLimit = 1
    MaxQueued = 2
    MaxClock = 4
    LastDay = 1
\* RateLimiter
    Guarded = {q1, q2}
    HardLimit = 3
    PerCall = 2
    PerMinute = 1
    MostUsed = 3
    LastDate = 2
SYMMETRY Symmetry
INVARIANTS
    AuditInvariant
    DbRolesInvariant
    
    
    LimiterInvariant
CHECK_DEADLOCK FALSE
