SPECIFICATION UsersAndAgentsSpec
CONSTANTS
    v1 = v1
    v2 = v2
    v3 = v3
    w1 = w1
    w2 = w2
    k1 = k1
    k2 = k2
\* Accounts
    People = {w1, w2}
    FirstAdmin = w1
    Asking = {v1, v2}
    Cli = cli
    StreamTokens = {token}
    SharedTokens = FALSE
    MaxKeys = 2
    MaxCuts = 1
\* UserData
    Owners = {w1, w2}
    Owned = {k1, k2}
    OwnerOf <- MCOwnerOf
    InFlight = {v1, v2}
    Connections = {v1, v2}
    Nobody = nobody
    MaxRows = 1
    MaxBroken = 1
\* Sessions
    Conversations = {k1, k2}
    Turns = {v1, v2, v3}
    NoSession = none
    WorkerSlots = 2
    MaxTroubles = 1
\* AgentLoop
    Calls = {s, f}
    Granted = {s}
    MaxSteps = 4
    RecursionLimit = 8
    MaxErrors = 2
    TokenBudget = 3
    LoopWindow = 2
    LoopThreshold = 2
    MaxVerifyRounds = 1
    MaxCalls = 2
    MaxTokens = 1
    MaxTurns = 2
\* FanOut
    Runs = {v1, v2}
    SubRun = sub
    Cap = 1
    TTL = 2
    Second = 2
    MaxBranches = 2
    MaxTools = 1
    MaxTime = 3
\* HitlApproval
    Reviews = {w1, w2}
    Operators = {v1, v2}
    MaxDecisions = 2
\* ReviewWorkflow
    Candidates = {candidate}
    Packages = {v1, v2}
    Rules = {w1, w2}
    MaxRevisions = 1
\* ToolRegistry
    Processes = {v1, v2}
    MaxVersion = 2
    MaxStarts = 4
SYMMETRY Symmetry
INVARIANTS
    AccountsInvariant
    UserDataInvariant
    
    AgentInvariant
    
    HitlInvariant
    ReviewInvariant
    RegistryInvariant
PROPERTY
    SafeguardsStop
CHECK_DEADLOCK FALSE
