SPECIFICATION Spec
CONSTANTS
    w1 = w1
    w2 = w2
    a1 = a1
    Workers = {w1, w2}
    IdOf <- OwnIds
    WorkerIds = {w1, w2}
    Jobs = {1, 2}
    Tasks = {"t"}
    TaskOf <- OneTask
    MaxRetries <- OneRetry
    Delays = {0}
    TTL = 1
    BaseDelay = 1
    ApprovalIds = {a1}
    ApprovalTTL = 1
    Limits = {}
    InitialLimit <- NoLimits
    Operators = {}
    Commands = {}
    MaxTime = 3
    MaxAttempts = 3
    MaxAudit = 1
    NoOne = NoOne
    Outcomes = {"success", "failure", "error", "approval"}
    MayDrain = FALSE
INVARIANTS
    TypeOK
    FencedLease
    NoLiveOverlap
    RetryBudget
    AttemptsBounded
    ApprovalGate
PROPERTIES
    TerminalIsFinal
    ImplementsLeaseService
SYMMETRY SameWorkers
