SPECIFICATION LoopSpec
CONSTANTS
    w1 = w1
    a1 = a1
    w2 = w2
    Workers = {w1}
    IdOf <- OwnIds
    WorkerIds = {w1, w2}
    Jobs = {1}
    Tasks = {"t"}
    TaskOf <- OneTask
    MaxRetries <- OneRetry
    Delays = {0}
    TTL = 1
    BaseDelay = 1
    ApprovalIds = {a1}
    ApprovalTTL = 1
    Limits = {}
    InitialLimit <- NoLimits
    Operators = {"cli"}
    Commands = {"retry"}
    MaxTime = 3
    MaxAttempts = 2
    MaxAudit = 1
    NoOne = NoOne
    Outcomes = {"failure", "approval"}
    MayDrain = FALSE
    Dims = {"steps"}
    Deltas <- UnitReports
    LoopLimitRows <- StepLimits
    StallPolicies <- BothPolicies
    Governors = {"loop", "watch"}
    Calls <- TwoSources
    MaxUsage = 2
INVARIANTS
    LoopTypeOK
    BudgetEnforced
PROPERTIES
    UsageStops
    LoopStopIsFinal
    HeartbeatHonoured
CONSTRAINT ApprovalsOrHeartbeats
