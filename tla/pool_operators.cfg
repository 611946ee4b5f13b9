SPECIFICATION Spec
CONSTANTS
    w1 = w1
    w2 = w2
    Workers = {w1, w2}
    IdOf <- OwnIds
    WorkerIds = {w1, w2}
    Jobs = {1}
    Tasks = {"t"}
    TaskOf <- OneTask
    MaxRetries <- OneRetry
    Delays = {0}
    TTL = 1
    BaseDelay = 1
    ApprovalIds = {}
    ApprovalTTL = 1
    Limits = {1}
    InitialLimit <- NoLimits
    Operators = {"cli"}
    Commands = {"retry", "cancel", "pause", "drain", "limit"}
    MaxTime = 2
    MaxAttempts = 3
    MaxAudit = 0
    NoOne = NoOne
    Outcomes = {"success", "failure", "error"}
    MayDrain = TRUE
PROPERTIES
    AttemptsNeverDecrease
    StoppedOnlyRetried
    DrainExits
    PauseQuiesces
CHECK_DEADLOCK FALSE
