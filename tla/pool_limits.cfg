SPECIFICATION Spec
CONSTANTS
    w1 = w1
    w2 = w2
    Workers = {w1, w2}
    IdOf <- OwnIds
    WorkerIds = {w1, w2}
    Jobs = {1, 2, 3}
    Tasks = {"t", "u"}
    TaskOf <- TwoTasks
    MaxRetries <- FirstRetries
    Delays = {0}
    TTL = 1
    BaseDelay = 1
    ApprovalIds = {}
    ApprovalTTL = 1
    Limits = {}
    InitialLimit <- GlobalLimit
    Operators = {}
    Commands = {}
    MaxTime = 3
    MaxAttempts = 3
    MaxAudit = 0
    NoOne = NoOne
    Outcomes = {"success", "failure", "skip", "error"}
    MayDrain = FALSE
INVARIANTS
    OvershootBounded
PROPERTIES
    DueJobsTaken
