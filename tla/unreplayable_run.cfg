SPECIFICATION ReplaySpec
CONSTANTS
    Requests <- EveryKind
    AnswersTo <- FewAnswers
    Plans <- FewPlans
    MaxCalls = 3
    MaxErrors = 2
    Null = Null
    Failed = Failed
    Denied = Denied
    Diverged = Diverged
    Invalid = Invalid
    EndOfTrace = EndOfTrace
    Pending = Pending
INVARIANT
    EveryRunReplays
CHECK_DEADLOCK FALSE
