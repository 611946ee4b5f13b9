SPECIFICATION Spec
CONSTANTS
    Actors = {ann, bob, cyd}
    Reviewers = {ann, bob}
    NoActor = NoActor
    Expiries = {1, 2}
    MaxTime = 1
    MaxEvents = 3
INVARIANTS
    TypeOK
    CoverageComplete
    DecidedInTime
PROPERTIES
    DecisionIsFinal
SYMMETRY SameReviewers
