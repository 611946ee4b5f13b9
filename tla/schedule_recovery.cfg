SPECIFICATION Spec
CONSTANTS
    Procs = {p1, p2}
    Handles = {h1, h2}
    NoHandle = NoHandle
    NoKey = NoKey
    FireTimes = {3, 5}
    Policies = {"skip_missed", "fire_once_on_recovery", "enqueue_all_bounded"}
    MaxMissed = 2
    FirstFire = 1
    Keys = {"k"}
    Clock = {1, 3, 5}
    MaxId = 3
INVARIANTS
    TypeOK
    OneJobPerFire
    LinksAgree
    CursorCovers
    OneJobPerKey
SYMMETRY SameProcs
