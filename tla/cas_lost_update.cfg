SPECIFICATION StoreSpec
CONSTANTS
    c1 = c1
    c2 = c2
    c3 = c3
    h1 = h1
    h2 = h2
    Clients = {c1, c2, c3}
    Handles = {h1, h2}
    Assignments <- AllAssignments
    Ops = {"put", "cas"}
    Ttl = 1
    LegalHold = FALSE
    MaxRev = 2
    MaxClock = 2
    NoRecord = NoRecord
INVARIANTS
    AckedUpdatesKept
SYMMETRY SameClients
