SPECIFICATION RecoverySpec
CONSTANTS
    w1 = w1
    w2 = w2
    Idle = Idle
    Checkouts = {hub}
    Workers = {w1, w2}
    Readers = {r1}
    MaxRequests = 3
INVARIANTS
    RecoveryTypeOK
    CreatedIsStored
    StoredIsAccountedFor
    ReportGapsExplained
SYMMETRY Interchangeable
