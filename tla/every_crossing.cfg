SPECIFICATION Spec
CONSTANTS
    w1 = w1
    w2 = w2
    hub = hub
    demo = demo
    Absent = Absent
    Other = Other
    Idle = Idle
    Dropped = Dropped
    Skus <- MCSkus
    Carts <- MCCarts
    SeedStock <- MCSeed
    ResetStock = 6
    Qtys = {3}
    Workers = {w1}
    Thresholds = {5}
    BatchSize = 2
    MaxAttempts = 3
    MaxSends = 2
    MaxLog = 3
INVARIANT
    EveryCrossingAlerted
CHECK_DEADLOCK FALSE
