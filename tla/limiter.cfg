SPECIFICATION Spec
CONSTANTS
    w1 = w1
    w2 = w2
    a = a
    Idle = Idle
    Ips = {a}
    Workers = {w1, w2}
    RATE_LIMIT = 1
    RATE_WINDOW = 3
    MaxDelay = 2
    MaxTime = 6
    MaxSent = 2
    MaxClears = 1
INVARIANTS
    TypeOK
    SlotsUnique
    AllowedPerWindow
    DenyJustified
    SlidingBound
SYMMETRY Interchangeable
CHECK_DEADLOCK FALSE
