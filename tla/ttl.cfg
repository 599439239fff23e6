SPECIFICATION Spec
CONSTANTS
    w1 = w1
    w2 = w2
    a = a
    Idle = Idle
    Ips = {a}
    Workers = {w1}
    RATE_LIMIT = 1
    RATE_WINDOW = 2
    MaxDelay = 1
    MaxTime = 5
    MaxSent = 2
    MaxClears = 1
PROPERTY
    CountersSelfExpire
CHECK_DEADLOCK FALSE
