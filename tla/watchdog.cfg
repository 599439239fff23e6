SPECIFICATION Spec
CONSTANTS
    any4 = any4
    any6 = any6
    office = office
    Rules <- MCRules
    World <- MCWorld
    NoPort = NoPort
    Workers = {s1, s2}
    Scheduled = {s1}
    Idle = Idle
    MaxAttempts = 2
    MaxOpened <- Twice
    MaxFaults = 1
INVARIANTS
    TypeOK
    AlertsTruthful
    OthersKept
PROPERTY
    OpenRangesRevoked
