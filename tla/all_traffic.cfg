SPECIFICATION Spec
CONSTANTS
    any4 = any4
    any6 = any6
    office = office
    Rules <- MCRules
    World <- MCWorld
    NoPort = NoPort
    Workers = {s1}
    Scheduled = {s1}
    Idle = Idle
    MaxAttempts = 3
    MaxOpened <- Once
    MaxFaults = 2
PROPERTY
    AnyOpenRuleRevoked
