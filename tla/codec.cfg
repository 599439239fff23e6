SPECIFICATION CodecSpec
CONSTANTS
    MAX_PACKET_LEN = 3
    Numbers = 3
    max_stmt_length = 16
    MaxRows = 3
    MaxLength = 2
    MaxFetches = 3
    Seconds <- MCSeconds
    Micros <- MCMicros
    Lengths <- MCLengths
INVARIANTS
    RowsArrive
    RowsHandedOut
    DurationsReturn
    RowsReturn
CHECK_DEADLOCK FALSE
