SPECIFICATION FairDriverSpec
CONSTANTS
    c1 = c1
    c2 = c2
    nobody = nobody
    Cursors = {c1, c2}
    Unbuffered = {c2}
    Nobody = nobody
    SeqMod = 5
    LocalInfile = TRUE
    MaxRows = 1
    MaxBatch = 2
    Settings <- MCSettings
INVARIANTS
    SessionTypeOK
    RepliesMatched
    WaitsOnlyForAnswers
    UnreadIsKnown
    StatusFresh
    AutocommitKept
    LoggedInTogether
    SomebodyTalks
    RightPasswordGetsIn
PROPERTY CallsReturn
