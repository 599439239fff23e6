SPECIFICATION FairDriverSpec
CONSTANTS
    c1 = c1
    c2 = c2
    nobody = nobody
    Cursors = {c2}
    Unbuffered = {c2}
    Nobody = nobody
    SeqMod = 7
    LocalInfile = FALSE
    MaxRows = 1
    MaxBatch = 1
    Settings <- MCSettings
INVARIANT ReconnectGoesOn
