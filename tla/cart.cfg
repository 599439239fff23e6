SPECIFICATION ListingSpec
CONSTANTS
    w1 = w1
    w2 = w2
    hub = hub
    window = window
    Counters = {window}
    c1 = c1
    c2 = c2
    Absent = Absent
    Other = Other
    Idle = Idle
    Skus <- MCSkus
    Workers <- MCWorkers
    Carts <- MCCarts
    Qtys = {1, 2}
    MaxLog = 5
    PageItems = 2
INVARIANTS
    CartTypeOK
    CartLinesBacked
    
    ListingCompletePage
CHECK_DEADLOCK FALSE
