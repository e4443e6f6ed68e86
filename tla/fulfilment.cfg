SPECIFICATION FairFulfilmentSpec
CHECK_DEADLOCK FALSE
CONSTANTS
    VendorOrders = {o1, o2}
    Slots = {p1, p2}
    MaxAttempts = 2
    None = None
INVARIANTS
    HistoriesTrue
    EndIsTrue
    MasterFollows
PROPERTIES
    EndIsFinal
    TransitionsFinish
