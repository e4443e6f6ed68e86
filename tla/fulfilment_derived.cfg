SPECIFICATION FulfilmentSpec
CHECK_DEADLOCK FALSE
CONSTANTS
    VendorOrders = {o1, o2}
    Slots = {p1, p2}
    MaxAttempts = 5
    None = None
SYMMETRY Symmetry
INVARIANT MasterIsDerived
