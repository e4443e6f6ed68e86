SPECIFICATION Spec
CONSTANTS
    None = None
    Creates = {c1}
    Retries = {t1, t2}
    RefundRequests = {f1, f2}
    Deliveries = {d1, d2, d3}
    Events = {e1, e2, e3}
    Total = 2
SYMMETRY Symmetry
INVARIANTS
    RefundedIsSum
    OverRefundNeedsRace
    SettledOnce
    AttemptsNumbered
    StatusesFollow
    ReceivedIsCarried
PROPERTIES
    ImplementsRefundBook
CHECK_DEADLOCK FALSE
