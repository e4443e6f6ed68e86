SPECIFICATION Spec
CONSTANTS
    None = None
    Creates = {c1}
    Retries = {}
    RefundRequests = {f1, f2}
    Deliveries = {d1, d2, d3}
    Events = {e1, e2, e3}
    Total = 1
SYMMETRY Symmetry
INVARIANT RefundsWithinPaid
CHECK_DEADLOCK FALSE
