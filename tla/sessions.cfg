SPECIFICATION Spec
CONSTANTS
    l1 = l1
    l2 = l2
    u1 = u1
    u2 = u2
    None = None
    Users = {u1, u2}
    Logins = {l1, l2}
    Refreshes = {r1, r2, r3}
    Logouts = {o1}
    UserOf <- TwoUsers
SYMMETRY Symmetry
INVARIANTS
    OneLiveToken
    SessionIsChain
PROPERTIES
    DeadSessionStaysDead
    SessionsIndependent
CHECK_DEADLOCK FALSE
