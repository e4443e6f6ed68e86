SPECIFICATION MCSpec
CONSTANTS
    u1 = u1
    u2 = u2
    g1 = g1
    g2 = g2
    g3 = g3
    a1 = a1
    a2 = a2
    a3 = a3
    o1 = o1
    o2 = o2
    o3 = o3
    None = None
    Slugs = {s1, s2}
    Users = {u1, u2}
    Registrations = {g1, g2, g3}
    Applications = {a1, a2, a3}
    Reviews = {r1, r2, r3, r4}
    Activations = {v1, v2}
    Openings = {o1, o2, o3}
    Updates = {p1}
    UserOf <- SmallUserOf
SYMMETRY Symmetry
INVARIANTS
    OneOfEach
    DecisionsStand
PROPERTIES
    VendorLifecycle
CHECK_DEADLOCK FALSE
