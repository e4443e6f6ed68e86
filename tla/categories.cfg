SPECIFICATION FairSpec
CONSTANTS
    None = None
    Existing = {c1, c2}
    Creations = {n1}
    Moves = {m1, m2}
PROPERTIES
    RefusedIsCircular
    RequestsFinish
INVARIANTS
    CycleNeedsRace
CHECK_DEADLOCK FALSE
