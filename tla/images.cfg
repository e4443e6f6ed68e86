SPECIFICATION Spec
CONSTANTS
    None = None
    Uploads = {f1, f2}
    Removals = {d1, d2, d3}
    Streams = {s1, s2}
SYMMETRY Symmetry
INVARIANTS
    RowHasFile
    OrphansExplained
    RemovedOnce
    StreamsWhole
CHECK_DEADLOCK FALSE
