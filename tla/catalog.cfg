SPECIFICATION Spec
CONSTANTS
    None = None
    NewProducts = {p1, p2}
    ProductUpdates = {w1}
    NewVariants = {v1, v2, v3}
    VariantUpdates = {x1}
    Slugs = {s1, s2}
    Skus = {k1, k2, k3}
SYMMETRY Symmetry
INVARIANTS
    NamesUnique
    Defaults
    StockedVariants
CHECK_DEADLOCK FALSE
