SPECIFICATION Spec
CONSTANTS
    Tran = {t1, t2}
    Key = {k1, k2, k3}
    Group = {g1, g2}
    GroupOf <- ThreeKeys
    Selects = TRUE
    None = None
    t1 = t1
    t2 = t2
    t3 = t3
    k1 = k1
    k2 = k2
    k3 = k3
    g1 = g1
    g2 = g2
SYMMETRY Symmetry
INVARIANTS
    WritesOwned
    CleanHandover
    WaitsEmptyHanded
