SPECIFICATION Spec
CONSTANTS
    Tran = {t1, t2, t3}
    Key = {k1}
    Request <- AllModes
    MaxCount = 2
    Timeouts = TRUE
    Stopping = {t1}
    None = None
    t1 = t1
    t2 = t2
    t3 = t3
    k1 = k1
SYMMETRY Symmetry
INVARIANTS
    TypeOK
    TotalIsExact
    NoForgottenUpgrader
    NoForgottenWaiter
PROPERTIES
    ImplementsLockTable
