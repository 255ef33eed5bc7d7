SPECIFICATION LimitSpec
CONSTANTS
    c1 = c1
    c2 = c2
    Client = {c1, c2}
    Window = 2
    MaxPerIp = 2
    MaxGlobal = 3
    MaxDashboard = 1
    MaxTime = 3
    ManyHits = 4
SYMMETRY Symmetry
INVARIANTS
    IntakeBounded
PROPERTIES
    RefusedOnlyOverBudget
