SPECIFICATION IntakeSpec
CONSTANTS
    c1 = c1
    c2 = c2
    a = a
    b = b
    Call = {c1, c2}
    Client = {a, b}
    NoReading = NoReading
    TTL = 2
    MaxDepth = 1
    MaxPending = 5
    MaxTime = 3
    Window = 2
    MaxPerIp = 2
    MaxGlobal = 2
    MaxDashboard = 1
    ManyHits = 3
SYMMETRY Symmetry
VIEW View
INVARIANTS
    TypeOK
    DecidedOnRecentDepth
    DepthBounded
