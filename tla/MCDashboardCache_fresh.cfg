SPECIFICATION Spec
CONSTANTS
    v1 = v1
    v2 = v2
    r1 = r1
    r2 = r2
    q1 = q1
    q2 = q2
    View = {v1, v2}
    Request = {r1, r2}
    Queue = {q1, q2}
    NoEntry = NoEntry
    NoView = NoView
    TTL = 1
    Window = 2
    MaxRefreshes = 2
    MaxEntries = 1
    MaxVersion = 2
    MaxGeneration = 1
    MaxTime = 4
SYMMETRY Symmetry
INVARIANTS
    TypeOK
    CurrentSnapshotIsFresh
    LiveAnswers
    CacheBounded
    BudgetHolds
