SPECIFICATION Spec
CONSTANTS
    k1 = k1
    s1 = s1
    s2 = s2
    Key = {k1}
    Slot = {s1, s2}
    NoSlot = NoSlot
    NoJob = NoJob
    NoData = NoData
    MaxAttempts = 3
    MaxStalledCount = 1
    KeepCompleted = 1
    KeepFailed = 2
    FaultKinds = {"sigterm"}
    MaxFaults = 1
    Many = 2
SYMMETRY Symmetry
INVARIANTS
    AvailableNeverFails
