SPECIFICATION Spec
CONSTANTS
    k1 = k1
    k2 = k2
    s1 = s1
    Key = {k1, k2}
    Slot = {s1}
    NoSlot = NoSlot
    NoJob = NoJob
    NoData = NoData
    MaxAttempts = 2
    MaxStalledCount = 1
    KeepCompleted = 1
    KeepFailed = 2
    FaultKinds = {"dlq", "reply"}
    MaxFaults = 2
    Many = 2
SYMMETRY Symmetry
INVARIANTS
    EffectAtMostOnce
PROPERTIES
    FailureNeverErasesSuccess
    FailureOutlivesRejection
