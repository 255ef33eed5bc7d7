SPECIFICATION Spec
CONSTANTS
    k1 = k1
    s1 = s1
    s2 = s2
    Key = {k1}
    Slot = {s1, s2}
    NoSlot = NoSlot
    NoJob = NoJob
    NoData = NoData
    MaxAttempts = 2
    MaxStalledCount = 1
    KeepCompleted = 1
    KeepFailed = 2
    FaultKinds = {"crash", "sigterm", "db", "net", "reply", "dlq"}
    MaxFaults = 3
    Many = 2
SYMMETRY Symmetry
INVARIANTS
    TypeOK
    EffectBehindSuccess
    SoleExecution
PROPERTIES
    NoDeliveryAfterSuccess
    FailedRecordOnlyWhenTerminal
    ContractHolds
