SPECIFICATION FairSpec
CONSTANTS
    r1 = r1
    r2 = r2
    j1 = j1
    Request = {r1, r2}
    Job = {j1}
    NoId = NoId
    NoRequest = NoRequest
    ManyTimes = 1
INVARIANTS
    TypeOK
    AnsweredOnce
    AcceptedIsStored
    Traceable
PROPERTIES
    HealthAnswered
    AnsweredAfterOutage
    ShutdownEnds
