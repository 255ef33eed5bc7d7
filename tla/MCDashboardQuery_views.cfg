SPECIFICATION Spec
CONSTANTS
    q1 = q1
    latest = latest
    junk = junk
    QueueName = {q1}
    UnknownText = {junk}
    AllowedStatus = {latest}
    NotText = NotText
    Undefined = Undefined
    NaN = NaN
    Number = {NaN, 0, 2, 3}
    MaxPage = 2
    MaxJobsPerPage = 2
    DefaultJobsPerPage = 1
    MaxPolls = 2
INVARIANTS
    ServedOwnView
    VisitorSeesWhatWasAsked
    OneSnapshotPerView
