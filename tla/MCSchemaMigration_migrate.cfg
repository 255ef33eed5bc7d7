SPECIFICATION FairSpec
CONSTANTS
    email = email
    webhook = webhook
    k1 = k1
    k2 = k2
    JobName = {email, webhook}
    Key = {k1, k2}
    NoTable = NoTable
    MaxCrashes = 2
INVARIANTS
    TypeOK
    ReadyIsComposite
PROPERTIES
    RecordsAreDurable
    ComesUp
