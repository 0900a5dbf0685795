SPECIFICATION FairSpec
CONSTANTS
    Proc = {p1}
    Event = {e1, e2, e3}
    QueueMax = 1
    MaxOutages = 2
    Overlap = FALSE
    Crashes = FALSE
    TornWrites = FALSE
    NoFile = NoFile
    Torn = Torn
INVARIANT NothingLost
PROPERTIES ImplementsAuditLog EventuallyRecorded
