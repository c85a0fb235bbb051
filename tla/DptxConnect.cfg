CONSTANTS
    Retries <- MCRetries
    MaxPlugs <- MCPlugs
SPECIFICATION FairSpec
INVARIANTS
    TypeOK
    FreshLink
    ReportIsHeard
    NewDisplayIsAsked
    DisplayAgrees
PROPERTIES
    LentToOne
    QueueServed
    ConnectEnds
CHECK_DEADLOCK FALSE
