\* One notification, two workers that may hold it at once, every fault once.
SPECIFICATION FairSpec
CONSTANTS
    Notification = {n1}
    Worker = {w1, w2}
    Scheduler = {s1}
    MaxAttempts = 3
    ClaimLimit = 1
    FaultBudget <- EachFaultOnce
CHECK_DEADLOCK FALSE
INVARIANTS
    NoOrphan
    HistoryExplainsState
    HistoryIsBacked
    NothingBeforeCommit
    CarriersBounded
    DuplicatesAreBounded
PROPERTIES
    SentIsFinal
    FailedIsFinal
    ImplementsLedger
    Settles
