\* Two notifications; a claimed batch can be left half enqueued.
SPECIFICATION FairSpec
CONSTANTS
    Notification = {n1, n2}
    Worker = {w1}
    Scheduler = {s1, s2}
    MaxAttempts = 2
    ClaimLimit = 2
    FaultBudget <- RedeliveryAndScheduler
CHECK_DEADLOCK FALSE
INVARIANTS
    NoOrphan
    CarriersBounded
PROPERTIES
    Settles
