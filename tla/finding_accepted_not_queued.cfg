\* A request whose enqueue failed, repeated with the same Idempotency-Key.
SPECIFICATION FairSpec
CONSTANTS
    Notification = {n1}
    Worker = {w1}
    Scheduler = {s1}
    MaxAttempts = 2
    ClaimLimit = 1
    FaultBudget <- OneApiFault
CHECK_DEADLOCK FALSE
PROPERTY AcceptedIsQueued
