\* Three requests on two keys with two payloads.
SPECIFICATION FairSpec
CONSTANTS
    Request = {r1, r2, r3}
    Key = {k1, k2}
    Payload = {p1, p2}
    None = None
CHECK_DEADLOCK FALSE
INVARIANTS
    OneNotificationPerKey
PROPERTIES
    ImplementsOperation
    EveryRequestIsAnswered
