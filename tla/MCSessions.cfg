SPECIFICATION Spec
CONSTANTS
    Pub = {p1, p2}
    Req = {r1, r2}
    TTL = 2
    DELAY = 1
    RETENTION = 1
    DAY = 3
    DEMO_TURN_LIMIT = 1
    MaxHits = 3
    HOUR = 1
    MemberTime = 4
    VisitorTime = 8
    Faults = {"redis", "db", "crash"}
SYMMETRY Symmetric
INVARIANTS
    PublishIsInstant
    TurnsAreCapped
PROPERTIES
    RevocationTakesHold
    RefusedForCause
    RefusalExpires
CHECK_DEADLOCK FALSE
