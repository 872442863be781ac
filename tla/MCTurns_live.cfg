SPECIFICATION FairSpec
CONSTANTS
    r1 = r1
    r2 = r2
    q1 = q1
    q2 = q2
    p1 = p1
    NoReq = NoReq
    Req = {r1, r2}
    Msg = {q1, q2}
    Proc = {p1}
    Faults = {"crash", "stall"}
    MaxRefreshes = 1
    TURN_WINDOW = 20
PROPERTIES
    EveryRequestEnds
    ClaimIsReleased
CHECK_DEADLOCK FALSE
