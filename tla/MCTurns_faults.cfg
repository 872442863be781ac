SPECIFICATION Spec
CONSTANTS
    r1 = r1
    r2 = r2
    q1 = q1
    q2 = q2
    p1 = p1
    p2 = p2
    NoReq = NoReq
    Req = {r1, r2}
    Msg = {q1, q2}
    Proc = {p1, p2}
    Faults = {"crash", "db", "stall"}
    MaxRefreshes = 2
    TURN_WINDOW = 20
SYMMETRY Symmetric
INVARIANTS
    ClaimIsOwn
    OneReplyPerQuestion
    ReplyAfterItsQuestion
    DoneMeansFree
PROPERTIES
    KeepsContract
    DrainedStoresNothing
    EntryKeptWhileRunning
CHECK_DEADLOCK FALSE
