SPECIFICATION Spec
CONSTANTS
    Req = {r1, r2, r3}
    NoReq = NoReq
    MaxErrors = 1
SYMMETRY Symmetric
PROPERTY ClaimKeepsVerified
CHECK_DEADLOCK FALSE
