SPECIFICATION Spec
CONSTANTS
    Req = {r1, r2, r3, r4}
    NoReq = NoReq
    MaxErrors = 1
SYMMETRY Symmetric
INVARIANTS
    LinkSpentOnce
    VoidsWhatItSaw
    PendingHasLink
    NoDeadlock
    SignupResolves
PROPERTY
    SignupKeepsVerified
CHECK_DEADLOCK FALSE
