SPECIFICATION FairSpec
CONSTANTS
    CONVERSATIONS = {c1}
    REQUESTS = {r1, r2}
    JOBS = {j1, j2}
    MAX_PENDING = 1
    ENQUEUE_THREADS = 1
    WORKERS = 2
    MAX_RETRIES = 1
    MaxFaults = 3
    MaxOthers = 2
CHECK_DEADLOCK FALSE
INVARIANTS
    UntitledForCause
PROPERTIES
    TitleSetOnce
    TitleArrives
