SPECIFICATION FairSpec
CONSTANTS
    MaxTurns = 2
    Faults = {"delete", "limit", "error", "slow", "early", "offline"}
INVARIANTS
    TypeOK
    PageIsHonest
    NotSentIsTrue
    StopHitsItsTurn
    AloneShowsServer
PROPERTIES
    ServerKeepsContract
    BusyEnds
CHECK_DEADLOCK FALSE
