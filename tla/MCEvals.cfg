SPECIFICATION Spec
CONSTANTS
    CASES = {1, 2}
    LINES <- MCLines
    IN_FLIGHT = 1
    CUTOFF = FALSE
    Index = {1}
    MaxPoints = 2
INVARIANTS
    ReportIsHonest
