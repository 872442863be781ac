SPECIFICATION FairSpec
CONSTANTS
    d1 = d1
    d2 = d2
    d3 = d3
    Delivery = {d1, d2, d3}
    MAX_RETRIES = 2
    Faults <- AllFaults
INVARIANTS
    OneChunkSet
    RowHasBytes
PROPERTIES
    FailedIsFinal
    WorkerKeepsReady
    EveryDocumentSettles
CHECK_DEADLOCK FALSE
