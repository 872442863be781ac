SPECIFICATION FairSpec
CONSTANTS
    MAX_ITERS = 2
    TOOLS = {"search"}
    Unknown = "bogus"
    Key = {"passage"}
    Distance = {1, 2}
    Pieces = {"", "a"}
    Empty = ""
    MaxDeltas = 2
    MaxCalls = 2
    Batches <- Found
    Faults = {"model", "deadline", "drain", "save", "connection"}
INVARIANTS
    StoredIsLastCall
    PageShowsWhatIsStored
    ToolCallsAreAnswered
PROPERTIES
    RepliesEnd
