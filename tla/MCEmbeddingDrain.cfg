SPECIFICATION FairSpec
CONSTANTS
    MaxMem = 3
    Proc = {p1, p2}
    Model = {"a"}
    Dim <- OneModel
    Kinds = {"short", "poison"}
    Ops = {"defer", "maintain", "bootstrap"}
    Limit = 1
    Chunk = 1
    DrainBound = 2
    MaxAttempts = 2
    Transient = FALSE
    None = None
PROPERTIES
    DrainsGetThrough
