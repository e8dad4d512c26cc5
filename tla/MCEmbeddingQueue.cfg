SPECIFICATION Spec
CONSTANTS
    MaxMem = 2
    Proc = {p1, p2}
    Model = {"a", "c"}
    Dim <- OtherDim
    Kinds = {"long", "skipped", "blank"}
    Ops = {"defer", "observe", "contradict", "reembed", "purge", "crash"}
    Limit = 1
    Chunk = 1
    DrainBound = 2
    MaxAttempts = 1
    Transient = TRUE
    None = None
SYMMETRY Symmetry
INVARIANTS
    IndexFollowsRows
PROPERTIES
    JobsLeaveWithAVector
    PurgeTakesTheTail
