SPECIFICATION Spec
CONSTANTS
    e1 = e1
    e2 = e2
    alt = alt
    dflt = dflt
    x = x
    j1 = j1
    j2 = j2
    t1 = t1
    t2 = t2
    Event <- MCEvent
    Home <- MCHome
    Default = dflt
    Foreign <- MCForeign
    Call <- MCCall
    Slot <- MCSlot
    Excluded <- MCExcluded
    Unembedded <- MCUnembedded
    MaxEdit = 1
    MaxInstall = 2
    MaxFire = 2
    MaxFail = 1
    None = None
    Nil = Nil
SYMMETRY Symmetry
CHECK_DEADLOCK FALSE
INVARIANTS
    FilesAreKept
    BoundMeansHealthy
    CapturedAsAsked
    NothingIsLost
    SilenceIsReported
