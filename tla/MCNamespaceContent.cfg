SPECIFICATION Spec
CONSTANTS
    p1 = p1
    p2 = p2
    n1 = n1
    n2 = n2
    m1 = m1
    m2 = m2
    Proc <- MCProc
    Ns <- MCNs
    Mem <- MCMem
    Excluded <- MCExcluded
    MaxBackup = 3
    MaxPurge = 1
    MaxExport = 1
    MaxFault = 1
    MaxPlan = 1
    None = None
SYMMETRY Symmetry
CHECK_DEADLOCK FALSE
INVARIANTS
    ContentIsKept
    ErasureReachesBackups
    CorrectionsSurvive
