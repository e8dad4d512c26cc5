SPECIFICATION Spec
CONSTANTS
    p1 = p1
    p2 = p2
    n1 = n1
    n2 = n2
    n3 = n3
    la = la
    lb = lb
    m1 = m1
    m2 = m2
    Proc <- MCProc
    Ns <- MCNs
    Local <- MCLocal
    Label <- MCLabel
    Known <- MCLabel
    Mem <- MCMem
    LocalMem <- MCLocalMem
    Foreign <- MCForeign
    MaxFile = 2
    MaxAct = 2
    MaxCrash = 1
    None = None
SYMMETRY Symmetry
CHECK_DEADLOCK FALSE
INVARIANTS
    RegistryIsBacked
    NoResurrection
    NothingLeftBehind
PROPERTIES
    ImportIsAtomic
