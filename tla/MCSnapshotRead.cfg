SPECIFICATION Spec
CONSTANTS
    Writer = {w1, w2}
    Nobody = Nobody
    Pages = 2
    MaxTxn = 2
    MaxCrash = 1
    IsRegistry = FALSE
    MaxTry = 2
    Home = Nobody
SYMMETRY Symmetry
INVARIANTS
    StorageIsSound
    AnswersAreStates
    RefusalHasCause
