SPECIFICATION Spec
CONSTANTS
    Writer = {w1, w2}
    Nobody = Nobody
    Pages = 2
    MaxTxn = 2
    MaxCrash = 0
    IsRegistry = FALSE
    MaxTry = 2
    Home = w1
INVARIANTS
    Durable
