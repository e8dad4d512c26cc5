SPECIFICATION ExportSpec
CONSTANTS
    MaxClock = 10
    MaxMem = 4
    MaxSess = 4
    alice = alice
    bob = bob
    Said <- MCSaid
    Told <- MCTold
    Until <- MCUntil
CHECK_DEADLOCK FALSE
INVARIANTS
    BundlesAreWhole
    LineageTellsWhatIsCurrent
    BackupLosesNothing
    GraphFollowsEvents
PROPERTIES
    CutIsHistory
