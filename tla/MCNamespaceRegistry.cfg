SPECIFICATION Spec
CONSTANTS
    a = a
    b = b
    c = c
    r1 = r1
    p1 = p1
    p2 = p2
    Label <- MCLabel
    Context <- MCContext
    Named <- MCNamed
    Legacy <- MCLegacy
    Fork <- MCFork
    MaxVer = 4
    MaxMigration = 2
    None = None
CHECK_DEADLOCK FALSE
INVARIANTS
    RegistryResolves
    OneOwner
PROPERTIES
    UndoLosesNothing
    LabelsNeverRepoint
