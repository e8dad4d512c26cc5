SPECIFICATION Spec
CONSTANTS
    Host = {h1}
    Opaque = {s1, s2}
    Event = {e1, e2, e3}
    Proc = {p1, p2}
    None = None
SYMMETRY Symmetry
INVARIANTS
    SessionsAreSound
PROPERTIES
    EndedStaysEnded
    PurgeForgetsSessions
