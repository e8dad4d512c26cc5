SPECIFICATION Spec
CONSTANTS
    Mem = {m1, m2, m3, m4}
    Tomb = {t1, t2, t3}
    Key = {k1, k2}
    Text = {x}
    Client = {c1, c2}
    None = None
SYMMETRY Symmetry
INVARIANTS
    TypeOK
    LineageIsSound
    NoErasedIdentifier
    TraceIsOneChain
PROPERTIES
    RepliesAreTrue
    AppendOnly
    ImplementsMemoryChain
