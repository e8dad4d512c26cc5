SPECIFICATION RecallSpec
CONSTANTS
    Window = 4
    Overlap = 2
    MaxSpans = 4
    Sliver = 3
    Drift = 1
    CharsPerToken = 3
    Frame = 2
    Separator = 2
    Marker = 1
    Corpora <- Small
    Requests <- Asks
    Memories <- Mems
    Key <- Keys
    Time <- Times
    Topic <- Topics
    HitRow <- HitRows
    EventRow <- EventRows
    Line <- Lines
    Other <- Others
    Far = 3
    Candidates = 2
    VecMax = 6
    SpanMax = 3
    Growth = 2
    RrfK = 60
    RerankPool = 4
    Lambda = 3
    TimelineLimit = 4
    Header = 3
    DropLine = 4
INVARIANTS
    SearchesAreComplete
    AnswerIsTrue
