\* Two points whose fields overlap, cover each other or only copy from each other
SPECIFICATION Spec
CONSTANTS
    Points = {0, 1}
    Widths = {1, 3}
    InitWidth = 3
    NIn = 1
    Kernel <- MCKernel
    Errors = {0, 2}
    ErrorWindow = 1
    Patterns = {p1}
    HistoryWindow = 1
    NoPattern = NoPattern
INVARIANTS TypeOK CentresDistinct UntrustedHasHouse  NeverNearest
    AnswerBacked OutlierCountsItself
PROPERTY ForgetsOnlyOverlapped
