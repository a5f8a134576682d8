\* Two templates, histories of four, states of two
CONSTANTS
    Patterns = {t1, t2}
    HistoryNum = 4
    Order = 2
    FspaceHash = fspace
    MaxRun = 9
SPECIFICATION MarkovSpec
INVARIANT CountsAddUp
INVARIANT WindowIsLast
INVARIANT StateIsReal
SYMMETRY PatternSymmetry
