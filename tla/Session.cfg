\* A primary or a standby that is promoted; mode and settings change; planning
\* inside planning
CONSTANTS
    Statements = {q1, q2}
    Templates = {q1}
    Skipped = {}
    Modes = {"intelligent", "forced", "learn"}
    Settings <- TunedRows
    MaxNesting = 2
    MaxOpen = 2
    None = None
SPECIFICATION SessionSpec
INVARIANT OwnContext
INVARIANT LearnsFromCounters
INVARIANT ExplainTellsHooks
INVARIANT StandbyLearnsNothing
