CONSTANTS
    Scens = {s1, s2, s3}
    PG_REG_MAX = 2
    Seeds = {t1}
    LOG_LINES = 2
    STATS_MAX = 2
    Heights = {6, 8}
    Records <- MCRecords
    MaxLines = 4
SYMMETRY Interchange
SPECIFICATION Spec
INVARIANTS ScreenIsTail StatsExact
