CONSTANTS
    WORKERS = 3
    WRITES = 2
    ITERS = 2
    FIELDS = 3
    Word = 64
    Lags = {0, 1, 7}
    TIMEOUT = 3
    BUMP = 2
    JUMP = 6
    NET = 6
    FSYNC = 3
    JITTER = 2
    TARGET = 5
    TICKS = 3
SPECIFICATION Spec
INVARIANT SafetyNetStops
