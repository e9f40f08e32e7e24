CONSTANTS
    WORKERS = 3
    WRITES = 2
    ITERS = 2
    FIELDS = 3
    Word = 64
    Lags = {0, 1, 7}
    TIMEOUT = 3
    BUMP = 2
    JUMP = 6
    NET = 6
    FSYNC = 3
    JITTER = 2
    TARGET = 5
    TICKS = 3
    SizeT = 32
    UInt32 = 5
    ALIGN = 2
    REDZONE = 2
    Total = 16
    Sizes = {1, 2, 5, 25, 31}
    MaxBlocks = 2
    MaxWrites = 2
    Clients = {"any", "arena_corrupt", "double_free", "uaf_callback"}
SPECIFICATION OneSpec
INVARIANTS RaceFloor TimerHandleLive HerdTotals MeasuredTimesSane
INVARIANTS BlocksInArena CheckExact FreedOnceAndReported
PROPERTY RunEnds
