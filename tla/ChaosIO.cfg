CONSTANTS
    Callers = {t1, t2}
    Fds = {f1, f2, f3}
    IO_SLOTS_MAX = 2
    Quotas = {1}
    Chunks = {1}
    MaxWrite = 2
    MaxFile = 3
    ConfigFirst = TRUE
    Overlap = FALSE
    Clients = {"any", "disk_full", "partial_write"}
    Rounds = 2
    AnyBytes = 3
SYMMETRY Interchange
SPECIFICATION FileSpec
INVARIANTS TypeOK SlotUnique SlotBacked OwnedHasSlot NoFdLeak AccountExact OvershootBounded FileFigures
