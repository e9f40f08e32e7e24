CONSTANTS
    Callers = {t1, t2}
    Fds = {f1}
    IO_SLOTS_MAX = 1
    Quotas = {2}
    Chunks = {1}
    MaxWrite = 2
    MaxFile = 5
    ConfigFirst = TRUE
    Overlap = FALSE
SPECIFICATION Spec
INVARIANT FileWithinQuota
