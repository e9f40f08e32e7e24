CONSTANTS
    Main = main
    Workers = {w1}
    FaultSigs = {SIGSEGV}
    PipeCap = 2
    MaxEvents = 2
SPECIFICATION Spec
INVARIANT CrashReported
