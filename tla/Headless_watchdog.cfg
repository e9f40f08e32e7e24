CONSTANTS
    Main = main
    Workers = {}
    FaultSigs = {SIGSEGV}
    PipeCap = 2
    MaxEvents = 2
SPECIFICATION Spec
INVARIANT WatchdogStatus
