CONSTANTS
    Main = main
    Workers = {}
    FaultSigs = {SIGSEGV}
    PipeCap = 1
    MaxEvents = 1
SPECIFICATION FairSpec
PROPERTY WatchdogAlwaysBoundsRun
