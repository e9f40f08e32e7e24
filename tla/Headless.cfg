CONSTANTS
    Main = main
    Workers = {w1}
    FaultSigs = {SIGSEGV}
    PipeCap = 2
    MaxEvents = 3
SPECIFICATION FairSpec
INVARIANTS TypeOK EventPipeOpen EarlyExitMeansWatchdog NoLostEvents CrashRecorded
PROPERTIES ImplementsContract WatchdogBoundsRun EndingRunEnds
