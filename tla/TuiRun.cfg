CONSTANTS
    Main = main
    Workers = {}
    FaultSigs = {SIGSEGV}
    PipeCap = 1
    MaxEvents = 2
SPECIFICATION FairSpec
INVARIANTS QuietMeansDone PollHintHolds
PROPERTIES ImplementsContract AbortEndsRun WatchdogBoundsRun ZombieReaped
