CONSTANTS
    BufMax = 2
    SockBuf = 3
    N = 3
    ITERS = 2
    Reader = "b"
    Clients = {"any", "packet_loss", "partial_read", "cascading_failure", "flaky_environment", "split_brain"}
SPECIFICATION Spec
INVARIANTS Conserved EofMeansDrained HealTakesHold QuietCloseIsSafe LossFigureExact
PROPERTIES CloseEnds RunReturns
