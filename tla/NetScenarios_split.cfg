CONSTANTS
    BufMax = 2
    SockBuf = 2
    N = 2
    ITERS = 2
    Reader = "b"
    Clients = {"split_brain"}
SPECIFICATION Spec
INVARIANT HearsPeer
