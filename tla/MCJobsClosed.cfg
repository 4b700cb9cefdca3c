SPECIFICATION FairSpec
CONSTANTS
    None = None
    ListenFd = 0
    Clients <- ThreeClients
    Fds <- FiveFds
    Window = 2
    Workloads <- TwoGood
CHECK_DEADLOCK FALSE
PROPERTY ClosedClientEndsJob
