SPECIFICATION WorkersSpec
CONSTANTS
    None = None
    ListenFd = 0
    Clients <- ThreeClients
    Fds <- FiveFds
    Window = 1
    Workloads <- ManyWorkloads
CHECK_DEADLOCK FALSE
INVARIANTS PermitsAccounted WindowRespected RegisteredIsOwn
    PermitKeptOnlyOnParseError FreedOnlyUntold
PROPERTY ToldWorkerEnds
