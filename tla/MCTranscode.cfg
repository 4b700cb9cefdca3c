SPECIFICATION FairSpec
CONSTANTS
    u = u  v = v
    None = None
    Workers <- MCWorkers
    Names = {"m", "n"}
    MaxFrames = 2
    MayFail = {"thread", "fork", "exec"}
CHECK_DEADLOCK FALSE
INVARIANTS ChildrenAccounted NothingLeftBehind
PROPERTY WaitEnds
