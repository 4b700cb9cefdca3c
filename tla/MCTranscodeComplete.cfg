SPECIFICATION Spec
CONSTANTS
    u = u  v = v
    None = None
    Workers <- MCWorkers
    Names = {"m", "n"}
    MaxFrames = 1
    MayFail = {}
CHECK_DEADLOCK FALSE
INVARIANT OutputComplete
