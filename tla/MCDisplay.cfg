SPECIFICATION Spec
CONSTANTS
    w1 = w1  w2 = w2
    None = None
    Workers <- TwoWorkers
    Recording <- Instructions
    Prefix <- Began
    MaxRest <- Lengths
    MaxLayers = 4
    MaxBuffers = 1
    MaxStreams = 1
CHECK_DEADLOCK FALSE
PROPERTIES FrameIsTree CursorOnTop OthersFrameKept
