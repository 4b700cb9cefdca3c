SPECIFICATION Spec
CONSTANTS
    Timestamps <- Around
    MaxSyncs = 4
    MaxGap = 200
CHECK_DEADLOCK FALSE
INVARIANTS TimelineExact FramesInTime NeverShort
