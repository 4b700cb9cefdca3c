SPECIFICATION Spec
CONSTANTS
    Width = 2
    Height = 3
    Sizes <- ThreeSizes
    Available = 5
    MaxScrollback = 5
    Scrollbacks = {3}
    Chars = {"x"}
    Amounts = {0, 1, 2}
    Prologue <- ThreeLines
    MaxCalls = 4
CONSTRAINT Unspoilt
INVARIANTS PendingExact NoGhostCursor
CHECK_DEADLOCK FALSE
