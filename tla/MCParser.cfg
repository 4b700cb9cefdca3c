SPECIFICATION FairSpec
CONSTANTS
    Readers = {"socket", "recording"}
    Instructions <- MCInstructions
    Broken <- MCBroken
    BufSize = 10
    DataSize = 10
    MaxElements = 3
    MaxLength = 9
    MaxSent = 3
CHECK_DEADLOCK FALSE
INVARIANTS DeliveredExact ClippedOnlyInside RefusedOnlyBroken TooLongOnly CaughtUp
PROPERTY CallEnds
