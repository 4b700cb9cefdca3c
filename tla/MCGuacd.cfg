SPECIFICATION Spec
CONSTANTS
    c1 = c1
    c2 = c2
    c3 = c3
    Conns = {c1, c2, c3}
    Select <- NewJoinNew
    After <- ThirdLater
    MaxFaults = 1
    Fds <- TwelveFds
    None = None
INVARIANTS RoutedRight OwnerIsCreator ProcessEnds ClientReleased
CHECK_DEADLOCK FALSE
